# BlendPOS: TLA+ verification project

BlendPOS is a multi-tenant point-of-sale system: a Go backend over PostgreSQL and
Redis, a React terminal that keeps selling while it is offline, and a Python
sidecar that talks to the Argentine tax authority (AFIP). Its correctness rests on
code that tests hardly reach: handlers that check a row in one statement and write
it in another, browser tasks that interleave between two awaits, workers that save
whole rows from old copies, processes that stop in between. The modules here model
that code statement by statement where another process can get in between, TLC
checks them on small instances, and TLAPS proves the properties that matter most
for every size.

## 1. Inventory

| Component (code) | State it keeps | Operations | What is hard about it | What makes it correct |
|---|---|---|---|---|
| AFIP circuit breaker (`infra/circuit_breaker.go`) | state, two counters, time of the last failure | `State`, `Execute`, `onFailure`, `onSuccess` | the mutex is free while `fn()` runs: results arrive in another state than the one that admitted the call | bounded burst of failures, nothing admitted while open, closes once the sidecar is back |
| Sales and stock (`venta_service.go`, `inventario_service.go`, repositories) | `productos.stock_actual`, `stock_sucursal`, `movimientos_stock`, `ventas` | `RegistrarVenta` (online), `SyncBatch`, `AnularVenta`, `DescontarStockTx`, `DesarmeManual` | checks outside the transaction, row locks taken in cart order, disassembly of packs over several UPDATEs, retries of offline sales | a sale once, no unit created or lost, no online oversale, every request answered |
| Cash-register sessions (`caja_service.go`, `caja_repo.go`) | `sesion_cajas`, `movimiento_cajas` | `Abrir`, `RegistrarMovimiento`, the movements of sales and anulaciones, `Arqueo` | no handler has a transaction around its checks; `Arqueo` saves a row it read before it summed | one open session per point of sale, closed is final, the class of the deviation |
| Offline sales queue (`frontend/src/offline/sync.ts`, `db.ts`) | IndexedDB `sales` and `sync_queue` | `enqueueSale`, `trySyncQueue`, `recoverLostSales` | no lock between calls; answers lost or late; a tab closes; a client and a server that disagree on the answer | recorded at most once, marked only when recorded, never dropped for free, settled at last |
| Fiscal documents (`worker/facturacion_worker.go`, `retry_cron.go`, `pool.go`, `dlq.go`, `facturacion_service.go`, `handler/inventario.go`) | job list and DLQ in Redis, `comprobantes` | worker, retry cron, manual retry and cancellation, download, regeneration and e-mail of a PDF, restart | four kinds of agents save whole rows from copies up to 30 s old (a PDF handler renders between its read and its save, whatever estado the row has); the job is popped before its row has a turn | emitido exactly with a CAE, a pending row is somebody's turn, bounded calls to AFIP, decided at last |
| Credit accounts (`cliente_service.go`, `cliente_repo.go`) | `clientes.saldo_deudor`, `movimientos_cuenta` | `CargarFiado`, `RegistrarPago`, `Actualizar` | absolute balance written from a stale read; the charge runs after the sale's commit | balance and statement agree, stay in range |
| Transfers between branches (`transferencia_service.go`, `stock_sucursal_repo.go`) | `transferencias`, `stock_sucursal` | `Crear`, `Completar`, `Rechazar`, `Cancelar`, `AjustarStockSucursal` | estado checked outside the transaction; a second connection inside it | decided once, stock conserved, every request answered |
| Session and API client (`api/client.ts`, `useAuthStore.ts`, `tokenStore.ts`) | tokens in memory and sessionStorage, user in localStorage, the shared refresh | `request`, 401, refresh, timer, login, registration, logout, reload | many callers meet a 401 together; the server exchanges a token once; either half of an exchange may be lost; the registration page is open to a signed-in user | one refresh at a time, user and tokens together, nobody waits for ever |
| Cart and local catalogue (`useCartStore.ts`, `usePromocionesStore.ts`, `SalesTable.tsx`, `offline/catalog.ts`) | lines, discounts, totals, IndexedDB products | add, weigh, quantity, discount, promotions, download and delta | handlers await IndexedDB between check and change | one line per product, the total that is due, no more than the stock |
| Checkout (`PosTerminal.tsx`, `PaymentModal.tsx`, `DiscountModal.tsx`, `useSaleStore.ts`) | open dialogs, payment form, ticket numbers | keys, payments, confirmation, reload | lines arrive under an open payment form; the counter comes late | payments add up, no sale without lines, numbers grow |
| Terminal and cash session (`useCajaStore.ts`, `AbrirCajaModal.tsx`, `PostSaleModal.tsx`) | `sesionId`, the loop that waits for a document | restore, open, lose, poll | the session changes elsewhere; cancelled loops whose fetch still arrives | starts, asks for a session, stops waiting |
| Administration pages (`pages/admin/*`, `PriceCheckModal.tsx`, `OnboardingPage.tsx`, `ImportProductosModal.tsx`, `sw.ts`) | a copy of rows, dialogs, busy flags | forms, switches, bulk actions, panels, reloads | answers in any order, double clicks, failures between two awaits, lists answered from the service worker's cache, answers that are not what the list shows (the total stock for a branch's, a row its filter excludes) | what is shown at rest is what the server has, nothing guarded twice, no spinner stays |
| Purchase form (`NuevaCompraPage.tsx`) | rows, payments, totals | edit, save, cancel | two formulas for one total, rows dropped on saving | saved as it was shown |
| Shell, plan, branches (`App.tsx`, `AdminLayout.tsx`, `useFeature.ts`, `useSucursalStore.ts`, `sw.ts`) | route, features cache, plan name, branch | navigation, login, logout, expiry | answers of one session arrive in the next; the service worker's cache outlives both | features, plan and branch of the tenant |
| Thermal printer (`ThermalPrinterService.ts`, `PosHeader.tsx`, `PrinterSettingsModal.tsx`) | the service's port, writer and `isConnected`, the header's badge, the port of the last time | connect, disconnect, reconnect on mount, drawer test | three handlers open and close the one port across each other's awaits; the browser refuses to open an open port | connected means there is a writer on an open port |
| Products (back end), suppliers and purchases, promotions, lots, reports, audit | one table each | CRUD and queries | - | - |
| Tenants, plans and limits (`tenant_service.go`, `scoped.go`, `middleware/plan.go`) | tenants, plans | register, scope of every query | a context without a tenant makes every scoped call fail | isolation |
| Billing, rate limiting, AFIP sidecar, AI assistant, PDF/HTML/e-mail output | see section 8 | | | |

How they interact. The terminal sells online through `POST /ventas`, or writes the
sale to IndexedDB and sends it later through `POST /ventas/sync-batch`; both end in
`registrarVentaInternal`, whose transaction writes the sale, its stock and its cash
movements under the open session. After the commit the sale charges a credit account
and pushes a job to Redis, or inserts a pending `comprobante` when Redis fails. Workers
pop jobs and call the sidecar through the circuit breaker; the retry cron does the same
for pending rows whose `next_retry_at` has passed. Anulaciones give stock and cash
movements back. Every page and every store of the front end reaches the server through
`request()` of `client.ts`; in production the service worker stands behind it and answers a
GET under `/v1` that fails, or takes more than 5 s, with the body it kept for that URL in the
last hour.

### What each part shares

* `ventas`, `productos`: shared by every HTTP request; PostgreSQL at READ COMMITTED,
  row locks by UPDATE and `SELECT ... FOR UPDATE`, a unique index on
  `(tenant_id, offline_id)`.
* `sesion_cajas`: shared by cashiers and sales; a partial unique index allows one
  open session per point of sale.
* IndexedDB: shared by every tab and every call of the sync functions.
* `comprobantes`: shared by workers, cron and administrators through whole-row saves.
* `clientes`, `stock_sucursal`, `transferencias`: shared by every request; whole-row
  saves, and checks outside the transaction.
* The service worker's cache: shared by every tab and every session of a browser; its key is
  the URL, without the tenant or the branch of the request, and logout keeps it.
* The stores of a tab: shared by every handler that waits at an `await`. JavaScript runs
  one handler at a time up to its next `await`, which is where the modules of the front
  end let others in. localStorage is shared by the tabs of a browser.

## 2. Plan

Done, in this order: `CircuitBreaker`, `Ventas`, `Caja`, `OfflineSync` with its promise
`SaleDelivery`, `Facturacion`, and proofs about the first three; then the front end
(`AuthSession`, `Carrito`, `Cobro`, `Terminal`, `Paginas`, `NuevaCompra`, `AdminShell`)
and the two services left of the back end (`Fiado`, `Transferencias`, composed with
`Caja` in `Servicios`); then the proofs of the offline queue and its refinement, of the
fiscal documents, the API client's session, the credit accounts, the transfers, the
books of stock in `Ventas`, the shell, the cart and the checkout, on lemmas about sums
(`SumTheorems`); the proofs of the pages
and the purchase form; and last `Impresora`, the PDF handlers of `Facturacion`, registration
by a signed-in user, and the service worker in `Paginas` and `AdminShell`.

The plan is complete: every safety and action property of the runs is proved but three
(`SolaAvanza`, `ConectadaEscribe` and the last part of `CarritoCuadra`), for the reasons that
section 6 gives.

What composes what. `OfflineSync` implements `SaleDelivery`. `Cobro` extends `Carrito`
and runs its handlers only when the screen lets them. `NuevaCompra` extends `Paginas`
and is one of its pages. `Servicios` puts `Caja`, `Fiado` and `Transferencias` into one
specification; they share no table, so a behaviour exercises one of them; `Puesto` does the same for
`Terminal` and `Impresora`. `Facturacion`
takes the breaker as its environment (`CambiaCB`), and `Ventas` the closing of a session
(`CerrarSesion`): the modules they abstract, `CircuitBreaker` and `Caja`, show that the
assumption is right (the breaker closes again, a closed session stays closed).

## 3. Modules and the code they model

`PROJECT.json` maps every definition to its lines. In outline:

| Module | Models | State | Actions and the code behind them |
|---|---|---|---|
| `CircuitBreaker` | `infra/circuit_breaker.go` | `state`, the two counters, `sinceFailure`, where each caller is | `Execute` (the admission under the mutex), `OnFailure`, `OnSuccess` (the recording under the mutex, later), `ReadState` (health endpoint and cron), `Tick`, `SidecarFlips` |
| `Ventas`, `MCVentas` | `venta_service.go`, `inventario_service.go`, venta and producto repositories | committed stock, branch stock, ledger, `ventas`, row locks; per request its place, body, loop index, pending UPDATEs and uncommitted changes | one action per statement that takes a lock or reads what others change, see below |
| `Caja` | `caja_service.go`, `caja_repo.go`, the cash movements of `venta_service.go` | sessions with the sum of their movements, sales, per request what it has read | `BuscarAbierta`/`CrearSesion` (Abrir), `FindSesionAbierta`/`CreateMovimiento`, `BuscarVenta`/`AnularVenta`, `BuscarSesion`/`SumarMovimientos`/`GuardarCierre` (Arqueo) |
| `SaleDelivery` | what the offline queue promises | confirmed, recorded, marked | `Confirm`, `Record`, `Mark`, `Unmark` |
| `OfflineSync`, `MCOfflineSync` | `offline/sync.ts`, `db.ts`, and `SyncBatch` as the terminal sees it | IndexedDB tables, the server's rows, per task the rows it has read | `EnqueueSale`; `ReadBatch`, `ServerProcess`, `ApplyResults`, `ReplyObject`, `ReplyError`, `ConnectionLost` (trySyncQueue); `ReadErrorItems` ... `Reenqueue` (recoverLostSales, one action per await); `CloseTab` |
| `Facturacion`, `MCFacturacion` | `facturacion_worker.go`, `retry_cron.go`, `pool.go`, `facturacion_service.go` | Redis list and DLQ, `comprobantes`, breaker, per agent its copy of the row | `Tomar` ... `GenerarPDF` (worker), `ListarPendientes`, `ReintentarFila`, `GuardarFila`, `DetenerLote` (cron), `BuscarReintento`/`GuardarReintento`, `CancelarPendientes`, `DescargarPDF`, `RegenerarPDF`, `EnviarEmailComprobante` and their `GuardarPDF` (`handler/inventario.go`), `Caida` |
| `Fiado` | `cliente_service.go`, `cliente_repo.go` | the customer's row, the movements, per request the row it read | `Pedir`, `FindByID`, `UpdateSaldoTx` (CargarFiado, RegistrarPago), `Actualizar`, `Fallar` |
| `Transferencias` | `transferencia_service.go`, `transferencia_repo.go`, `stock_sucursal_repo.go` | stock per branch, which rows exist, transfers, per request its statement and uncommitted changes | `Recibe`; `AseguraAlCrear`, `Crea`; `BuscarTransferencia`, `AseguraAlCompletar`, `AjustarStockSucursalTx`, `CompletarTransferencia`; `UpdateEstado` (Rechazar, Cancelar); `AseguraAlAjustar`, `AjustarStockSucursal`; `Vence` (the 30 s of `router.go:90`) |
| `Servicios` | the three services above in one specification | `servicio`: which one this behaviour is about | |
| `AuthSession` | `api/client.ts`, `tokenStore.ts`, `useAuthStore.ts`, the login, registration and password pages | tokens, user, what localStorage has, each caller of `request()`, fetches in flight, the server's exchanged tokens | requests and their 401s, the shared refresh and its answers, `InitAuth`, the timer, login, registration (signed in or not), logout, reload, another tab |
| `Carrito`, `MCCarrito` | `useCartStore.ts`, `usePromocionesStore.ts`, `SalesTable.tsx`, `ProductSearch.tsx`, `WeightInputModal.tsx`, `offline/catalog.ts` | cart, promotions, local stock, handlers waiting at an await | one action per stretch between two awaits |
| `Cobro`, `MCCobro` | `PosTerminal.tsx`, `PaymentModal.tsx`, `DiscountModal.tsx`, `usePOSUIStore.ts`, `useSaleStore.ts` | open dialogs, customer of a credit sale, last sale, ticket counter | keys, dialogs, payment, `confirmSale`, leaving, reloading, `SyncTicketCounter` |
| `Terminal` | `useCajaStore.ts`, `AbrirCajaModal.tsx`, `PostSaleModal.tsx`, the effects of `PosTerminal.tsx` | the session here and on the server, the polling loop and the fetches it left behind | restore, open, close here and elsewhere, each step of the loop |
| `Impresora` | `ThermalPrinterService.ts`, `PosHeader.tsx`, `PrinterSettingsModal.tsx`; the browser's serial ports | state of each port, the port kept in localStorage, the service's port, writer and `isConnected`, the badge, handlers in flight | `Monta`, `Conecta`, `Desconecta`, `PruebaCajon`, the browser's answers (`ListaPuertos`, `EligePuerto`, `CancelaEleccion`, `Abierto`, `NoAbre`, `Cerrado`), `Desmonta`, `RecargaPagina` |
| `Puesto` | the two modules above in one specification | `parte`: which one this behaviour is about | |
| `Paginas` | the pages under `pages/admin`, `PromocionesTab`, `PriceCheckModal`, `OnboardingPage`, `ImportProductosModal` | the server's rows, the page's copy, dialog, busy flags, panels, calls in flight | one definition per handler of each page, over the shared `Red` (a call is attended, answered, answered by the service worker (`DeCache`), or fails) |
| `NuevaCompra` | `NuevaCompraPage.tsx` | rows, payments, suppliers, the focused field | editing, saving, leaving |
| `AdminShell`, `MCAdminShell` | `App.tsx`, `ProtectedRoute`, `FeatureGate`, `useFeature.ts`, `config/plans.ts`, `AdminLayout.tsx`, `useSucursalStore.ts`, `LoginPage.tsx`, `sw.ts` | the tab: user, route, features, plan, branch, calls in flight | login, logout, expiry, navigation, branch selection, reload, answers (`Responde`, `Cruza`), failures, and answers of the service worker (`DeCache`) |
| `VentasProofs`, `OfflineSyncProofs`, `FacturacionProofs`, `AuthSessionProofs`, `ServiciosProofs` | theorems about the module of that name (`FacturacionProofs`: `CircuitBreaker` too; `AuthSessionProofs`: `AdminShell` too; `ServiciosProofs`: `Caja`, `Fiado` and `Transferencias` as `Servicios` composes them) | | |
| `CobroProofs` | theorems about `Carrito`, and about `Cobro`, which runs it behind the screen | | |
| `PaginasProofs` | theorems about `Paginas` and `NuevaCompra`, which extends it, under the specification of both | | |
| `SumTheorems` | facts about the sum of a function that the proofs of `Ventas`, `Servicios`, `Cobro` and the purchase form share | | |

Modelling decisions a reader should know:

* **Ventas.** One tenant. A request is a goroutine in one handler; the pre-flight
  reads (`RevisarLineas`) are outside the transaction, the re-validation
  (`BloquearLinea`) is one `FOR UPDATE` per line in cart order, `LeerLinea` is the
  unlocked read of `DescontarStockTx`, `UpdateStockTx` one UPDATE that waits for the
  row lock. A transaction's changes are in `delta` until the commit. Waiting for the
  unique index on `offline_id` is modelled (`EsperaIndice`), and so is PostgreSQL's
  deadlock detector (`EnCiclo`, `DeadlockAbort`). `valida` stands for the checks that
  depend on the request alone (weight, discount cap, sum of payments). The rows of
  `stock_sucursal` are written after the product's row lock is held, so their locks
  add no wait and are not modelled separately. A crash of a request (`Caida`) also
  covers the 30 s timeout of `middleware/timeout.go`. With 100 pool connections the
  pool is not modelled. `Peso` is a ghost of the properties: a number per product in
  which a pack is worth the units it opens into. The conservation of stock is stated in
  those numbers because a disassembly writes no movement; it holds for every such
  valuation, so a valuation that is zero outside one family gives it family by family.
* **Caja.** Amounts are whole pesos; the five payment methods only appear summed.
  `DesvioPct` computes with integers what the code computes with decimals, including
  the rounding to two places, and `CabeEnColumna` is the DECIMAL(5,2) of
  `desvio_pct`. Payments by `fiado` never reach the table: the CHECK constraints of
  `venta_pagos` and `movimiento_cajas` do not list it.
* **OfflineSync.** Each call is a task; a task keeps the rows it read and puts them
  back whole. `ReplyForms` says what a 200 answer looks like: `"object"` is what the
  server sends at this commit, `"list"` is what the client is written for; the
  passing runs allow both. `Inherited` are sales that an earlier build left marked
  as synced, the reason `recoverLostSales` exists; the server may or may not have
  them. `rejections` is a ghost that counts the answers that refused a sale.
* **Facturacion.** `conTenant` says whether the context handed to workers and cron
  carries a tenant: `FALSE` is the wiring of `main.go:105` at this commit
  (`context.Background()`), `TRUE` the one the workers' code and tests are written for.
  The safety run covers both. `caes` and `llamadas` are ghosts. AFIP's answer
  `"perdida"` is an authorisation whose reply is lost. The three PDF handlers read a row,
  render, and save the whole row for its `pdf_path`; only `RegenerarPDF` asks for a CAE
  (`inventario.go:376`). The ghost `pisadas` counts, per sale, the saves of theirs that put
  back something else than the row held by then: such a save can take a pending row's turn
  and its counter away, so `PendienteTieneTurno`, `IntentosAcotados` and
  `PendienteSeResuelve` allow for them by name (see 7, `SoloPdfPath`). `AnularComprobante` is not an
  action: the table's CHECK refuses the estado it writes, so it changes nothing.
* **Fiado.** One customer. `admiteFiado` says whether the CHECKs of `venta_pagos` and
  `movimiento_cajas` admit the method: `FALSE` is what the migrations give at this commit,
  where a sale on credit is rolled back and never charged, `TRUE` what the services and
  `model/venta.go:61` are written for. `pisada`, `editada`, `fiadas`, `limites` are ghosts.
* **Transferencias.** `GetOrCreateStock` runs on a connection of its own and waits for
  every uncommitted write of its row, the request's own included. `Vence` stands for the
  request deadline, for a deadlock PostgreSQL does detect, and for a lost connection: all
  roll back. `Surtidos` are the item lists of a transfer, none empty (`min=1` of its request). The pool has `Conexiones` connections (100 in the code).
* **AuthSession.** `RegisterPage` stores the new tenant's tokens, asks `refresh()` for the
  user, and sets it when that is answered; neither the page nor its route asks who is signed
  in. Between the two the screen shows the old user over the new tokens, so `TokensOfUser`
  speaks from the moment the registration's `refresh()` has settled (`restoring`).
  `crossed` is the ghost for a session installed while an older refresh was in flight.
* **Front end.** A handler is a sequence of actions cut at its awaits; React's effects run
  before the next event. Answers arrive in any order, or fail. Texts, layout and
  validation messages are left out; what a property does not tell apart (names, bar codes,
  four card-like payment methods) is one value.
* **Paginas.** The rows of a page stand for products, customers, purchases, whichever the
  page shows. A call carries what its closure captured. The ghosts `carrera` (a call
  overtook another, a handler outlived its filter or its row, or a page put into its list
  an answer that the list's filter or branch does not speak for) and `averia` (a read failed or was
  answered from the service worker's cache, or an answer was lost) say where the pages do not
  repair themselves. A filter excludes rows (`Visibles`) on the pages that ask by estado, and
  where it is a branch the row shows that branch's stock (`Vista`), while an adjustment is
  answered with the total; `Parche` names the handlers that keep such an answer. Two more
  cases of `carrera` are easy to miss: a form about the lots or variants of one product whose
  re-read arrives after the panel was opened for another, and a switch pressed while a
  call that changes its row, or a bulk deletion, is in flight. `Filtra` is JavaScript's
  `filter`, the fold that keeps the elements at some positions.
* **AdminShell.** The ghosts `tarde` and `expiro` mark the behaviours in which an answer
  arrived in a later session, or a session ended without a logout. `ajenas` holds the reads
  (features, plan name, branches) whose last answer was for another tenant than asked:
  repeated with the token of a later session (`Cruza`), or kept by the service worker
  (`DeCache`). A read answered with its own tenant's data leaves the set, so the properties
  speak again. A cached body of the tenant's own is as good as an answer.
* **Carrito.** A product found through the API fallback of the search carries no
  `unidadMedida` (`ProductSearch.tsx:44`), so a weighed product enters the cart as a unit.
* **Impresora.** A port is closed, opening, open or closing; the browser refuses to open one
  that is not closed. The service, its handlers and the permissions outlive the header; a
  reload closes the ports.
* Definitions commented `Mutant:` or "a plausible bug" are faulty variants that no specification uses;
  each makes one property fail when it takes the place of the definition it follows.

## 4. Runs

Deadlock checking is off where the bounds (`MaxRequests`, `MaxItems`, ...) let the
system come to rest; it is on for the breaker.

Several properties are conjunctions of named parts about one thing, so that a run says
of each component whether it is in order; the table lists the parts in parentheses. The
type invariants of `CircuitBreaker` and `Caja` are proved and not run; elsewhere the type
invariant is one of the parts.

| Run | Distinct states | What it shows |
|---|---|---|
| `breaker` | 466 | 3 callers, both thresholds 2, open for 2 ticks. `FailureBurstBounded`: however calls interleave, the failures of an episode stay below threshold + callers. `NoAdmissionWhileOpen`, and `RecoversOnceUp`: a sidecar that stays up is reached again. |
| `ventas_stock` | 404,930 | 2 concurrent requests of 3, a pack of two units, its unit and a weighed product, carts that lock rows in opposite orders, all four handlers. `OfflineUnico`: an offline sale is recorded once. `ExistenciasCuadran` (`TypeOK`, `StockConservado`: counted in units, a pack for what it opens into, stock = initial + movements through every disassembly, rollback and race; `SucursalConservada`: the branch's stock moves with it). `OnlineNoSobrevende`, `TodaRequestTermina`. |
| `servicios` | 408,437 | One of three services, 2 concurrent requests. Caja (of 4, 2 points of sale, declarations at and one peso above the rounded bounds): `UnaAbiertaPorPunto`, `CerradaNoReabre`, `ClasificacionFiel`. Fiado (of 4, limits none, 2 and 3, both schemas): `CuentaCuadra` (`SaldoCuadra`, `SaldoDelExtracto`, `SaldoEnRango`). Transferencias (of 3, a missing row, lists in opposite orders and one with an article twice, 2 connections): `TrasladosCuadran` (`TrasTypeOK`, `TrasladosConservan`), `SolaAvanza`, `TodaPeticionTermina`. |
| `offline_queue` | 760,941 | 2 overlapping calls and 2 recoveries over a sale that is new or was left marked, up to 3 queue rows of it, a closed tab, both answer shapes: `QueueKeepsSales` (`TypeOK`, `KeptUntilRejected`), the refinement `ImplementsDelivery`, `EventuallySettled`. |
| `factura` | 1,790,294 | A factura or a ticket, worker, cron and an administrator, with and without a tenant, a restart, a refused write, an administrator's request and the PDF of a row: `FilasFieles` (`TypeOK`, `EmitidoConCAE`), `PendienteTieneTurno`, `IntentosAcotados`, `PendienteSeResuelve`. |
| `factura_sin_tenant` | violated | `PendienteAlCiclo` with the wiring of this commit, see 7. |
| `auth_session` | 453,237 | A page request, the timer, two sessions by login or registration, three token pairs, a reload, another tab: `SharedRefresh` (`NeverPresentedTwice`, `WaitersAreServed`), `SessionCoherent` (`TypeOK`, `UserHasTokens`, `TokensOfUser`), `OnlyLoginSignsIn`, `WaitsEnd` (`AppStarts`, `RefreshReleases`). |
| `pos_carrito` | 1,895,663 | 4 things the cashier does, 2 handlers in flight, 1 download, two unit products and a weighed one, promotions and a combo: `CarritoCuadra` (`TypeOK`, `UnaLineaPorProducto`, `TotalAlDia`, `FilasCuadran`), `CantidadConStock`, `CantidadNoRevive`. |
| `pos_cobro` | 7,723,792 | 3 things done to the cart, a promotion that may arrive under the open payment form, 2 sales, cash, card, mixed and credit, a reload, a late ticket number: `VentaCuadra` (`CobroTypeOK`, `PagosCuadran`, `PagoConCarrito`), `NumerosCrecen`. |
| `pos_terminal` | 26,746 | 2 sales, 2 cash sessions opened and closed here or elsewhere, 2 polls: `CajaResuelta` (`PosArranca`, `CajaSePide`, `CajaNoEstorba`), `SondeoTermina` (with `TypeOK`). Or the printer, with 2 ports and 2 handlers in flight: `ConectadaEscribe` (with `ImpresoraTypeOK`). |
| `admin_paginas` | 1,894,913 | 24 pages and dialogs, 2 rows, 2 filters (all, and one that excludes a row or is a branch), 5 clicks, 2 calls in flight, 1 failure or answer of the service worker; the purchase form with 2 rows: `PantallaFiel` (`TypeOK`, `FielEnCalma`, `PanelDelTitulo`, `AnuladaNoRevive`), `UnaVez`, `CompraCuadra` (`ClavesUnicas`, `TotalEsSuma`, `SeGuardaLoMostrado`), `PaginaSeRecupera` (`SeLibera`, `TableroSeCura`). |
| `admin_shell` | 5,931,685 | Users of 2 tenants, 2 sessions, 3 steps, a reload, a failure or an answer of the service worker: `RasgosFieles` (`TypeOK`, `RasgosDelTenant`, `EsperaConLlamada`), `PanelDelUsuario` (`MenuLleva`, `SucursalDeLaLista`, `PlanPropio`), `SesionSinSucursalAjena`. |

Why the bounds are enough. The races here are between two actors (two requests, two
tasks, two handlers, a worker and the cron, a session and the one before it); a third
actor adds repetitions of the same races, and the proofs of section 6 remove the bound
for the properties they cover. Each run has one operation more than the shortest race
needs: an anulacion needs a sale before it (3 requests), a deadlock two carts, a sale
refused until it is dropped `MaxTries` answers (2) and then a recovery, a late answer of
an earlier session two sessions, a page two overlapping handlers and a click that
reopens a dialog, a PDF one save over a worker's result, the printer a handler that waits at
its await while another opens or closes the port. `MaxTries`, `MaxRetries` and `MaxPolls` are 2 (3, 10 and 10 in the code)
so that both "one more try" and "last try" occur. In `factura` the ghost counter
of calls stops at `MaxLlamadas` = 14, above every bound it is compared with (12 at most), and
`MaxCAEs` = 1 tells a sale with an authorisation from one without (two are told apart where
`UnaAutorizacion` is looked at). Amounts and stocks sit on the
boundaries: stock 1 with carts of 1 and 2, a deficit that needs exactly one pack,
declarations at 5 % and 5.05 % of 2000, charges that meet and pass the credit limit, a
discount above 100 while it is typed. `auth_session` has one page request besides the
callers of the stores (timer, logout, password), which are enough for two waiters on one
refresh.

## 5. Fairness

* `CircuitBreaker`: the clock ticks, a caller that may call does (jobs and the cron
  keep coming), a call returns (the HTTP client has a timeout).
* `Ventas`: each request's own steps (`WF(Paso(r))`: a goroutine is scheduled, a
  lock that is free is granted) and PostgreSQL's deadlock detection. No fairness on
  `Recibir` or on crashes.
* `OfflineSync`: weak fairness on the timer's `trySyncQueue`, on a recovery that has
  begun, on a row becoming due and on the HTTP client giving up. The network is a fair
  lossy channel: of requests that carry a sale again and again, again and again one is
  answered. A sale that the network never lets through stays queued, which is the design.
* `Facturacion`: goroutines and clock weakly fair; the cron's listing and retry
  strongly fair, because the breaker closes again and again (`RecoversOnceUp` of
  `CircuitBreaker`) and the ticker fires while it is closed.
* `Servicios`: the steps of a transfer request and its deadline. No fairness on arrivals,
  and none for `Caja` and `Fiado`, whose properties are safety.
* `AuthSession`: the effect that starts the app, the server's side of an exchange, and a
  refresh settling, by an answer or by an error (`fetch` always settles).
* `Terminal` (in `Puesto`): requests end with an answer or an error, timers fire. No fairness on the
  cashier.
* `NuevaCompra` (`PanelSpec`): the oldest call in flight settles, the dashboard's interval
  and the wizard's timer fire. No fairness on clicks.
* `Carrito`, `Cobro`, `AdminShell` and `Impresora` have safety properties only.

## 6. Proofs

All theorems hold for every value of the constants that satisfies the named `ASSUME`
of the module: any number of callers, requests, products, links, carts and sessions.

| Module | Theorem | Inductive invariant and argument |
|---|---|---|
| `FacturacionProofs`, the breaker | `BreakerTyped`, `CountersAreFresh`, `BurstIsBounded`, `OpenAdmitsNothing` | `BreakerInv` = types, `CountersFitState`, `BurstAccounting`. The bound on the burst is not inductive alone: a late failure in the open state may be recorded for every call in flight, so the invariant counts failures *plus calls in flight*, a sum that only shrinks once nothing is admitted. |
| `ServiciosProofs`, cash sessions | `CajaTipada`, `UnaSolaAbierta`, `ClasificacionCorrecta`, `CerradaEsFinal` | `CajaInv` = typed sessions with one open per point and the class that follows from their amounts, sales that point to sessions, and the types of what each request carries. The partial unique index only guards the insert; that no save reopens a session needs the stale row of an arqueo to be written as closed. The classification rests on arithmetic lemmas that move the comparison from the rounded percentage to the amounts. |
| `VentasProofs` | `OfflineUnaVez`, `SinSobreventaOnline`, `ExistenciasEnOrden` | `IInv` = types, the index (no two open transactions carry one `offline_id`, none carries a recorded one) and, per request, what its transaction holds: an uncommitted change is covered by the row lock (`CambioBloqueado`), and every line re-validated so far is locked and still covered by the committed stock (`Revalidada`). Steps of other requests respect both because nobody takes a row from its holder or changes its stock (`RespetaLocks`); the lines of the loop take their quantity once because the cart's products differ (`Escribiendo`). The books need `LibrosInv` on top: what a transaction has written plus what its plan still owes is worth minus the lines it has gone through (`VentaAlDia`), nothing for a disassembly (`DesarmeAlDia`), the lines given back so far for an anulacion (`Restaura`). A plan that opens packs is worth the same as one that does not (`PlanVale`), because `Peso` makes a pack worth its units; at the commit all lines have been gone through, so stock, ledger and branch move by the same worth (`Asienta`). |
| `OfflineSyncProofs` | `Invariance`, `SalesKeepTheirPlace`, `QueueImplementsDelivery` | `IInv` = `Tables`, `ServerHolds`, `TasksHold`, `Agreement`, `KeptUntilRejected`. That a sale stays queued is not inductive alone: a recovery that purges looks at the tries of a copy it read several awaits ago. So in every copy that may still be put back, each try is a counted refusal of its sale (`GoodRow`), two holders of a row agree about its sale (`Agreement`), and what a task takes for accepted is on the server (`TasksHold`). For the refinement, each step is mapped to one action of `SaleDelivery` or to a stutter. |
| `FacturacionProofs`, fiscal documents | `Invariance`, `EstadoYCAEJuntos`, `PendienteConservaTurno`, `LlamadasAcotadas` | `IInv` = `Tipos`, `FilasBien`, `AgentesBien`, `LoteBien`, `JobUnico`. Every copy of a row that a worker, the cron or an administrator may still save is itself a good row of its sale (`AgentesBien`, `LoteBien`), so a late whole-row save cannot break the agreement of estado and CAE; a copy that leaves a row pending gives it a turn (`ConTurno`), and one job per sale (`JobUnico`) keeps the retry counter in its column. The copies of the PDF handlers are good rows too; what they may lack is a turn, and each of their saves that changes the row is counted in `pisadas`. The bound on calls to AFIP is a potential: calls made, plus those the row's counter still allows, plus those that queued jobs and agents under way may make, never grows but by what a counted save gives back. |
| `AuthSessionProofs` | `Invariance`, `RefreshIsShared`, `UserAndTokensAgree`, `OnlyLoginPutsAUser` | `IInv` = `Types`, `Known`, `OneExchange`, `PairOnItsWay`, `SpentIsLost`, `OneSession`: one exchange at a time is awaited, and it is the promise to join; a pair on its way is held by nobody yet; a spent token is in the store only while its replacement is on its way, or was lost. A token is therefore presented again only when its answer was lost. `OneSession` says whose the tokens are, in the store and in every live exchange; it is silent while a registration waits for its `refresh()`, whose exchange was sent with the new tokens, and the answer to it makes user and tokens agree again. |
| `ServiciosProofs`, accounts and transfers | `CuentaEnOrden`, `TrasladosEnOrden`, `UnaSolaDecision` | (`UnaSolaDecision` is the guard on the estado of a transfer that one request decides at a time, proved and not run.) Fiado: the statement's last line is the row's balance, and the sum of the movements is the balance unless a stale copy was written. Transferencias: `TrasInv` = types, `PedidoBien` for each request, `DecidenSolos`, `TrasladosConservan`, `UnaDecision`; the uncommitted changes of a request add up to nothing over the branches, except between the two updates of an item, where the item's units are missing (`Balanceado`); they touch only rows that exist (`ConFilas`); and a transfer that is not contested has one request deciding on it, while it still waits (`DecidenSolos`). |
| `AuthSessionProofs`, the shell | `RasgosDelUsuario`, `PanelEnOrden`, `SesionLimpia` | `IInv` = `TabBien`, `Guardada`, `Espera`, `Fiel`, predicates of a tab, since a step is the render (`Pinta`) of a tab some handler left, and one lemma (`PintaConserva`) covers every render. The gates alone are not inductive: that a spinner has its call needs the promise of the cache to belong to a call for its tag (`MemoriaBien`), whichever answers took the cache in between. That an answer of the open session is the tenant's needs each call in flight to be of that session's tenant or of an older session (`LlamadaBien`), and an answer for another tenant to be in `ajenas` until the next answer of that read (`Fiel`). The branch of a new session needs the login page to have no user (`Guardada`) and a tab without user no branch (`Limpia`). |
| `CobroProofs`, the cart | `CarritoInvariante`, `CarritoDebido`, `StockAlcanza`, `NoRevive` | `IInv` = `Tiendas`, `Manejadores`, `Bien`, `ConStock`. `Bien` says of a cart and a list of promotions that the cart has one line per id, each at what is due, and totals that follow. A store operation changes one line and leaves the discounts of the others to the effect that runs after it, so the lemmas say that the operation leaves one line per id (`Previo`) and that the effect then makes every line right (`EfectoDa`). The stock needs what each handler carries: the number it read is no more than IndexedDB has, or its product is excused because the stock changed behind it (`Manejadores`). The rows of the screen are a fold over the promotions; what the proof needs of them is their type, since deleting a combo starts one handler per product that stays. |
| `CobroProofs`, the checkout | `CobroInvariante`, `VentaPagada`, `CarritoEnPantalla`, `NumerosNuevos` | `CInv` = `IInv`, `Marco` (types), `Numeracion` (no number issued above the counter), `PagosCuadran`, `PagoConCarrito`. That no sale without lines is recorded rests on `Conserva`: no handler that goes on after its await empties a cart, so that only what the screen lets the cashier do could, and the open form does not let him. The counter of a terminal only takes the greater of its own and the server's. |
| `PaginasProofs`, the purchase form | `CompraSiempreCuadra` | `CompraInv` = the keys of rows and payments are different and below the next one (`Llaves`), no discount above 100 except in the field being typed, and what the last save recorded is what the screen showed. That the total is the sum of the rows is derived from it: the sums of the code are folds over filtered lists; lemmas read each fold as a sum of a function over positions, where a row typed, taken out or set to zero changes one term. |
| `PaginasProofs`, one effect per form | `PaginasUnaVez` | `UnaInv`, over `BaseInv` = the type of every variable and the form of every call (`Forma`: what each page can have sent). A disabled button alone does not carry it, since a dialog can be closed and opened again under its call. So forms are numbered by clicks, and no call has a number yet to come (`Numeradas`); a flag belongs to one call in flight (`UnaPorBandera`), which keeps it set while its form is on the screen (`BanderaPuesta`); a form whose effect is recorded has no other call on its way, and can be sent again only if its answer is still awaited, so its button is disabled, or was closed by it (`SinRepetir`, `SuDialogo`). |
| `PaginasProofs`, the pages at rest | `PaginasFieles` | Four invariants over `BaseInv`. `Ocupados`: a flag that is set has a call in flight that will find its form there; an annulled sale is remembered. `PanelInv`: the rows of a panel are those of its title, or the last call in flight for it brings them, or a call will ask for them (`Rotulo`, `Cuenta`). `ListaInv`, while the ghosts are false: the first `m` calls in flight were attended and the rest not (`Orden`), and there is a chain of copies (`Cadena`) that starts with the screen and applies their answers in turn, whose last one is the server's rows for the filter (`Encaja`) unless the list is still to be read whole (`Firmes`). A copy holds, of each row, what the filter shows of it (`Cifra`, `Vistos`); the ghost excuses the handlers that mix the two. Rows switched on and off are the hard case, since the page flips its own copy: one switch per row is in flight, and every copy of the chain shows the row as the server has it or, before the switch's answer, the other way round (`Giros`). |
| `SumTheorems` | lemmas only | What a sum over a finite set is after one value changes, a value is added, two functions are added, or a sequence is extended. The library's induction theorems cannot be instantiated here, so each is proved from a minimal counterexample: `WFMin` gives a least set (or length) at which the statement fails, and the step leads from it to a smaller one. |

Each proof has one lemma per action or group of actions that end alike, a frame
lemma for the other actors (`AjenaConserva`, `CuentaAjena`), and a last step that puts
them together. In `PaginasProofs`, whose specification has a hundred handlers, each handler
is first shown to be one of a dozen kinds of step (`Paso`: a call attended, answered or
failed, a call sent, a list asked for, a dialog opened, ...), and each invariant is then
shown to survive the kinds. Each inductive invariant was run through TLC on the instance of its run
before it was proved.

Only model-checked: every liveness property (`RecoversOnceUp`, `TodaRequestTermina`,
`TodaPeticionTermina`, `EventuallySettled`, `PendienteSeResuelve`, `AppStarts`,
`RefreshReleases`, `PosArranca`, `CajaSePide`, `CajaNoEstorba`, `SondeoTermina`,
`SeLibera`, `TableroSeCura`) and `SolaAvanza`, since fairness and ENABLED are outside the
prover's reach; `ConectadaEscribe`, which is checked with two ports and two handlers in flight
and not proved; and of `CarritoCuadra` its last part, `FilasCuadran`. The cart shares the
fixed amount of a combo among its products and the rows take it whole: the code divides
doubles, the model whole pesos, so that the sums agree where the shares are exact, as for
the prices of the run, and not for every price.

## 7. Divergences

Statements of the repository's comments, tests or checks that the code does not keep.
The first is a run; the others are stated in the modules, and TLC refutes them when they
are added to a run's configuration (with the instance named, where it is not the run's).

Run:

* `factura_sin_tenant` / `PendienteAlCiclo`: workers and cron run with a context
  without a tenant (`main.go:105`), so scoped reads and writes fail and a pending
  comprobante stays pending; `venta_service.go:405` says the cron picks it up on its next
  cycle.

Stated, not runs:

* `Ventas!RestauradaUnaVez`: `AnularVenta` checks the estado outside its transaction
  (`venta_service.go:464`) and `UpdateEstadoTx` does not repeat the check; two concurrent
  requests restore stock and payments twice.
* `Caja!EsperadoEsSuma` (`model/sesion_caja.go:20`): movements that commit after
  `SumMovimientosByMetodo` (`caja_service.go:146`) belong to the session and not to its
  `monto_esperado`.
* `OfflineSync!AcceptedIsMarked` (`sync.ts:144`): the server answers `sync-batch` with an
  object of id lists, the client filters an array (`sync.ts:147`); recorded sales count as
  failed attempts.
* `Fiado!SaldoEsSuma` (`cliente_repo.go:19`): two requests that read the same balance write
  one over the other; an edit does the same from the copy it read.
* `Fiado!FiadoCargado` (`cliente_service.go:149`): the charge runs after the commit; a limit
  exceeded or a failure is only logged (`venta_service.go:394`). At this commit the CHECKs
  of the payment tables refuse the sale itself.
* `Transferencias!MovidaUnaVez` (`transferencia_service.go:127`): two requests that read
  `pendiente` both complete the transfer, or one completes and one cancels it.
* `Transferencias!NadieSeEspera` (`transferencia_service.go:119`): for a product listed
  twice, `GetOrCreateStock` waits for the request's own transaction until the 30 s deadline.
* `AuthSession!OfflineKeepsSession` ("Seguí vendiendo incluso sin conexión",
  `LoginPage.tsx:35`): a refresh that fails because the network is gone ends the session.
* `Cobro!FiadoConCredito` (`PaymentModal.tsx:175`): the limit is looked up in the list of the
  last search; when that list lacks the chosen customer, no limit applies.
* `Impresora!PuertoEnMano` ("Cierra el puerto serie activo", `ThermalPrinterService.ts:229`):
  the effect of the header waits for `getPorts` while the user connects; it then opens the
  open port, the error makes `openPort` forget port and writer, and the port stays open until
  the page is reloaded.
* `Terminal!ComprobanteDeLaVenta` (`PostSaleModal.tsx:73`): the fetch of a cancelled loop
  still sets the document, over the one of the next sale.
* `AdminShell!SucursalPropia` (`useAuthStore.ts:171`): the list of branches outlives the
  logout, and the next user chooses from it until the new one arrives.
* `AdminShell!RasgosDelActual` ("checks if a plan feature flag is enabled for the current
  tenant", `useFeature.ts:53`): the features that the service worker kept for another tenant
  pass the tag, which says who asked and not whose the answer is (3 states).
* `CircuitBreaker!OneProbeInHalfOpen` ("one probe request allowed through",
  `circuit_breaker.go:16`): half-open admits every caller (2 callers).
* `Ventas!NegativoMarcado` ("If stock goes negative, the sale is flagged",
  `venta_service.go:531`): the flag is computed before the transaction, and a sale that
  commits in between makes it stale (an online and a synced sale of the last unit).
* `Ventas!OnlineNuncaNegativo` ("insufficient stock is rejected", `venta_service.go:96`):
  a cart with two lines of one product passes both checks line by line
  (`CarritosRepetidos`). `OnlineNoSobrevende`, proved, is the part that holds.
* `Ventas!PreflightDecide` ("auto-desarme should trigger", `tests/ventas_test.go:333`):
  the pre-flight accepts what a pack can cover, the `FOR UPDATE` check compares the
  unit's stock alone and refuses it (`CarritoDeficit`, one request).
* `Caja!DesvioGrandeObservado` ("observations required when desvio > 5%",
  `caja_service.go:145`): with nothing expected the percentage is left at zero.
* `Caja!ObservadoCierra` (`000004_fix_caja_overflow.up.sql:1`): `desvio_pct` stayed
  DECIMAL(5,2), and an arqueo with a deviation of 1000 % cannot be saved.
* `OfflineSync!ErrorGetsAnotherChance` (`sync.ts:247`): a row becomes `error` only at the
  number of tries at which the recovery deletes it; nothing is ever reset.
* `OfflineSync!OnlyLostReenqueued` (`sync.ts:246`): the recovery does not ask the server
  and re-enqueues every synced sale.
* `OfflineSync!NoSaleLost` ("MUST be recorded", `venta_service.go:530`): a sale refused
  `MAX_TRIES_BEFORE_ERROR` times is deleted from the queue.
* `Facturacion!UnaAutorizacion` (`000010_comprobante_unique_venta.up.sql:1`): a lost
  answer, or worker and cron on one row, obtain two authorisations for one sale (`MaxCAEs = 2`).
* `Facturacion!CAEPersiste` (`facturacion_worker.go:127`): a late whole-row save erases a
  CAE.
* `Facturacion!SoloPdfPath` ("Update pdf_path in DB", `handler/inventario.go:405`): the save
  writes the whole row as it was before the render. Over a worker's result it leaves a
  pending row without a turn, which nobody decides; over a retry, an old counter.
* `Facturacion!TicketSinAFIP` (`facturacion_worker.go:155`): the cron does not look at the
  tipo and sends the fallback row of a ticket to AFIP.

Where properties of section 4 stop by name (a ghost, or a condition), the code goes on:

* A restart between the worker's insert and its save leaves a pending row without a turn
  (`retry_cron.go:4`), and so does a refused write or the save of a PDF's path
  (`PendienteTieneTurno`).
* Without a tenant in the context the counter of calls is never saved and AFIP is called on
  every tick (`facturacion_worker.go:25`, `IntentosAcotados`).
* An adjustment of the stock with a branch selected puts the total of the answer in a list of
  that branch's stock (`GestionProductosPage.tsx:388`, `InventarioPage.tsx:251`).
* A purchase marked paid stays in the list of the pending ones (`ComprasPage.tsx:67`), and a
  deactivated user in the list of the active ones, until the next reload.
* The service worker answers with the body of another branch, another tenant or an earlier
  moment (`sw.ts:44`); the plan on the badge and the list of branches can be another tenant's.

## 8. Not modelled

* Tenant isolation in the back end: every module of it has one tenant, except that
  `Facturacion` models what a missing tenant does. `AdminShell` has two.
* Manual adjustment of the global stock, editing of vinculos, CRUD of products, categories,
  suppliers, purchases, promotions, lots, users, audit and reports in the back end:
  single-row writes and queries. `AjustarStock` is one atomic UPDATE; a purchase does not
  touch stock at this commit.
* Billing: the payment client is a placeholder, so no notification moves a subscription.
* Rate limiting: to the others a refused request is one more error answer.
* Of the thermal printer: text and bytes of a ticket, a device that is unplugged, a change
  of the baud rate, and `printAll`, which nothing calls at this commit.
* The service worker in front of the reads of `Terminal` and `Carrito` and of the page
  requests of `AuthSession`: there a read has the server's answer or none, never a body up to
  an hour old. Its precache and its other routes: static files.
* PDF, HTML, e-mail, charts, tables and printed tickets: output. The AI assistant's back
  end: an external model. The AFIP sidecar: external; its answers are inputs of
  `Facturacion`.
* Screens that are not reachable (`ComprobanteModal`, `SuperadminPage`) or only render what
  others keep (`SaleHistoryModal`).
* Left out inside modelled parts: e-mail and document fields of the payment form, the
  rounding of doubles in the purchase form, percentages of promotions (amounts instead); the
  list of movements of `InventarioPage`, which is not reloaded after an adjustment;
  registration as a way into `AdminShell` (it leads where a login does); a second submit of the form that opens the cash session while the first one restores; the
  connectivity check of the header.

## 9. Running

    tlc -workers 2 -config VentasStock.cfg MCVentas     # any run of PROJECT.json
    tlapm VentasProofs.tla                              # any *Proofs module
