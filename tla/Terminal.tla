------------------------------ MODULE Terminal ------------------------------
(***************************************************************************)
(* What the point of sale asks the server besides prices: its cash session *)
(* (useCajaStore, the effects of PosTerminal, AbrirCajaModal and           *)
(* CierreCajaPage) and the fiscal document of a sale (PostSaleModal).      *)
(*                                                                         *)
(* The server's session may be closed or opened by somebody else, and an   *)
(* answer may be lost.  A fetch is not aborted when the effect that made   *)
(* it is cancelled.  A sale is confirmed in module Cobro; here it has its  *)
(* session and whether it asked for an invoice.  What is printed or sent   *)
(* by e-mail, and the figures of the arqueo, are left out.                 *)
(***************************************************************************)
EXTENDS Naturals, FiniteSets

CONSTANTS
  MaxVentas,    \* bound: sales
  MaxSesiones,  \* bound: cash sessions
  MaxPolls      \* MAX_POLLS of PostSaleModal

ASSUME TerminalAssumption ==
  MaxVentas \in Nat /\ MaxSesiones \in Nat /\ MaxPolls \in Nat \ {0}

VARIABLES
  pos,          \* "fuera", "init" or "listo": mounted, and isInitializing
  sesion,       \* sesionId of useCajaStore, 0 for null
  tareaCaja,    \* the call of useCajaStore in flight, and who awaits it
  reloj,        \* the 100 ms timer of the effect on sesionId
  cajaModal,    \* cajaModalOpen
  servidor,     \* the open session of this till on the server, 0 for none
  ultima,       \* the last session the server opened
  ventas,       \* sales confirmed
  record,       \* lastSaleRecord: number of the sale, fiscal or not, its session
  sondeo,       \* the polling loop of PostSaleModal
  viejas,       \* fetches of loops that were cancelled, by sale
  aMano,        \* handleRefreshComprobante in flight, by sale
  comprobante,  \* the document shown: sale and estado
  cargando      \* loadingComprobante

caja == <<pos, sesion, tareaCaja, reloj, cajaModal, servidor, ultima>>
postventa == <<record, sondeo, viejas, aMano, comprobante, cargando>>
vars == <<caja, ventas, postventa>>

SinRecord == [venta |-> 0, fiscal |-> FALSE, sesion |-> 0]
Quieto == [pc |-> "no", n |-> 0]
SinTarea == [pc |-> "no", quien |-> "nadie"]
SinDocumento == [venta |-> 0, estado |-> "nada"]

\* localStorage may keep a session from before, open or closed by now.
Init ==
  /\ pos = "fuera"
  /\ ultima \in {0, 1} /\ servidor \in {0, ultima} /\ sesion \in {0, ultima}
  /\ tareaCaja = SinTarea /\ reloj = FALSE /\ cajaModal = FALSE
  /\ ventas = 0 /\ record = SinRecord
  /\ sondeo = Quieto /\ viejas = {} /\ aMano = {}
  /\ comprobante = SinDocumento /\ cargando = FALSE

-----------------------------------------------------------------------------
(* The cash session of the terminal *)

\* restaurar: the stored session is verified, otherwise the active one asked
\* for; offline it returns at once.
Restaurar(quien) ==
  [pc |-> IF sesion # 0 THEN "verifica" ELSE "activa", quien |-> quien]

\* Mutant: the effect on sesionId runs when it changes, not at the end of the
\* initialisation.
RestauradoSinReloj(quien, s) ==
  /\ tareaCaja' = SinTarea
  /\ pos' = IF quien = "monta" THEN "listo" ELSE pos
  /\ cajaModal' = (cajaModal /\ ~ (quien = "modal" /\ s # 0))
  /\ sesion' = s
  /\ reloj' = (reloj \/ s # sesion)

\* What follows it: the screen leaves isInitializing whatever the outcome, or
\* the modal goes if there is a session now.
Restaurado(quien, s) ==
  /\ tareaCaja' = SinTarea
  /\ pos' = IF quien = "monta" THEN "listo" ELSE pos
  /\ cajaModal' = (cajaModal /\ ~ (quien = "modal" /\ s # 0))
  /\ sesion' = s
  /\ reloj' = (reloj \/ quien = "monta" \/ s # sesion)

\* The effects of PosTerminal when it is mounted.
Montar ==
  /\ pos = "fuera"
  /\ pos' = "init"
  /\ tareaCaja' \in {Restaurar("monta"), [pc |-> "nada", quien |-> "monta"]}
  /\ UNCHANGED <<sesion, reloj, cajaModal, servidor, ultima, ventas, postventa>>

\* restaurar goes on: an answer of the server, an error, or no network.
RestaurarResponde ==
  LET q == tareaCaja.quien
  IN /\ \/ /\ tareaCaja.pc \in {"nada", "verifica", "activa"}
           /\ Restaurado(q, sesion)
        \/ /\ tareaCaja.pc = "verifica" /\ servidor # sesion
           /\ tareaCaja' = [tareaCaja EXCEPT !.pc = "activa"]
           /\ UNCHANGED <<pos, cajaModal, sesion, reloj>>
        \/ tareaCaja.pc = "activa" /\ Restaurado(q, servidor)
     /\ UNCHANGED <<servidor, ultima, ventas, postventa>>

\* The timer: AbrirCajaModal shows exactly when there is no session.
RevisarCaja ==
  /\ reloj /\ pos = "listo"
  /\ reloj' = FALSE
  /\ cajaModal' = (sesion = 0)
  /\ UNCHANGED <<pos, sesion, tareaCaja, servidor, ultima, ventas, postventa>>

\* handleSubmit of AbrirCajaModal.  Its button waits for abrir, but not for the
\* restaurar that follows a refusal: what that one still finds is left aside.
Abrir ==
  /\ pos = "listo" /\ cajaModal /\ tareaCaja.pc # "abre"
  /\ tareaCaja' = [pc |-> "abre", quien |-> "modal"]
  /\ UNCHANGED <<pos, sesion, reloj, cajaModal, servidor, ultima, ventas, postventa>>

\* The server opens a session, whose answer may be lost, or says that one is
\* open: then restaurar.  Any other error leaves the modal as it is.
AbrirResponde ==
  /\ tareaCaja.pc = "abre"
  /\ \/ /\ servidor = 0 /\ ultima < MaxSesiones
        /\ ultima' = ultima + 1 /\ servidor' = ultima + 1
        /\ Restaurado("modal", ultima + 1) \/ Restaurado("nadie", sesion)
     \/ /\ servidor # 0
        /\ tareaCaja' = Restaurar("modal")
        /\ UNCHANGED <<pos, cajaModal, sesion, reloj, servidor, ultima>>
     \/ /\ Restaurado("nadie", sesion)
        /\ UNCHANGED <<servidor, ultima>>
  /\ UNCHANGED <<ventas, postventa>>

\* CierreCajaPage: the arqueo closes the session on the server; the answer may
\* be lost, and then the terminal keeps its session.
Cerrar ==
  /\ pos = "fuera" /\ sesion # 0 /\ tareaCaja = SinTarea
  /\ servidor' = IF servidor = sesion THEN 0 ELSE servidor
  /\ sesion' \in (IF servidor = sesion THEN {0, sesion} ELSE {sesion})
  /\ UNCHANGED <<pos, tareaCaja, reloj, cajaModal, ultima, ventas, postventa>>

\* Somebody else closes the session of this till, or opens one.
OtroCierra ==
  /\ servidor # 0
  /\ servidor' = 0
  /\ UNCHANGED <<pos, sesion, tareaCaja, reloj, cajaModal, ultima, ventas, postventa>>
OtroAbre ==
  /\ servidor = 0 /\ ultima < MaxSesiones
  /\ servidor' = ultima + 1 /\ ultima' = ultima + 1
  /\ UNCHANGED <<pos, sesion, tareaCaja, reloj, cajaModal, ventas, postventa>>

\* The header leads away; AbrirCajaModal and PostSaleModal cover it.  Logging out
\* forgets the session as well (limpiar).
Salir ==
  /\ pos = "listo" /\ ~ cajaModal /\ record = SinRecord /\ tareaCaja = SinTarea
  /\ pos' = "fuera"
  /\ reloj' = FALSE
  /\ sesion' \in {sesion, 0}
  /\ viejas' = {} /\ aMano' = {} /\ comprobante' = SinDocumento /\ cargando' = FALSE
  /\ UNCHANGED <<tareaCaja, cajaModal, servidor, ultima, ventas, record, sondeo>>

\* The page is loaded again; localStorage keeps the session.
Recargar ==
  /\ pos # "fuera"
  /\ pos' = "fuera"
  /\ tareaCaja' = SinTarea /\ reloj' = FALSE /\ cajaModal' = FALSE
  /\ record' = SinRecord
  /\ sondeo' = Quieto /\ viejas' = {} /\ aMano' = {}
  /\ comprobante' = SinDocumento /\ cargando' = FALSE
  /\ UNCHANGED <<sesion, servidor, ultima, ventas>>

-----------------------------------------------------------------------------
(* PostSaleModal *)

\* The effect cancels the loop of the sale before; a fetch of it that is in
\* flight is not aborted.
Cancelado == IF sondeo.pc = "consulta" THEN viejas \cup {record.venta} ELSE viejas

\* confirmSale takes the session there is, none included, and the modal opens:
\* its effect starts a loop for an invoice, and otherwise clears the document.
\* The keys of the payment work over AbrirCajaModal and over this modal.
ConfirmSale(fiscal) ==
  /\ pos = "listo" /\ ventas < MaxVentas
  /\ ventas' = ventas + 1
  /\ record' = [venta |-> ventas + 1, fiscal |-> fiscal, sesion |-> sesion]
  /\ viejas' = Cancelado
  /\ sondeo' = IF fiscal THEN [pc |-> "arranca", n |-> 0] ELSE Quieto
  /\ comprobante' = IF fiscal THEN comprobante ELSE SinDocumento
  /\ cargando' = (cargando /\ fiscal)
  /\ UNCHANGED <<caja, aMano>>

Documento(v, e) == [venta |-> v, estado |-> e]

PollArranca ==
  /\ sondeo.pc = "arranca"
  /\ sondeo' = [pc |-> "consulta", n |-> 1]
  /\ cargando' = TRUE
  /\ UNCHANGED <<caja, ventas, record, viejas, aMano, comprobante>>

\* getComprobante answers the loop: final, pending, or not there yet.
PollResponde ==
  /\ sondeo.pc = "consulta"
  /\ \/ /\ comprobante' = Documento(record.venta, "final")
        /\ sondeo' = Quieto
        /\ cargando' = FALSE
     \/ /\ comprobante' = Documento(record.venta, "pendiente")
        /\ sondeo' = [sondeo EXCEPT !.pc = "pausa"]
        /\ UNCHANGED cargando
     \/ /\ sondeo' = [sondeo EXCEPT !.pc = "pausa"]
        /\ UNCHANGED <<comprobante, cargando>>
  /\ UNCHANGED <<caja, ventas, record, viejas, aMano>>

\* Mutant: a document that is pending is asked for without end.
PollSigueSinFin ==
  /\ sondeo.pc = "pausa"
  /\ sondeo' = [sondeo EXCEPT !.pc = "consulta"]
  /\ UNCHANGED cargando
  /\ UNCHANGED <<caja, ventas, record, viejas, aMano, comprobante>>

PollSigue ==
  /\ sondeo.pc = "pausa"
  /\ IF sondeo.n < MaxPolls
       THEN sondeo' = [pc |-> "consulta", n |-> sondeo.n + 1] /\ UNCHANGED cargando
       ELSE sondeo' = Quieto /\ cargando' = FALSE
  /\ UNCHANGED <<caja, ventas, record, viejas, aMano, comprobante>>

CierraPostVenta ==
  /\ pos = "listo" /\ record # SinRecord
  /\ record' = SinRecord
  /\ viejas' = Cancelado
  /\ sondeo' = Quieto
  /\ comprobante' = SinDocumento
  /\ cargando' = FALSE
  /\ UNCHANGED <<caja, ventas, aMano>>

\* fetchComprobante sets the document of whichever sale it was called for.
ViejaResponde(v) ==
  /\ v \in viejas
  /\ viejas' = viejas \ {v}
  /\ comprobante' \in {comprobante, Documento(v, "pendiente"), Documento(v, "final")}
  /\ UNCHANGED <<caja, ventas, record, sondeo, aMano, cargando>>

\* handleRefreshComprobante.
Refresca ==
  /\ pos = "listo" /\ record.fiscal /\ ~ cargando /\ comprobante.estado # "final"
  /\ aMano' = aMano \cup {record.venta}
  /\ cargando' = TRUE
  /\ UNCHANGED <<caja, ventas, record, sondeo, viejas, comprobante>>
RefrescaResponde(v) ==
  /\ v \in aMano
  /\ aMano' = aMano \ {v}
  /\ comprobante' \in {comprobante, Documento(v, "pendiente"), Documento(v, "final")}
  /\ cargando' = FALSE
  /\ UNCHANGED <<caja, ventas, record, sondeo, viejas>>

-----------------------------------------------------------------------------
(* The whole *)

Next ==
  \/ Montar \/ RestaurarResponde \/ RevisarCaja \/ Abrir \/ AbrirResponde \/ Cerrar
  \/ OtroCierra \/ OtroAbre \/ Salir \/ Recargar
  \/ \E fiscal \in BOOLEAN : ConfirmSale(fiscal)
  \/ PollArranca \/ PollResponde \/ PollSigue \/ CierraPostVenta \/ Refresca
  \/ \E v \in 1 .. MaxVentas : ViejaResponde(v) \/ RefrescaResponde(v)

\* Requests end, with an answer or an error, and timers fire.
Fairness ==
  /\ WF_vars(RestaurarResponde) /\ WF_vars(RevisarCaja) /\ WF_vars(AbrirResponde)
  /\ WF_vars(PollArranca) /\ WF_vars(PollResponde) /\ WF_vars(PollSigue)
  /\ \A v \in 1 .. MaxVentas : WF_vars(RefrescaResponde(v))

Spec == Init /\ [][Next]_vars /\ Fairness

-----------------------------------------------------------------------------
(* Properties *)

\* Type invariant; a loop runs only for the invoice on the screen.
TypeOK ==
  /\ pos \in {"fuera", "init", "listo"}
  /\ sesion \in 0 .. ultima /\ servidor \in {0, ultima} /\ ultima \in 0 .. MaxSesiones
  /\ tareaCaja.pc \in {"no", "nada", "verifica", "activa", "abre"}
  /\ sondeo.pc \in {"no", "arranca", "consulta", "pausa"} /\ sondeo.n \in 0 .. MaxPolls
  /\ sondeo.pc # "no" => record.fiscal
  /\ comprobante.venta \in 0 .. ventas
  /\ viejas \cup aMano \subseteq 1 .. ventas

\* Temporal property: restaurar ends the initialisation, with a session, without
\* one, with an error and without network.
PosArranca == pos = "init" ~> pos # "init"

\* Temporal property: a terminal without a session ends up asking for one, also
\* after a session that was closed from another place.
CajaSePide == (pos = "listo" /\ sesion = 0) ~> (cajaModal \/ sesion # 0 \/ pos # "listo")

\* Temporal property: AbrirCajaModal, which cannot be dismissed, does not stay over
\* a terminal that has a session, found by restaurar or opened meanwhile.
CajaNoEstorba == (cajaModal /\ sesion # 0) ~> ~ (cajaModal /\ sesion # 0)

\* The cash session is settled on its own: the terminal starts, asks for a session
\* exactly while it has none, and gives the screen back.
CajaResuelta == PosArranca /\ CajaSePide /\ CajaNoEstorba

\* PostSaleModal stops loading, also when the fiscal document stays pending or
\* never appears, and its loop runs only while its invoice is on the screen.
SondeoTermina == []TypeOK /\ (cargando ~> ~ cargando)

\* PostSaleModal shows the document of its own sale (PostSaleModal.tsx: "Load
\* comprobante if this is a fiscal invoice").
ComprobanteDeLaVenta ==
  record # SinRecord /\ comprobante # SinDocumento => comprobante.venta = record.venta
=============================================================================
