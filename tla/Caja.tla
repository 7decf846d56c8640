-------------------------------- MODULE Caja --------------------------------
(***************************************************************************)
(* Cash-register sessions of one tenant (caja_service.go, caja_repo.go):   *)
(* opening, manual movements, the movements that sales and anulaciones     *)
(* write, and the arqueo that closes a session.                            *)
(*                                                                         *)
(* No handler here runs in a transaction that covers its checks: each      *)
(* repository call is an action, and requests interleave between them.     *)
(* Amounts are whole pesos; the five payment methods only ever appear      *)
(* summed, so a session keeps one sum.                                     *)
(***************************************************************************)
EXTENDS Integers, Sequences, FiniteSets

CONSTANTS
  Requests,        \* concurrent HTTP requests
  Puntos,          \* puntos de venta
  Iniciales,       \* MontoInicial of an opening
  Montos,          \* amounts of sales and manual movements
  Declaraciones,   \* totals a cashier may declare
  Tipos,           \* which handlers are called
  MaxSesiones,     \* bound: sessions ever opened
  MaxRequests      \* bound: requests received in a behaviour

TiposDeRequest == {"abrir", "ingreso_manual", "egreso_manual", "venta", "anulacion", "arqueo"}

ASSUME CajaAssumption ==
  /\ Iniciales \subseteq Nat /\ Montos \subseteq Nat \ {0} /\ Declaraciones \subseteq Nat
  /\ Tipos \subseteq TiposDeRequest
  /\ MaxSesiones \in Nat /\ MaxRequests \in Nat

VARIABLES
  sesiones,    \* table sesion_cajas; suma is the SUM over movimiento_cajas
  ventas,      \* the payments of the completed sales, per sale
  recibidas,
  pc,
  op,          \* the request
  leida        \* what the request read: the session's id, row and sum

vars == <<sesiones, ventas, recibidas, pc, op, leida>>

SinOp == [tipo |-> "ninguno"]
SinLeer == [ses |-> 0]

Abre(pdv, inicial) ==
  [pdv |-> pdv, estado |-> "abierta", inicial |-> inicial, suma |-> 0,
   esperado |-> 0, declarado |-> 0, clase |-> "ninguna", obs |-> FALSE]

Init ==
  /\ sesiones = << >>
  /\ ventas = << >>
  /\ recibidas = 0
  /\ pc = [r \in Requests |-> "libre"]
  /\ op = [r \in Requests |-> SinOp]
  /\ leida = [r \in Requests |-> SinLeer]

-----------------------------------------------------------------------------
Termina(r) ==
  /\ pc' = [pc EXCEPT ![r] = "libre"]
  /\ op' = [op EXCEPT ![r] = SinOp]
  /\ leida' = [leida EXCEPT ![r] = SinLeer]

\* The handler returns an error, or what it found.
Responder(r) == Termina(r) /\ UNCHANGED <<sesiones, ventas, recibidas>>

Sigue(r, donde) ==
  /\ pc' = [pc EXCEPT ![r] = donde]
  /\ UNCHANGED <<sesiones, ventas, recibidas, op>>

\* handler/caja.go and handler/ventas.go: the bodies that bind and validate.
Cuerpos ==
  [tipo : {"abrir"}, pdv : Puntos, monto : Iniciales]
  \cup [tipo : {"ingreso_manual", "egreso_manual", "venta"}, ses : DOMAIN sesiones, monto : Montos]
  \cup [tipo : {"anulacion"}, venta : DOMAIN ventas]
  \cup [tipo : {"arqueo"}, ses : DOMAIN sesiones, declarado : Declaraciones, obs : BOOLEAN]

Recibir(r) ==
  /\ pc[r] = "libre" /\ recibidas < MaxRequests
  /\ recibidas' = recibidas + 1
  /\ \E o \in Cuerpos : /\ o.tipo \in Tipos
                        /\ op' = [op EXCEPT ![r] = o]
  /\ pc' = [pc EXCEPT ![r] = "recibida"]
  /\ UNCHANGED <<sesiones, ventas, leida>>

-----------------------------------------------------------------------------
(* Abrir *)

AbiertaEn(pdv) == {i \in DOMAIN sesiones : sesiones[i].pdv = pdv /\ sesiones[i].estado = "abierta"}

\* FindSesionAbiertaPorPDV: an open session is returned as it is.
BuscarAbierta(r) ==
  /\ pc[r] = "recibida" /\ op[r].tipo = "abrir"
  /\ \/ AbiertaEn(op[r].pdv) # {} /\ Responder(r)
     \/ AbiertaEn(op[r].pdv) = {} /\ Sigue(r, "crear") /\ UNCHANGED leida

\* Mutant: sesion_cajas has no partial unique index.
CrearSesionSinIndice(r) ==
  /\ pc[r] = "crear" /\ Len(sesiones) < MaxSesiones
  /\ sesiones' = Append(sesiones, Abre(op[r].pdv, op[r].monto))
  /\ Termina(r)
  /\ UNCHANGED <<ventas, recibidas>>

\* CreateSesion under uq_caja_abierta_por_punto.
CrearSesion(r) ==
  /\ pc[r] = "crear"
  /\ \/ AbiertaEn(op[r].pdv) # {} /\ Responder(r)
     \/ /\ AbiertaEn(op[r].pdv) = {} /\ Len(sesiones) < MaxSesiones
        /\ sesiones' = Append(sesiones, Abre(op[r].pdv, op[r].monto))
        /\ Termina(r)
        /\ UNCHANGED <<ventas, recibidas>>

-----------------------------------------------------------------------------
(* Movements: manual ones, and those of sales and anulaciones *)

\* FindSesionAbierta, the guard of RegistrarMovimiento and of RegistrarVenta.
FindSesionAbierta(r) ==
  /\ pc[r] = "recibida" /\ op[r].tipo \in {"ingreso_manual", "egreso_manual", "venta"}
  /\ \/ sesiones[op[r].ses].estado # "abierta" /\ Responder(r)
     \/ sesiones[op[r].ses].estado = "abierta" /\ Sigue(r, "insertar") /\ UNCHANGED leida

\* The session's sum once a movement of this kind is in the table.
Suma(i, tipo, monto) ==
  [sesiones EXCEPT ![i].suma =
     @ + (IF tipo \in {"egreso_manual", "anulacion"} THEN -monto ELSE monto)]

\* CreateMovimiento, or CreateMovimientoTx when the sale's transaction commits.
CreateMovimiento(r) ==
  /\ pc[r] = "insertar"
  /\ sesiones' = Suma(op[r].ses, op[r].tipo, op[r].monto)
  /\ ventas' = IF op[r].tipo = "venta"
               THEN Append(ventas, [ses |-> op[r].ses, monto |-> op[r].monto, estado |-> "completada"])
               ELSE ventas
  /\ Termina(r)
  /\ UNCHANGED recibidas

\* AnularVenta reads the sale and its estado outside its transaction ...
BuscarVenta(r) ==
  /\ pc[r] = "recibida" /\ op[r].tipo = "anulacion"
  /\ \/ ventas[op[r].venta].estado = "anulada" /\ Responder(r)
     \/ ventas[op[r].venta].estado # "anulada" /\ Sigue(r, "anular") /\ UNCHANGED leida

\* ... and writes its inverse movements whatever the session's estado.
AnularVenta(r) ==
  /\ pc[r] = "anular"
  /\ LET v == ventas[op[r].venta]
     IN /\ ventas' = [ventas EXCEPT ![op[r].venta].estado = "anulada"]
        /\ sesiones' = Suma(v.ses, "anulacion", v.monto)
  /\ Termina(r)
  /\ UNCHANGED recibidas

-----------------------------------------------------------------------------
(* Arqueo *)

Abs(n) == IF n < 0 THEN -n ELSE n

\* 100 * desvio / esperado as a DECIMAL(_, 2), in hundredths: Round(2) rounds
\* half away from zero; with nothing expected the code leaves it at zero.
DesvioPct(desvio, esperado) ==
  IF esperado = 0 THEN 0
  ELSE LET a == (20000 * Abs(desvio) + Abs(esperado)) \div (2 * Abs(esperado))
       IN IF desvio * esperado < 0 THEN -a ELSE a

\* Mutant: the bound of "advertencia" is exclusive.
ClasificarDesvioEstricto(pct) ==
  IF Abs(pct) <= 100 THEN "normal" ELSE IF Abs(pct) < 500 THEN "advertencia" ELSE "critico"

ClasificarDesvio(pct) ==
  IF Abs(pct) <= 100 THEN "normal" ELSE IF Abs(pct) <= 500 THEN "advertencia" ELSE "critico"

\* sesion_cajas.desvio_pct is DECIMAL(5,2).
CabeEnColumna(pct) == Abs(pct) < 100000

\* FindSesionByID: the row is kept in memory until it is saved.
BuscarSesion(r) ==
  /\ pc[r] = "recibida" /\ op[r].tipo = "arqueo"
  /\ \/ sesiones[op[r].ses].estado # "abierta" /\ Responder(r)
     \/ /\ sesiones[op[r].ses].estado = "abierta"
        /\ leida' = [leida EXCEPT ![r] = [ses |-> op[r].ses, fila |-> sesiones[op[r].ses]]]
        /\ Sigue(r, "sumar")

\* SumMovimientosByMetodo
SumarMovimientos(r) ==
  /\ pc[r] = "sumar"
  /\ leida' = [leida EXCEPT ![r] =
                 [ses |-> @.ses, fila |-> @.fila, suma |-> sesiones[@.ses].suma]]
  /\ Sigue(r, "guardar")

\* The row an arqueo saves, from what it read.
Cerrada(fila, suma, o) ==
  LET esperado == fila.inicial + suma
      desvio == o.declarado - esperado
  IN [fila EXCEPT !.estado = "cerrada", !.esperado = esperado, !.declarado = o.declarado,
                  !.clase = ClasificarDesvio(DesvioPct(desvio, esperado)), !.obs = o.obs]

\* Mutant: an arqueo that is refused saves the row as it was read.
GuardarCierreRevierte(r) ==
  /\ pc[r] = "guardar"
  /\ LET l == leida[r]
         fila == Cerrada(l.fila, l.suma, op[r])
         final == IF fila.clase = "critico" /\ ~op[r].obs THEN l.fila ELSE fila
     IN sesiones' = [sesiones EXCEPT ![l.ses] = [final EXCEPT !.suma = sesiones[l.ses].suma]]
  /\ Termina(r)
  /\ UNCHANGED <<ventas, recibidas>>

\* The checks on the deviation and UpdateSesion, a Save of the whole row.
GuardarCierre(r) ==
  /\ pc[r] = "guardar"
  /\ LET l == leida[r]
         fila == Cerrada(l.fila, l.suma, op[r])
         pct == DesvioPct(fila.declarado - fila.esperado, fila.esperado)
         rechaza == (fila.clase = "critico" /\ ~op[r].obs) \/ ~CabeEnColumna(pct)
     IN \/ rechaza /\ Responder(r)
        \/ /\ ~rechaza
           /\ sesiones' = [sesiones EXCEPT ![l.ses] = [fila EXCEPT !.suma = sesiones[l.ses].suma]]
           /\ Termina(r)
           /\ UNCHANGED <<ventas, recibidas>>

-----------------------------------------------------------------------------
Paso(r) ==
  \/ Recibir(r)
  \/ BuscarAbierta(r) \/ CrearSesion(r)
  \/ FindSesionAbierta(r) \/ CreateMovimiento(r)
  \/ BuscarVenta(r) \/ AnularVenta(r)
  \/ BuscarSesion(r) \/ SumarMovimientos(r) \/ GuardarCierre(r)

Next == \E r \in Requests : Paso(r)

Spec == Init /\ [][Next]_vars

-----------------------------------------------------------------------------
(* Type invariant. *)
Sesion == [pdv : Puntos, estado : {"abierta", "cerrada"}, inicial : Nat, suma : Int,
           esperado : Int, declarado : Nat, obs : BOOLEAN,
           clase : {"ninguna", "normal", "advertencia", "critico"}]

TypeOK ==
  /\ \A i \in DOMAIN sesiones : sesiones[i] \in Sesion
  /\ \A i \in DOMAIN ventas : ventas[i].estado \in {"completada", "anulada"}
  /\ recibidas \in 0 .. MaxRequests
  /\ pc \in [Requests -> {"libre", "recibida", "crear", "insertar", "anular", "sumar", "guardar"}]

(* A punto de venta never has two open sessions, though Abrir looks for    *)
(* one and creates another in separate statements.                         *)
UnaAbiertaPorPunto == \A pdv \in Puntos : \A i, j \in AbiertaEn(pdv) : i = j

(* A closed session stays closed: no request that read the row while it    *)
(* was open (another arqueo, a sale) brings it back.                       *)
CerradaNoReabre ==
  [][\A i \in DOMAIN sesiones :
       sesiones[i].estado = "cerrada" => sesiones'[i].estado = "cerrada"]_vars

(* clasificarDesvio works on a rounded percentage; on the amounts it draws *)
(* the line of "critico" at 5.005 % of what was expected and that of       *)
(* "normal" at 1.005 %, never elsewhere.                                   *)
ClasificacionFiel ==
  \A i \in DOMAIN sesiones :
    LET s == sesiones[i]
        d == Abs(s.declarado - s.esperado)
        e == Abs(s.esperado)
    IN s.estado = "cerrada" /\ e # 0 =>
         /\ s.clase = "critico" <=> 20000 * d >= 1001 * e
         /\ s.clase = "normal" <=> 20000 * d < 201 * e

-----------------------------------------------------------------------------
(* Statements of the repository that the code does not keep. *)

(* model/sesion_caja.go:20: "MontoEsperado is computed on close:           *)
(* SUM(movimientos) + MontoInicial".                                       *)
EsperadoEsSuma ==
  \A i \in DOMAIN sesiones :
    sesiones[i].estado = "cerrada" => sesiones[i].esperado = sesiones[i].inicial + sesiones[i].suma

(* caja_service.go:145: "supervisor observations required when desvio > 5%" *)
DesvioGrandeObservado ==
  \A i \in DOMAIN sesiones :
    LET s == sesiones[i]
    IN s.estado = "cerrada" /\ 20 * Abs(s.declarado - s.esperado) > Abs(s.esperado) => s.obs

(* 000004_fix_caja_overflow.up.sql:1: the precision was raised "para evitar *)
(* errores SQLSTATE 22003 (numeric field overflow)": an arqueo that comes   *)
(* with observaciones closes the session.                                   *)
ObservadoCierra ==
  [][\A r \in Requests :
       pc[r] = "guardar" /\ op[r].obs /\ pc'[r] = "libre"
         => sesiones'[op[r].ses].estado = "cerrada"]_vars
=============================================================================
