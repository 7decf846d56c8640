-------------------------- MODULE ServiciosProofs --------------------------
(***************************************************************************)
(* Cash sessions, credit accounts and transfers between branches, for any  *)
(* number of concurrent requests, points of sale, amounts, limits, articles*)
(* and branches: one open session per point of sale, closed for good and   *)
(* classed by its amounts; the account of a customer in order              *)
(* (CuentaCuadra); transfers that neither create nor lose units            *)
(* (TrasladosCuadran) and are decided once (UnaDecision), whatever copies  *)
(* the requests act on.                                                    *)
(***************************************************************************)
EXTENDS Servicios, SumTheorems

-----------------------------------------------------------------------------
(* Caja: the invariant *)

(* Where a request may be. *)
PasosDeCaja == {"libre", "recibida", "crear", "insertar", "anular", "sumar", "guardar"}

TiposDeMovimiento == {"ingreso_manual", "egreso_manual", "venta"}

VentaDeCaja == [ses : Nat, monto : Nat, estado : {"completada", "anulada"}]

(* What the body and the reads of request r are at each of its steps. *)
RequestTipada(r) ==
  /\ op[r].tipo = "abrir" => op[r].pdv \in Puntos /\ op[r].monto \in Nat
  /\ op[r].tipo \in TiposDeMovimiento => op[r].ses \in DOMAIN sesiones /\ op[r].monto \in Nat
  /\ op[r].tipo = "anulacion" => op[r].venta \in DOMAIN ventas
  /\ op[r].tipo = "arqueo" => /\ op[r].ses \in DOMAIN sesiones
                             /\ op[r].declarado \in Nat /\ op[r].obs \in BOOLEAN
  /\ pc[r] = "crear" => op[r].tipo = "abrir"
  /\ pc[r] = "insertar" => op[r].tipo \in TiposDeMovimiento
  /\ pc[r] = "anular" => op[r].tipo = "anulacion"
  /\ pc[r] \in {"sumar", "guardar"} => /\ op[r].tipo = "arqueo"
                                       /\ leida[r].ses = op[r].ses /\ leida[r].fila \in Sesion
  /\ pc[r] = "guardar" => leida[r].suma \in Int

(* A closed session carries the class of its own amounts. *)
ClaseDeSusMontos ==
  \A i \in DOMAIN sesiones :
    sesiones[i].estado = "cerrada" =>
      sesiones[i].clase =
        ClasificarDesvio(DesvioPct(sesiones[i].declarado - sesiones[i].esperado, sesiones[i].esperado))

SesionesBien == sesiones \in Seq(Sesion) /\ UnaAbiertaPorPunto /\ ClaseDeSusMontos

VentasBien == ventas \in Seq(VentaDeCaja) /\ \A i \in DOMAIN ventas : ventas[i].ses \in DOMAIN sesiones

RequestsBien ==
  /\ pc \in [Requests -> PasosDeCaja]
  /\ DOMAIN op = Requests /\ DOMAIN leida = Requests
  /\ \A r \in Requests : RequestTipada(r)

(* The inductive invariant: the index uq_caja_abierta_por_punto is enough   *)
(* for one open session per point of sale only because every other write    *)
(* of a session keeps it closed or leaves its estado alone, which needs the *)
(* rows that requests carry to be typed.                                    *)
CajaInv == SesionesBien /\ VentasBien /\ RequestsBien /\ recibidas \in 0 .. MaxRequests

-----------------------------------------------------------------------------
(* Amounts *)

LEMMA PctEntero ==
  ASSUME NEW d \in Int, NEW e \in Int
  PROVE  DesvioPct(d, e) \in Int
<1>1. CASE e = 0
  BY <1>1 DEF DesvioPct
<1>2. CASE e # 0
  <2>1. Abs(d) \in Nat /\ Abs(e) \in Nat /\ 2 * Abs(e) > 0 /\ 2 * Abs(e) \in Int
    BY <1>2 DEF Abs
  <2>2. (20000 * Abs(d) + Abs(e)) \div (2 * Abs(e)) \in Int
    BY <2>1
  <2> QED
    BY <1>2, <2>2 DEF DesvioPct
<1> QED
  BY <1>1, <1>2

(* Integer division against a bound. *)
LEMMA DivisionCota ==
  ASSUME NEW m \in Nat, NEW n \in Nat \ {0}, NEW c \in Nat
  PROVE  m \div n >= c <=> m >= c * n
<1> DEFINE q == m \div n
           s == m % n
<1>1. q \in Int /\ s \in 0 .. n - 1 /\ m = n * q + s
  OBVIOUS
<1> HIDE DEF q, s
<1>2. ASSUME q >= c PROVE m >= c * n
  <2>1. n * (q - c) >= 0
    BY <1>1, <1>2
  <2>2. n * q - n * c >= 0
    BY <2>1, <1>1
  <2> QED
    BY <2>2, <1>1
<1>3. ASSUME q < c PROVE m < c * n
  <2>1. n * (c - q - 1) >= 0
    BY <1>1, <1>3
  <2>2. n * c - n * q - n >= 0
    BY <2>1, <1>1
  <2> QED
    BY <2>2, <1>1
<1>4. q >= c \/ q < c
  BY <1>1
<1>5. c * n \in Int /\ m \in Int
  OBVIOUS
<1> QED
  BY <1>1, <1>2, <1>3, <1>4, <1>5 DEF q

(* Where clasificarDesvio draws its lines on the amounts themselves. *)
LEMMA LineasDeClasificacion ==
  ASSUME NEW d \in Int, NEW e \in Int, e # 0
  PROVE  LET c == ClasificarDesvio(DesvioPct(d, e))
         IN /\ c = "critico" <=> 20000 * Abs(d) >= 1001 * Abs(e)
            /\ c = "normal" <=> 20000 * Abs(d) < 201 * Abs(e)
<1> DEFINE m == 20000 * Abs(d) + Abs(e)
           n == 2 * Abs(e)
           a == m \div n
<1>1. Abs(d) \in Nat /\ Abs(e) \in Nat \ {0}
  BY DEF Abs
<1>2. m \in Nat /\ n \in Nat \ {0}
  BY <1>1
<1>3. a >= 501 <=> m >= 501 * n
  BY <1>2, DivisionCota
<1>4. a >= 101 <=> m >= 101 * n
  BY <1>2, DivisionCota
<1>5. a >= 0 /\ a \in Int
  BY <1>2, DivisionCota
<1>6. Abs(DesvioPct(d, e)) = a
  BY <1>5 DEF DesvioPct, Abs
<1>7. /\ m >= 501 * n <=> 20000 * Abs(d) >= 1001 * Abs(e)
      /\ m >= 101 * n <=> 20000 * Abs(d) >= 201 * Abs(e)
  BY <1>1
<1> HIDE DEF PasosDeCaja, a
<1> QED
  BY <1>1, <1>3, <1>4, <1>5, <1>6, <1>7 DEF ClasificarDesvio

LEMMA ClaseTipada == ASSUME NEW pct PROVE ClasificarDesvio(pct) \in {"normal", "advertencia", "critico"}
  BY DEF ClasificarDesvio

-----------------------------------------------------------------------------
(* The three ways in which a step writes sesion_cajas *)

(* No closed session reopens. *)
SigueCerrada ==
  \A i \in DOMAIN sesiones : sesiones[i].estado = "cerrada" => sesiones'[i].estado = "cerrada"

Crece == DOMAIN sesiones \subseteq DOMAIN sesiones' /\ DOMAIN ventas \subseteq DOMAIN ventas'

(* A Save of one row. *)
LEMMA FilaGuardada ==
  ASSUME sesiones \in Seq(Sesion), NEW i \in DOMAIN sesiones, NEW f \in Sesion,
         sesiones' = [sesiones EXCEPT ![i] = f]
  PROVE  /\ sesiones' \in Seq(Sesion)
         /\ DOMAIN sesiones' = DOMAIN sesiones
         /\ \A j \in DOMAIN sesiones : sesiones'[j] = IF j = i THEN f ELSE sesiones[j]
  OBVIOUS

(* CreateSesion, when the index finds no open session. *)
LEMMA SesionNueva ==
  ASSUME SesionesBien, NEW pdv \in Puntos, NEW inicial \in Nat, AbiertaEn(pdv) = {},
         sesiones' = Append(sesiones, Abre(pdv, inicial))
  PROVE  SesionesBien' /\ SigueCerrada /\ DOMAIN sesiones \subseteq DOMAIN sesiones'
<1> DEFINE n == Len(sesiones)
<1>1. Abre(pdv, inicial) \in Sesion
  BY DEF Abre, Sesion
<1>2. /\ sesiones' \in Seq(Sesion)
      /\ DOMAIN sesiones = 1 .. n /\ DOMAIN sesiones' = 1 .. n + 1
      /\ n \in Nat
      /\ \A i \in 1 .. n : sesiones'[i] = sesiones[i]
      /\ sesiones'[n + 1] = Abre(pdv, inicial)
  BY <1>1 DEF SesionesBien
<1>3. UnaAbiertaPorPunto'
  <2> SUFFICES ASSUME NEW p \in Puntos, NEW i \in AbiertaEn(p)', NEW j \in AbiertaEn(p)'
               PROVE  i = j
    BY DEF UnaAbiertaPorPunto
  <2>1. \A k \in AbiertaEn(p)' : k \in AbiertaEn(p) \/ (k = n + 1 /\ p = pdv)
    BY <1>2 DEF AbiertaEn, Abre
  <2>2. i \in AbiertaEn(p) /\ j \in AbiertaEn(p) => i = j
    BY DEF SesionesBien, UnaAbiertaPorPunto
  <2> QED
    BY <2>1, <2>2
<1>4. ClaseDeSusMontos'
  BY <1>2 DEF SesionesBien, ClaseDeSusMontos, Abre
<1>5. SigueCerrada
  BY <1>2 DEF SigueCerrada
<1> QED
  BY <1>2, <1>3, <1>4, <1>5 DEF SesionesBien

(* A movement of either sign, whatever the estado of its session. *)
LEMMA MovimientoNuevo ==
  ASSUME SesionesBien, NEW i \in DOMAIN sesiones, NEW tipo, NEW monto \in Nat,
         sesiones' = Suma(i, tipo, monto)
  PROVE  SesionesBien' /\ SigueCerrada /\ DOMAIN sesiones' = DOMAIN sesiones
<1> DEFINE x == sesiones[i].suma + (IF tipo \in {"egreso_manual", "anulacion"} THEN -monto ELSE monto)
           f == [sesiones[i] EXCEPT !.suma = x]
<1>1. sesiones[i] \in Sesion
  BY DEF SesionesBien
<1>2. f \in Sesion /\ f.pdv = sesiones[i].pdv /\ f.estado = sesiones[i].estado
      /\ f.clase = sesiones[i].clase /\ f.declarado = sesiones[i].declarado
      /\ f.esperado = sesiones[i].esperado
  BY <1>1 DEF Sesion
<1>3. sesiones' = [sesiones EXCEPT ![i] = f]
  BY DEF Suma
<1> HIDE DEF f
<1>4. /\ sesiones' \in Seq(Sesion) /\ DOMAIN sesiones' = DOMAIN sesiones
      /\ \A j \in DOMAIN sesiones : sesiones'[j] = IF j = i THEN f ELSE sesiones[j]
  BY <1>2, <1>3, FilaGuardada DEF SesionesBien
<1>5. UnaAbiertaPorPunto'
  <2>1. \A p \in Puntos : AbiertaEn(p)' = AbiertaEn(p)
    BY <1>2, <1>4 DEF AbiertaEn
  <2> QED
    BY <2>1 DEF SesionesBien, UnaAbiertaPorPunto
<1>6. ClaseDeSusMontos'
  BY <1>2, <1>4 DEF SesionesBien, ClaseDeSusMontos
<1>7. SigueCerrada
  BY <1>2, <1>4 DEF SigueCerrada
<1> QED
  BY <1>4, <1>5, <1>6, <1>7 DEF SesionesBien

(* UpdateSesion of an arqueo, from the row and the sum it has read. *)
LEMMA CierreGuardado ==
  ASSUME SesionesBien, NEW i \in DOMAIN sesiones, NEW fila \in Sesion, NEW suma \in Int,
         NEW o, o.declarado \in Nat, o.obs \in BOOLEAN,
         sesiones' = [sesiones EXCEPT ![i] = [Cerrada(fila, suma, o) EXCEPT !.suma = sesiones[i].suma]]
  PROVE  SesionesBien' /\ SigueCerrada /\ DOMAIN sesiones' = DOMAIN sesiones
<1> DEFINE esperado == fila.inicial + suma
           desvio == o.declarado - esperado
           clase == ClasificarDesvio(DesvioPct(desvio, esperado))
           f == [Cerrada(fila, suma, o) EXCEPT !.suma = sesiones[i].suma]
<1>1. sesiones[i].suma \in Int
  <2>1. sesiones[i] \in Sesion
    BY DEF SesionesBien
  <2> QED
    BY <2>1 DEF Sesion
<1>2. clase \in {"normal", "advertencia", "critico"}
  BY ClaseTipada
<1>3. esperado \in Int
  BY DEF Sesion
<1> HIDE DEF clase
<1>4. /\ f \in Sesion /\ f.estado = "cerrada" /\ f.declarado = o.declarado
      /\ f.esperado = esperado /\ f.clase = clase
  BY <1>1, <1>2, <1>3 DEF Sesion, Cerrada, clase
<1> HIDE DEF f
<1>5. /\ sesiones' \in Seq(Sesion) /\ DOMAIN sesiones' = DOMAIN sesiones
      /\ \A j \in DOMAIN sesiones : sesiones'[j] = IF j = i THEN f ELSE sesiones[j]
  BY <1>4, FilaGuardada DEF SesionesBien, f
<1>6. UnaAbiertaPorPunto'
  <2>1. \A p \in Puntos : AbiertaEn(p)' \subseteq AbiertaEn(p)
    BY <1>4, <1>5 DEF AbiertaEn
  <2> QED
    BY <2>1 DEF SesionesBien, UnaAbiertaPorPunto
<1>7. ClaseDeSusMontos'
  BY <1>4, <1>5 DEF SesionesBien, ClaseDeSusMontos, clase
<1>8. SigueCerrada
  BY <1>4, <1>5 DEF SigueCerrada
<1> QED
  BY <1>5, <1>6, <1>7, <1>8 DEF SesionesBien

-----------------------------------------------------------------------------
(* Requests *)

(* A request that a step is not about keeps its facts. *)
LEMMA OtraRequest ==
  ASSUME RequestsBien, Crece, NEW q \in Requests,
         pc'[q] = pc[q], op'[q] = op[q], leida'[q] = leida[q]
  PROVE  RequestTipada(q)'
  BY DEF PasosDeCaja, RequestsBien, RequestTipada, Crece

(* A request that is answered. *)
LEMMA RequestTerminada ==
  ASSUME RequestsBien, Crece, NEW r \in Requests, Termina(r)
  PROVE  RequestsBien'
<1>1. /\ pc' \in [Requests -> PasosDeCaja]
      /\ DOMAIN op' = Requests /\ DOMAIN leida' = Requests
  BY DEF PasosDeCaja, Termina, RequestsBien
<1>2. RequestTipada(r)'
  BY DEF Termina, RequestsBien, RequestTipada, SinOp, TiposDeMovimiento
<1>3. ASSUME NEW q \in Requests, q # r PROVE RequestTipada(q)'
  BY <1>3, OtraRequest DEF Termina, RequestsBien
<1> QED
  BY <1>1, <1>2, <1>3 DEF RequestsBien

(* A request that goes on, once its own facts are known. *)
LEMMA RequestSigue ==
  ASSUME RequestsBien, Crece, NEW r \in Requests, RequestTipada(r)',
         pc' \in [Requests -> PasosDeCaja],
         DOMAIN op' = Requests, DOMAIN leida' = Requests,
         \A q \in Requests \ {r} : pc'[q] = pc[q] /\ op'[q] = op[q] /\ leida'[q] = leida[q]
  PROVE  RequestsBien'
  BY OtraRequest DEF RequestsBien

(* An answer that writes nothing. *)
LEMMA RespuestaConserva ==
  ASSUME CajaInv, NEW r \in Requests, Responder(r)
  PROVE  CajaInv' /\ SigueCerrada
<1>1. Crece /\ SigueCerrada
  BY DEF Responder, Crece, SigueCerrada
<1>2. RequestsBien'
  BY <1>1, RequestTerminada DEF Responder, CajaInv
<1>3. SesionesBien' /\ VentasBien'
  BY DEF Responder, CajaInv, SesionesBien, VentasBien, UnaAbiertaPorPunto, AbiertaEn, ClaseDeSusMontos
<1> QED
  BY <1>1, <1>2, <1>3 DEF CajaInv, Responder

(* A step of r that moves it on and leaves the tables alone. *)
LEMMA AvanceConserva ==
  ASSUME CajaInv, NEW r \in Requests, RequestTipada(r)', UNCHANGED <<sesiones, ventas>>,
         recibidas' \in 0 .. MaxRequests,
         pc' \in [Requests -> PasosDeCaja],
         DOMAIN op' = Requests, DOMAIN leida' = Requests,
         \A q \in Requests \ {r} : pc'[q] = pc[q] /\ op'[q] = op[q] /\ leida'[q] = leida[q]
  PROVE  CajaInv' /\ SigueCerrada
<1>1. Crece /\ SigueCerrada
  BY DEF Crece, SigueCerrada
<1>2. RequestsBien'
  BY <1>1, RequestSigue DEF CajaInv
<1>3. SesionesBien' /\ VentasBien'
  BY DEF CajaInv, SesionesBien, VentasBien, UnaAbiertaPorPunto, AbiertaEn, ClaseDeSusMontos
<1> QED
  BY <1>1, <1>2, <1>3 DEF CajaInv

-----------------------------------------------------------------------------
(* One lemma per handler *)

LEMMA RecibirConserva ==
  ASSUME CajaInv, NEW r \in Requests, Recibir(r)
  PROVE  CajaInv' /\ SigueCerrada
<1>1. PICK o \in Cuerpos : op' = [op EXCEPT ![r] = o]
  BY DEF Recibir
<1>2. /\ op'[r] = o /\ pc'[r] = "recibida"
      /\ pc' \in [Requests -> PasosDeCaja]
      /\ DOMAIN op' = Requests /\ DOMAIN leida' = Requests
      /\ \A q \in Requests \ {r} : pc'[q] = pc[q] /\ op'[q] = op[q] /\ leida'[q] = leida[q]
  BY <1>1 DEF PasosDeCaja, Recibir, CajaInv, RequestsBien
<1>3. recibidas' \in 0 .. MaxRequests /\ UNCHANGED <<sesiones, ventas>>
  BY CajaAssumption DEF Recibir, CajaInv
<1>4. CASE o \in [tipo : {"abrir"}, pdv : Puntos, monto : Iniciales]
  <2>1. RequestTipada(r)'
    BY <1>2, <1>4, CajaAssumption DEF RequestTipada, TiposDeMovimiento
  <2> QED
    BY <1>2, <1>3, <2>1, AvanceConserva
<1>5. CASE o \in [tipo : {"ingreso_manual", "egreso_manual", "venta"}, ses : DOMAIN sesiones, monto : Montos]
  <2>1. RequestTipada(r)'
    BY <1>2, <1>3, <1>5, CajaAssumption DEF PasosDeCaja, RequestTipada, TiposDeMovimiento
  <2> QED
    BY <1>2, <1>3, <2>1, AvanceConserva
<1>6. CASE o \in [tipo : {"anulacion"}, venta : DOMAIN ventas]
  <2>1. RequestTipada(r)'
    BY <1>2, <1>3, <1>6 DEF RequestTipada, TiposDeMovimiento
  <2> QED
    BY <1>2, <1>3, <2>1, AvanceConserva
<1>7. CASE o \in [tipo : {"arqueo"}, ses : DOMAIN sesiones, declarado : Declaraciones, obs : BOOLEAN]
  <2>1. RequestTipada(r)'
    BY <1>2, <1>3, <1>7, CajaAssumption DEF RequestTipada, TiposDeMovimiento
  <2> QED
    BY <1>2, <1>3, <2>1, AvanceConserva
<1> QED
  BY <1>4, <1>5, <1>6, <1>7 DEF PasosDeCaja, Cuerpos

(* A check that lets r pass to the step where, with what it has read. *)
LEMMA ChequeoPasa ==
  ASSUME CajaInv, NEW r \in Requests, NEW donde \in {"crear", "insertar", "anular"},
         Sigue(r, donde), UNCHANGED leida,
         donde = "crear" => op[r].tipo = "abrir",
         donde = "insertar" => op[r].tipo \in TiposDeMovimiento,
         donde = "anular" => op[r].tipo = "anulacion"
  PROVE  CajaInv' /\ SigueCerrada
<1>1. RequestTipada(r)'
  BY DEF Sigue, CajaInv, RequestsBien, RequestTipada
<1>2. /\ pc' \in [Requests -> PasosDeCaja]
      /\ DOMAIN op' = Requests /\ DOMAIN leida' = Requests
      /\ \A q \in Requests \ {r} : pc'[q] = pc[q] /\ op'[q] = op[q] /\ leida'[q] = leida[q]
  BY DEF PasosDeCaja, Sigue, CajaInv, RequestsBien
<1> QED
  BY <1>1, <1>2, AvanceConserva DEF Sigue, CajaInv

LEMMA AbrirConserva ==
  ASSUME CajaInv, NEW r \in Requests, BuscarAbierta(r) \/ CrearSesion(r)
  PROVE  CajaInv' /\ SigueCerrada
<1>1. CASE BuscarAbierta(r)
  BY <1>1, RespuestaConserva, ChequeoPasa DEF BuscarAbierta
<1>2. CASE CrearSesion(r) /\ AbiertaEn(op[r].pdv) # {}
  BY <1>2, RespuestaConserva DEF CrearSesion
<1>3. CASE CrearSesion(r) /\ AbiertaEn(op[r].pdv) = {}
  <2>1. op[r].pdv \in Puntos /\ op[r].monto \in Nat
    BY <1>3 DEF CrearSesion, CajaInv, RequestsBien, RequestTipada
  <2>2. /\ sesiones' = Append(sesiones, Abre(op[r].pdv, op[r].monto))
        /\ Termina(r) /\ UNCHANGED <<ventas, recibidas>>
    BY <1>3 DEF CrearSesion
  <2>3. SesionesBien' /\ SigueCerrada /\ DOMAIN sesiones \subseteq DOMAIN sesiones'
    BY <1>3, <2>1, <2>2, SesionNueva DEF CajaInv
  <2>4. Crece
    BY <2>2, <2>3 DEF Crece
  <2>5. VentasBien'
    BY <2>2, <2>3 DEF CajaInv, VentasBien
  <2> QED
    BY <2>2, <2>3, <2>4, <2>5, RequestTerminada DEF CajaInv
<1> QED
  BY <1>1, <1>2, <1>3

LEMMA MovimientoConserva ==
  ASSUME CajaInv, NEW r \in Requests, FindSesionAbierta(r) \/ CreateMovimiento(r)
  PROVE  CajaInv' /\ SigueCerrada
<1>1. CASE FindSesionAbierta(r)
  BY <1>1, RespuestaConserva, ChequeoPasa DEF FindSesionAbierta, TiposDeMovimiento
<1>2. CASE CreateMovimiento(r)
  <2>1. op[r].ses \in DOMAIN sesiones /\ op[r].monto \in Nat
    BY <1>2 DEF CreateMovimiento, CajaInv, RequestsBien, RequestTipada
  <2>2. SesionesBien' /\ SigueCerrada /\ DOMAIN sesiones' = DOMAIN sesiones
    BY <1>2, <2>1, MovimientoNuevo DEF CreateMovimiento, CajaInv
  <2>3. VentasBien' /\ DOMAIN ventas \subseteq DOMAIN ventas'
    <3>1. CASE ventas' = ventas
      BY <2>2, <3>1 DEF CajaInv, VentasBien
    <3>2. CASE ventas' = Append(ventas, [ses |-> op[r].ses, monto |-> op[r].monto, estado |-> "completada"])
      <4> DEFINE v == [ses |-> op[r].ses, monto |-> op[r].monto, estado |-> "completada"]
      <4>1. op[r].ses \in Nat
        BY <2>1 DEF CajaInv, SesionesBien
      <4>2. v \in VentaDeCaja /\ v.ses = op[r].ses
        BY <2>1, <4>1 DEF VentaDeCaja
      <4> HIDE DEF v
      <4>3. ventas \in Seq(VentaDeCaja) /\ ventas' = Append(ventas, v)
        BY <3>2 DEF CajaInv, VentasBien, v
      <4>4. /\ ventas' \in Seq(VentaDeCaja)
            /\ DOMAIN ventas = 1 .. Len(ventas) /\ DOMAIN ventas' = 1 .. Len(ventas) + 1
            /\ \A i \in DOMAIN ventas : ventas'[i] = ventas[i]
            /\ ventas'[Len(ventas) + 1] = v
        BY <4>2, <4>3
      <4>5. \A i \in DOMAIN ventas' : i \in DOMAIN ventas \/ i = Len(ventas) + 1
        BY <4>3, <4>4
      <4>6. DOMAIN ventas \subseteq DOMAIN ventas'
        BY <4>3, <4>4
      <4> QED
        BY <2>1, <2>2, <4>2, <4>4, <4>5, <4>6 DEF CajaInv, VentasBien
    <3> QED
      BY <1>2, <3>1, <3>2 DEF CreateMovimiento
  <2>4. Crece
    BY <2>2, <2>3 DEF Crece
  <2> QED
    BY <1>2, <2>2, <2>3, <2>4, RequestTerminada DEF CajaInv, CreateMovimiento
<1> QED
  BY <1>1, <1>2

LEMMA AnulacionConserva ==
  ASSUME CajaInv, NEW r \in Requests, BuscarVenta(r) \/ AnularVenta(r)
  PROVE  CajaInv' /\ SigueCerrada
<1>1. CASE BuscarVenta(r)
  BY <1>1, RespuestaConserva, ChequeoPasa DEF BuscarVenta
<1>2. CASE AnularVenta(r)
  <2> DEFINE n == op[r].venta
             v == [ventas[n] EXCEPT !.estado = "anulada"]
  <2>1. n \in DOMAIN ventas
    BY <1>2 DEF AnularVenta, CajaInv, RequestsBien, RequestTipada
  <2>2. ventas[n] \in VentaDeCaja /\ ventas[n].ses \in DOMAIN sesiones
    BY <2>1 DEF CajaInv, VentasBien
  <2>3. ventas[n].monto \in Nat /\ v \in VentaDeCaja /\ v.ses = ventas[n].ses
    BY <2>2 DEF VentaDeCaja
  <2>4. SesionesBien' /\ SigueCerrada /\ DOMAIN sesiones' = DOMAIN sesiones
    BY <1>2, <2>2, <2>3, MovimientoNuevo DEF AnularVenta, CajaInv
  <2> HIDE DEF v
  <2>5. ventas' = [ventas EXCEPT ![n] = v]
    BY <1>2 DEF AnularVenta, v
  <2>6. VentasBien' /\ DOMAIN ventas' = DOMAIN ventas
    BY <2>1, <2>2, <2>3, <2>4, <2>5 DEF CajaInv, VentasBien
  <2>7. Crece
    BY <2>4, <2>6 DEF Crece
  <2> QED
    BY <1>2, <2>4, <2>6, <2>7, RequestTerminada DEF CajaInv, AnularVenta
<1> QED
  BY <1>1, <1>2

LEMMA ArqueoConserva ==
  ASSUME CajaInv, NEW r \in Requests, BuscarSesion(r) \/ SumarMovimientos(r) \/ GuardarCierre(r)
  PROVE  CajaInv' /\ SigueCerrada
<1> DEFINE Otras == /\ pc' \in [Requests -> PasosDeCaja]
                    /\ DOMAIN op' = Requests /\ DOMAIN leida' = Requests
                    /\ \A q \in Requests \ {r} : pc'[q] = pc[q] /\ op'[q] = op[q] /\ leida'[q] = leida[q]
<1>1. CASE BuscarSesion(r) /\ sesiones[op[r].ses].estado # "abierta"
  BY <1>1, RespuestaConserva DEF BuscarSesion
<1>2. CASE BuscarSesion(r) /\ sesiones[op[r].ses].estado = "abierta"
  <2>1. op[r].tipo = "arqueo" /\ op[r].ses \in DOMAIN sesiones
    BY <1>2 DEF BuscarSesion, CajaInv, RequestsBien, RequestTipada
  <2>2. sesiones[op[r].ses] \in Sesion
    BY <2>1 DEF CajaInv, SesionesBien
  <2>3. leida'[r] = [ses |-> op[r].ses, fila |-> sesiones[op[r].ses]] /\ pc'[r] = "sumar" /\ Otras
        /\ UNCHANGED <<sesiones, ventas, recibidas, op>>
    BY <1>2 DEF PasosDeCaja, BuscarSesion, Sigue, CajaInv, RequestsBien
  <2>4. RequestTipada(r)'
    BY <2>1, <2>2, <2>3 DEF CajaInv, RequestsBien, RequestTipada
  <2> QED
    BY <2>3, <2>4, AvanceConserva DEF CajaInv
<1>3. CASE SumarMovimientos(r)
  <2>1. /\ op[r].tipo = "arqueo" /\ op[r].ses \in DOMAIN sesiones
        /\ leida[r].ses = op[r].ses /\ leida[r].fila \in Sesion
    BY <1>3 DEF SumarMovimientos, CajaInv, RequestsBien, RequestTipada
  <2>2. sesiones[op[r].ses] \in Sesion
    BY <2>1 DEF CajaInv, SesionesBien
  <2>3. sesiones[op[r].ses].suma \in Int
    BY <2>2 DEF Sesion
  <2>4. leida'[r] = [ses |-> leida[r].ses, fila |-> leida[r].fila, suma |-> sesiones[leida[r].ses].suma]
        /\ pc'[r] = "guardar" /\ Otras /\ UNCHANGED <<sesiones, ventas, recibidas, op>>
    BY <1>3 DEF PasosDeCaja, SumarMovimientos, Sigue, CajaInv, RequestsBien
  <2>5. RequestTipada(r)'
    BY <2>1, <2>3, <2>4 DEF CajaInv, RequestsBien, RequestTipada
  <2> QED
    BY <2>4, <2>5, AvanceConserva DEF CajaInv
<1>4. CASE GuardarCierre(r)
  <2> DEFINE l == leida[r]
  <2>1. /\ l.ses \in DOMAIN sesiones /\ l.fila \in Sesion /\ l.suma \in Int
        /\ op[r].declarado \in Nat /\ op[r].obs \in BOOLEAN
    BY <1>4 DEF GuardarCierre, CajaInv, RequestsBien, RequestTipada
  <2>2. CASE Responder(r)
    BY <2>2, RespuestaConserva
  <2>3. CASE /\ sesiones' = [sesiones EXCEPT ![l.ses] = [Cerrada(l.fila, l.suma, op[r]) EXCEPT !.suma = sesiones[l.ses].suma]]
             /\ Termina(r) /\ UNCHANGED <<ventas, recibidas>>
    <3>1. SesionesBien' /\ SigueCerrada /\ DOMAIN sesiones' = DOMAIN sesiones
      BY <2>1, <2>3, CierreGuardado DEF CajaInv
    <3>2. Crece
      BY <2>3, <3>1 DEF Crece
    <3>3. VentasBien'
      BY <2>3, <3>1 DEF CajaInv, VentasBien
    <3> QED
      BY <2>3, <3>1, <3>2, <3>3, RequestTerminada DEF CajaInv
  <2> QED
    BY <1>4, <2>2, <2>3 DEF GuardarCierre
<1> QED
  BY <1>1, <1>2, <1>3, <1>4

-----------------------------------------------------------------------------
LEMMA CajaInicio == Init => CajaInv
<1> SUFFICES ASSUME Init PROVE CajaInv
  OBVIOUS
<1>1. SesionesBien /\ VentasBien
  BY DEF Init, SesionesBien, VentasBien, UnaAbiertaPorPunto, AbiertaEn, ClaseDeSusMontos
<1>2. RequestsBien
  BY DEF PasosDeCaja, Init, RequestsBien, RequestTipada, SinOp, TiposDeMovimiento
<1> QED
  BY <1>1, <1>2, CajaAssumption DEF Init, CajaInv

LEMMA CajaPaso == CajaInv /\ [Next]_vars => CajaInv' /\ [SigueCerrada]_vars
<1> SUFFICES ASSUME CajaInv, [Next]_vars PROVE CajaInv' /\ [SigueCerrada]_vars
  OBVIOUS
<1>1. ASSUME NEW r \in Requests, Paso(r) PROVE CajaInv' /\ SigueCerrada
  BY <1>1, RecibirConserva, AbrirConserva, MovimientoConserva, AnulacionConserva, ArqueoConserva
  DEF Paso
<1>2. CASE UNCHANGED vars
  BY <1>2 DEF vars, CajaInv, SesionesBien, VentasBien, RequestsBien, UnaAbiertaPorPunto, AbiertaEn,
              ClaseDeSusMontos, RequestTipada
<1> QED
  BY <1>1, <1>2 DEF Next

LEMMA CajaInvariante == ServiciosSpec => []CajaInv /\ [][Next]_vars
<1>1. ServiciosInit => CajaInv
  BY CajaInicio DEF ServiciosInit
<1>2. [ServiciosNext]_serviciosVars => [Next]_vars
  BY DEF ServiciosNext, serviciosVars
<1> QED
  BY <1>1, <1>2, CajaPaso, PTL DEF ServiciosSpec

(* The rows of the tables and the steps of the requests keep their types,   *)
(* for every number of requests and sessions.                               *)
THEOREM CajaTipada == ServiciosSpec => []TypeOK
<1>1. CajaInv => TypeOK
  <2> SUFFICES ASSUME CajaInv PROVE TypeOK
    OBVIOUS
  <2>1. \A i \in DOMAIN sesiones : sesiones[i] \in Sesion
    BY DEF CajaInv, SesionesBien
  <2>2. \A i \in DOMAIN ventas : ventas[i].estado \in {"completada", "anulada"}
    <3>1. \A i \in DOMAIN ventas : ventas[i] \in VentaDeCaja
      BY DEF CajaInv, VentasBien
    <3> QED
      BY <3>1 DEF VentaDeCaja
  <2> QED
    BY <2>1, <2>2 DEF PasosDeCaja, CajaInv, TypeOK, RequestsBien
<1> QED
  BY <1>1, CajaInvariante, PTL

(* Abrir never leaves two open sessions at one point of sale, whatever      *)
(* openings, arqueos and movements run at once.                             *)
THEOREM UnaSolaAbierta == ServiciosSpec => []UnaAbiertaPorPunto
<1>1. CajaInv => UnaAbiertaPorPunto
  BY DEF CajaInv, SesionesBien
<1> QED
  BY <1>1, CajaInvariante, PTL

(* The classification of every closed session follows its own amounts, at   *)
(* the rounded bounds of clasificarDesvio.                                  *)
THEOREM ClasificacionCorrecta == ServiciosSpec => []ClasificacionFiel
<1>1. CajaInv => ClasificacionFiel
  <2> SUFFICES ASSUME CajaInv, NEW i \in DOMAIN sesiones, sesiones[i].estado = "cerrada",
                      Abs(sesiones[i].esperado) # 0
               PROVE  LET d == Abs(sesiones[i].declarado - sesiones[i].esperado)
                          e == Abs(sesiones[i].esperado)
                      IN /\ sesiones[i].clase = "critico" <=> 20000 * d >= 1001 * e
                         /\ sesiones[i].clase = "normal" <=> 20000 * d < 201 * e
    BY DEF ClasificacionFiel
  <2>1. sesiones[i] \in Sesion
    BY DEF CajaInv, SesionesBien
  <2>2. sesiones[i].declarado \in Int /\ sesiones[i].esperado \in Int
    BY <2>1 DEF Sesion
  <2>3. sesiones[i].declarado - sesiones[i].esperado \in Int /\ sesiones[i].esperado # 0
    BY <2>2 DEF Abs
  <2>4. sesiones[i].clase =
          ClasificarDesvio(DesvioPct(sesiones[i].declarado - sesiones[i].esperado, sesiones[i].esperado))
    BY DEF CajaInv, SesionesBien, ClaseDeSusMontos
  <2> QED
    BY <2>2, <2>3, <2>4, LineasDeClasificacion
<1> QED
  BY <1>1, CajaInvariante, PTL

(* No request that read a session while it was open brings it back after    *)
(* its arqueo.                                                              *)
THEOREM CerradaEsFinal == ServiciosSpec => CerradaNoReabre
<1>1. CajaInv /\ [Next]_vars => [\A i \in DOMAIN sesiones :
        sesiones[i].estado = "cerrada" => sesiones'[i].estado = "cerrada"]_vars
  BY CajaPaso DEF SigueCerrada
<1> QED
  BY <1>1, CajaInvariante, PTL DEF CerradaNoReabre

-----------------------------------------------------------------------------
(* Fiado: the invariant *)

Filas == [saldo : Int, limite : Nat]
Movimientos == [tipo : {"cargo", "pago"}, monto : Nat, saldo : Int]
Tareas == [tipo : {"", "cargo", "pago", "edicion"}, monto : Nat,
           paso : {"libre", "leer", "guardar"}, fila : Filas]

FiadoTipos ==
  /\ cliente \in Filas /\ movimientos \in Seq(Movimientos)
  /\ tarea \in [Operadores -> Tareas]
  /\ limites \subseteq Nat
  /\ pisada \in BOOLEAN /\ editada \in BOOLEAN

(* A balance that SaldoEnRango admits. *)
Admisible(s) ==
  /\ s >= 0
  /\ 0 \notin limites => \E l \in limites : s <= l

(* The row is within the limits it has had, and so is every copy that a    *)
(* request is about to write from, after the check it passed.              *)
CopiaBuena(t) ==
  /\ t.paso # "libre" => t.tipo # ""
  /\ t.paso = "guardar" =>
       ~Excede(t, t.fila) /\ t.fila.limite \in limites /\ Admisible(t.fila.saldo)

CopiasBuenas ==
  /\ cliente.limite \in limites /\ Admisible(cliente.saldo)
  /\ \A o \in Operadores : CopiaBuena(tarea[o])

FiadoInv == FiadoTipos /\ CopiasBuenas /\ SaldoCuadra /\ SaldoDelExtracto

-----------------------------------------------------------------------------
(* Fiado: the sum and the copies *)

LEMMA ImporteFirmado == ASSUME NEW m \in Movimientos PROVE Firmado(m) \in Int
  BY DEF Movimientos, Firmado

\* A movement more adds its signed amount to the debt.
LEMMA DeudaCrece ==
  ASSUME NEW s \in Seq(Movimientos), NEW m \in Movimientos
  PROVE  SumFunction([i \in DOMAIN Append(s, m) |-> Firmado(Append(s, m)[i])])
           = SumFunction([i \in DOMAIN s |-> Firmado(s[i])]) + Firmado(m)
<1>1. PICK n \in Nat : n = Len(s) /\ DOMAIN s = 1 .. n
  BY LenProperties
<1>2. \A i \in 1 .. n : Firmado(s[i]) \in Int
  BY <1>1, ElementOfSeq, ImporteFirmado
<1>3. PICK f \in [1 .. n -> Int] : f = [i \in DOMAIN s |-> Firmado(s[i])]
  BY <1>1, <1>2
<1>4. f \in Seq(Int) /\ Len(f) = n
  BY <1>3
<1>5. PICK v \in Int : v = Firmado(m)
  BY ImporteFirmado
<1>6. [i \in DOMAIN Append(s, m) |-> Firmado(Append(s, m)[i])] = Append(f, v)
  <2>1. DOMAIN Append(s, m) = 1 .. n + 1 /\ DOMAIN Append(f, v) = 1 .. n + 1
    BY <1>1, <1>4
  <2>2. \A i \in 1 .. n + 1 : Append(s, m)[i] = (IF i = n + 1 THEN m ELSE s[i])
                             /\ Append(f, v)[i] = IF i = n + 1 THEN v ELSE f[i]
    BY <1>1, <1>4
  <2>3. \A i \in 1 .. n + 1 : Firmado(Append(s, m)[i]) = Append(f, v)[i]
    BY <1>1, <1>3, <1>5, <2>2
  <2>4. Append(f, v) \in Seq(Int)
    BY <1>4, AppendProperties
  <2>5. PICK g \in [1 .. n + 1 -> Int] : g = Append(f, v)
    BY <2>1, <2>4, LenProperties
  <2> QED
    BY <2>1, <2>3, <2>5
<1>7. SumFunction(Append(f, v)) = SumFunction(f) + v
  BY <1>4, SumAppend
<1> QED
  BY <1>3, <1>5, <1>6, <1>7, Zenon

LEMMA TareaOciosa == SinTarea \in Tareas /\ CopiaBuena(SinTarea)'
<1>1. SinTarea \in Tareas
  BY DEF SinTarea, Tareas, Filas
<1>2. SinTarea.paso = "libre"
  BY DEF SinTarea
<1> QED
  BY <1>1, <1>2 DEF CopiaBuena

\* The limits that the customer has had only grow, so a good copy stays good.
LEMMA TareaCambia ==
  ASSUME FiadoTipos, CopiasBuenas, NEW o \in Operadores, NEW t \in Tareas,
         tarea' = [tarea EXCEPT ![o] = t], CopiaBuena(t)',
         limites \subseteq limites'
  PROVE  /\ tarea' \in [Operadores -> Tareas]
         /\ \A p \in Operadores : CopiaBuena(tarea[p])'
<1>1. tarea' \in [Operadores -> Tareas]
  BY DEF FiadoTipos
<1>2. ASSUME NEW p \in Operadores PROVE CopiaBuena(tarea[p])'
  <2>1. CASE p = o
    BY <2>1 DEF FiadoTipos, CopiaBuena, Admisible, Excede
  <2>2. CASE p # o
    <3>1. tarea'[p] = tarea[p] /\ CopiaBuena(tarea[p])
      BY <2>2 DEF FiadoTipos, CopiasBuenas
    <3> QED
      BY <3>1 DEF CopiaBuena, Admisible, Excede
  <2> QED
    BY <2>1, <2>2
<1> QED
  BY <1>1, <1>2

-----------------------------------------------------------------------------
(* Fiado: the steps *)

\* Steps that write neither the row nor the movements.
LEMMA SinEscribir ==
  ASSUME FiadoInv, NEW o \in Operadores, NEW t \in Tareas,
         tarea' = [tarea EXCEPT ![o] = t], CopiaBuena(t)',
         UNCHANGED <<cliente, movimientos, limites, pisada, editada>>
  PROVE  FiadoInv'
<1>1. /\ tarea' \in [Operadores -> Tareas]
      /\ \A p \in Operadores : CopiaBuena(tarea[p])'
  BY TareaCambia DEF FiadoInv
<1>2. FiadoTipos' /\ CopiasBuenas'
  BY <1>1 DEF FiadoInv, FiadoTipos, CopiasBuenas, Admisible
<1> QED
  BY <1>2 DEF FiadoInv, SaldoCuadra, SaldoDelExtracto, Deuda

LEMMA PedirConserva ==
  ASSUME FiadoInv, NEW o \in Operadores, NEW tipo \in {"cargo", "pago", "edicion"}, NEW m \in Nat,
         Pedir(o, tipo, m)
  PROVE  FiadoInv'
<1>1. tarea[o] \in Tareas
  BY DEF FiadoInv, FiadoTipos
<1>2. PICK t : t = [tarea[o] EXCEPT !.tipo = tipo, !.monto = m, !.paso = "leer"]
  OBVIOUS
<1>3. t \in Tareas /\ t.paso = "leer" /\ t.tipo # ""
  BY <1>1, <1>2 DEF Tareas
<1>4. tarea' = [tarea EXCEPT ![o] = t]
  BY <1>2 DEF Pedir, FiadoInv, FiadoTipos
<1>5. CopiaBuena(t)'
  BY <1>3 DEF CopiaBuena
<1> QED
  BY <1>3, <1>4, <1>5, SinEscribir DEF Pedir

LEMMA AcabaConserva ==
  ASSUME FiadoInv, NEW o \in Operadores, Acaba(o),
         UNCHANGED <<cliente, movimientos, limites, pisada, editada>>
  PROVE  FiadoInv'
  BY TareaOciosa, SinEscribir DEF Acaba

LEMMA LeerConserva ==
  ASSUME FiadoInv, NEW o \in Operadores, FindByID(o)
  PROVE  FiadoInv'
<1>1. CASE Excede(tarea[o], cliente)
  BY <1>1, AcabaConserva DEF FindByID
<1>2. CASE ~Excede(tarea[o], cliente)
  <2>1. tarea[o] \in Tareas /\ cliente \in Filas
    BY DEF FiadoInv, FiadoTipos
  <2>2. PICK t : t = [tarea[o] EXCEPT !.paso = "guardar", !.fila = cliente]
    OBVIOUS
  <2>3. /\ t \in Tareas /\ t.paso = "guardar" /\ t.fila = cliente
        /\ t.tipo = tarea[o].tipo /\ t.monto = tarea[o].monto
    BY <2>1, <2>2 DEF Tareas
  <2>4. tarea' = [tarea EXCEPT ![o] = t]
    BY <1>2, <2>2 DEF FindByID, FiadoInv, FiadoTipos
  <2>5. t.tipo # ""
    BY <2>3 DEF FindByID, FiadoInv, CopiasBuenas, CopiaBuena
  <2>6. CopiaBuena(t)'
    BY <1>2, <2>3, <2>5 DEF FindByID, CopiaBuena, Excede, FiadoInv, CopiasBuenas, Admisible
  <2> QED
    BY <2>3, <2>4, <2>6, SinEscribir DEF FindByID
<1> QED
  BY <1>1, <1>2

\* The new balance is within the limits, because the copy it is computed from
\* was and the check that let it pass was made on that copy.
LEMMA SaldoNuevo ==
  ASSUME FiadoTipos, NEW t \in Tareas, CopiaBuena(t), t.paso = "guardar", t.tipo # "edicion"
  PROVE  /\ t.tipo \in {"cargo", "pago"}
         /\ NuevoSaldo(t) \in Int /\ Admisible(NuevoSaldo(t))
         /\ \A m \in Movimientos : m.tipo = t.tipo /\ m.monto = t.monto
              => NuevoSaldo(t) = t.fila.saldo + Firmado(m)
<1>1. /\ t.tipo \in {"", "cargo", "pago", "edicion"} /\ t.tipo # ""
      /\ t.monto \in Nat /\ t.fila \in Filas /\ t.fila.saldo \in Int /\ t.fila.limite \in Nat
  BY DEF Tareas, Filas, CopiaBuena
<1>2. limites \subseteq Nat
  BY DEF FiadoTipos
<1>3. ~Excede(t, t.fila) /\ t.fila.limite \in limites /\ Admisible(t.fila.saldo)
  BY DEF CopiaBuena
<1>4. PICK x \in Int, y \in Nat, k \in Nat : x = t.fila.saldo /\ y = t.monto /\ k = t.fila.limite
  BY <1>1
<1>5. x >= 0 /\ k \in limites /\ (0 \notin limites => \E l \in limites : x <= l)
  BY <1>3, <1>4 DEF Admisible
<1>6. CASE t.tipo = "cargo"
  <2>1. NuevoSaldo(t) = x + y /\ \A m \in Movimientos : m.tipo = t.tipo /\ m.monto = t.monto => Firmado(m) = y
    BY <1>4, <1>6 DEF NuevoSaldo, Firmado
  <2>2. ~(k > 0 /\ x + y > k)
    BY <1>3, <1>4, <1>6 DEF Excede
  <2>3. x + y \in Int /\ x + y >= 0 /\ (k # 0 => x + y <= k)
    BY <1>5, <2>2
  <2>4. 0 \notin limites => \E l \in limites : x + y <= l
    BY <1>5, <2>3
  <2> QED
    BY <1>4, <1>6, <2>1, <2>3, <2>4 DEF Admisible
<1>7. CASE t.tipo = "pago"
  <2>1. NuevoSaldo(t) = x - y /\ \A m \in Movimientos : m.tipo = t.tipo /\ m.monto = t.monto => Firmado(m) = -y
    BY <1>4, <1>7 DEF NuevoSaldo, Firmado
  <2>2. ~(y > x)
    BY <1>3, <1>4, <1>7 DEF Excede
  <2>3. x - y \in Int /\ x - y >= 0 /\ x - y = x + (-y)
    BY <2>2
  <2>4. ASSUME 0 \notin limites PROVE \E l \in limites : x - y <= l
    <3>1. PICK l \in limites : x <= l
      BY <1>5, <2>4
    <3>2. l \in Nat
      BY <1>2
    <3>3. x - y <= l
      BY <3>1, <3>2
    <3> QED
      BY <3>3
  <2> QED
    BY <1>4, <1>7, <2>1, <2>3, <2>4 DEF Admisible
<1> QED
  BY <1>1, <1>6, <1>7

LEMMA UpdateSaldoConserva ==
  ASSUME FiadoInv, NEW o \in Operadores, UpdateSaldoTx(o)
  PROVE  FiadoInv'
<1>1. PICK t \in Tareas : t = tarea[o]
  BY DEF FiadoInv, FiadoTipos
<1>2. CopiaBuena(t) /\ t.paso = "guardar" /\ t.tipo # "edicion"
  BY <1>1 DEF FiadoInv, CopiasBuenas, UpdateSaldoTx
<1>3. PICK n \in Int : n = NuevoSaldo(t)
  BY <1>2, SaldoNuevo DEF FiadoInv
<1>4. PICK m : m = [tipo |-> t.tipo, monto |-> t.monto, saldo |-> n]
  OBVIOUS
<1>5. m \in Movimientos /\ m.tipo = t.tipo /\ m.monto = t.monto /\ m.saldo = n
  BY <1>2, <1>4, SaldoNuevo DEF FiadoInv, Movimientos, Tareas
<1>6. Admisible(n) /\ n = t.fila.saldo + Firmado(m)
  BY <1>2, <1>3, <1>5, SaldoNuevo DEF FiadoInv
<1>7. /\ cliente' = [cliente EXCEPT !.saldo = n] /\ movimientos' = Append(movimientos, m)
      /\ pisada' = (pisada \/ t.fila.saldo # cliente.saldo) /\ tarea' = [tarea EXCEPT ![o] = SinTarea]
      /\ limites' = limites /\ editada' = editada
  BY <1>1, <1>3, <1>4 DEF UpdateSaldoTx, Acaba
<1>8. cliente' \in Filas /\ cliente'.saldo = n /\ cliente'.limite = cliente.limite
  BY <1>7 DEF FiadoInv, FiadoTipos, Filas
<1>9. movimientos' \in Seq(Movimientos) /\ movimientos' # <<>> /\ Last(movimientos') = m
  BY <1>5, <1>7, AppendProperties DEF FiadoInv, FiadoTipos, Last
<1>10. /\ tarea' \in [Operadores -> Tareas]
       /\ \A p \in Operadores : CopiaBuena(tarea[p])'
  BY <1>7, TareaOciosa, TareaCambia DEF FiadoInv
<1>11. FiadoTipos'
  BY <1>7, <1>8, <1>9, <1>10 DEF FiadoInv, FiadoTipos
<1>12. CopiasBuenas'
  BY <1>6, <1>7, <1>8, <1>10 DEF FiadoInv, CopiasBuenas, Admisible
<1>13. Deuda' = Deuda + Firmado(m)
  BY <1>5, <1>7, DeudaCrece DEF Deuda, FiadoInv, FiadoTipos
<1>14. SaldoCuadra'
  <2>1. SUFFICES ASSUME ~pisada' PROVE cliente'.saldo = Deuda'
    BY DEF SaldoCuadra
  <2>2. cliente.saldo = Deuda /\ t.fila.saldo = cliente.saldo
    BY <1>7, <2>1 DEF FiadoInv, SaldoCuadra
  <2> QED
    BY <1>6, <1>8, <1>13, <2>2
<1>15. SaldoDelExtracto'
  BY <1>5, <1>8, <1>9 DEF SaldoDelExtracto
<1> QED
  BY <1>11, <1>12, <1>14, <1>15 DEF FiadoInv

LEMMA ActualizarConserva ==
  ASSUME FiadoInv, NEW o \in Operadores, Actualizar(o)
  PROVE  FiadoInv'
<1>1. PICK t \in Tareas : t = tarea[o]
  BY DEF FiadoInv, FiadoTipos
<1>2. /\ cliente' = [t.fila EXCEPT !.limite = t.monto] /\ limites' = limites \cup {t.monto}
      /\ pisada' = (pisada \/ t.fila.saldo # cliente.saldo)
      /\ editada' = (editada \/ t.fila.saldo # cliente.saldo)
      /\ tarea' = [tarea EXCEPT ![o] = SinTarea] /\ movimientos' = movimientos
  BY <1>1 DEF Actualizar, Acaba
<1>3. t.fila.saldo \in Int /\ t.monto \in Nat /\ t.fila \in Filas
  BY DEF Tareas, Filas
<1>4. cliente' \in Filas /\ cliente'.saldo = t.fila.saldo /\ cliente'.limite = t.monto
  BY <1>2, <1>3 DEF Filas
<1>5. /\ tarea' \in [Operadores -> Tareas]
      /\ \A p \in Operadores : CopiaBuena(tarea[p])'
  BY <1>2, TareaOciosa, TareaCambia DEF FiadoInv
<1>6. FiadoTipos'
  <2>1. limites' \subseteq Nat /\ pisada' \in BOOLEAN /\ editada' \in BOOLEAN
    BY <1>2, <1>3 DEF FiadoInv, FiadoTipos
  <2> QED
    BY <1>2, <1>4, <1>5, <2>1 DEF FiadoInv, FiadoTipos
<1>7. CopiasBuenas'
  <2>1. Admisible(t.fila.saldo)
    BY <1>1 DEF FiadoInv, CopiasBuenas, CopiaBuena, Actualizar
  <2> QED
    BY <1>2, <1>4, <1>5, <2>1 DEF CopiasBuenas, Admisible
<1>8. SaldoCuadra' /\ SaldoDelExtracto'
  BY <1>2, <1>4 DEF FiadoInv, SaldoCuadra, SaldoDelExtracto, Deuda
<1> QED
  BY <1>6, <1>7, <1>8 DEF FiadoInv

LEMMA FiadoPaso == FiadoInv /\ [FiadoNext]_fiadoVars => FiadoInv'
<1>1. ASSUME FiadoInv, UNCHANGED fiadoVars PROVE FiadoInv'
  BY <1>1 DEF fiadoVars, FiadoInv, FiadoTipos, CopiasBuenas, CopiaBuena, Admisible, SaldoCuadra, SaldoDelExtracto, Deuda
<1>2. ASSUME FiadoInv, FiadoNext PROVE FiadoInv'
  <2>1. PICK o \in Operadores :
          \/ \E tipo \in {"cargo", "pago"}, m \in Importes : Pedir(o, tipo, m)
          \/ \E l \in Limites : Pedir(o, "edicion", l)
          \/ FindByID(o) \/ UpdateSaldoTx(o) \/ Actualizar(o) \/ Fallar(o)
    BY <1>2 DEF FiadoNext
  <2>2. CASE \E tipo \in {"cargo", "pago"}, m \in Importes : Pedir(o, tipo, m)
    BY <1>2, <2>2, PedirConserva, FiadoAssumption
  <2>3. CASE \E l \in Limites : Pedir(o, "edicion", l)
    BY <1>2, <2>3, PedirConserva, FiadoAssumption
  <2>4. CASE FindByID(o)
    BY <1>2, <2>4, LeerConserva
  <2>5. CASE UpdateSaldoTx(o)
    BY <1>2, <2>5, UpdateSaldoConserva
  <2>6. CASE Actualizar(o)
    BY <1>2, <2>6, ActualizarConserva
  <2>7. CASE Fallar(o)
    BY <1>2, <2>7, AcabaConserva DEF Fallar
  <2> QED
    BY <2>1, <2>2, <2>3, <2>4, <2>5, <2>6, <2>7
<1> QED
  BY <1>1, <1>2

LEMMA FiadoInicio == FiadoInit => FiadoInv
<1> SUFFICES ASSUME FiadoInit PROVE FiadoInv
  OBVIOUS
<1>1. cliente \in Filas /\ cliente.saldo = 0 /\ cliente.limite \in Nat /\ limites = {cliente.limite}
  <2>1. cliente \in [saldo : {0}, limite : Limites] /\ limites = {cliente.limite}
    BY DEF FiadoInit
  <2>2. Limites \subseteq Nat
    BY FiadoAssumption
  <2>3. cliente.saldo = 0 /\ cliente.limite \in Nat
    BY <2>1, <2>2
  <2>4. cliente \in Filas
    <3>1. cliente = [saldo |-> 0, limite |-> cliente.limite]
      BY <2>1
    <3>2. [saldo |-> 0, limite |-> cliente.limite] \in Filas
      BY <2>3 DEF Filas
    <3> QED
      BY <3>1, <3>2, Zenon
  <2> QED
    BY <2>1, <2>3, <2>4
<1>2. FiadoTipos
  <2>1. tarea = [o \in Operadores |-> SinTarea] /\ movimientos = <<>> /\ pisada = FALSE /\ editada = FALSE
    BY DEF FiadoInit
  <2>2. tarea \in [Operadores -> Tareas]
    BY <2>1, TareaOciosa
  <2>3. movimientos \in Seq(Movimientos)
    BY <2>1, EmptySeq
  <2>4. limites \subseteq Nat
    BY <1>1
  <2> QED
    BY <1>1, <2>1, <2>2, <2>3, <2>4 DEF FiadoTipos
<1>3. CopiasBuenas
  <2>1. \A o \in Operadores : tarea[o] = SinTarea /\ CopiaBuena(SinTarea)
    BY DEF FiadoInit, CopiaBuena, SinTarea
  <2>2. Admisible(cliente.saldo)
    BY <1>1 DEF Admisible
  <2> QED
    BY <1>1, <2>1, <2>2 DEF CopiasBuenas
<1>4. Deuda = 0
  <2>1. [i \in DOMAIN movimientos |-> Firmado(movimientos[i])] \in [{} -> Int]
    BY DEF FiadoInit
  <2> QED
    BY <2>1, SumEmpty DEF Deuda
<1>5. SaldoCuadra /\ SaldoDelExtracto
  BY <1>1, <1>4 DEF FiadoInit, SaldoCuadra, SaldoDelExtracto
<1> QED
  BY <1>2, <1>3, <1>5 DEF FiadoInv

(* The credit account is in order in every interleaving of charges,         *)
(* payments and edits: the statement ends in the balance of the row, which  *)
(* stays between zero and the limits the customer has had, and is what the  *)
(* movements add up to unless a stale copy was written (CargarFiado,        *)
(* RegistrarPago, Actualizar).                                              *)
THEOREM CuentaEnOrden == ServiciosSpec => []CuentaCuadra
<1>1. ServiciosInit => FiadoInv
  BY FiadoInicio DEF ServiciosInit
<1>2. FiadoInv /\ [ServiciosNext]_serviciosVars => FiadoInv'
  <2>1. [ServiciosNext]_serviciosVars => [FiadoNext]_fiadoVars
    BY DEF ServiciosNext, serviciosVars
  <2> QED
    BY <2>1, FiadoPaso
<1>3. FiadoInv => CuentaCuadra
  BY DEF FiadoInv, CopiasBuenas, Admisible, CuentaCuadra, SaldoEnRango
<1> QED
  BY <1>1, <1>2, <1>3, PTL DEF ServiciosSpec

-----------------------------------------------------------------------------
(* Transferencias: the invariant *)

Item == [art : Articulos, n : Int]
Difs == UNION {[D -> Int] : D \in SUBSET Celdas}
Pedidos ==
  [op : {"", "crear", "completar", "rechazar", "cancelar", "ajustar"},
   paso : {"libre", "asegura", "crea", "leer", "item", "cierra", "estado", "ajusta"},
   t : Nat, i : Nat, k : Nat, dif : Difs,
   origen : {""} \cup Sucursales, destino : {""} \cup Sucursales, items : Seq(Item)]
Traslados ==
  [estado : {"pendiente", "completada", "rechazada", "cancelada"},
   origen : Sucursales, destino : Sucursales, items : Seq(Item) \ {<<>>}]

TrasTipos ==
  /\ existencias \in [Celdas -> Int] /\ filas \subseteq Celdas
  /\ ajustes \in [Articulos -> Int]
  /\ traslados \in Seq(Traslados) /\ movidas \in Seq(Nat) /\ Len(movidas) = Len(traslados)
  /\ enCurso \in [Peticiones -> Pedidos]

(* The changes of an open transaction, on every cell. *)
Completa(d) == [c \in Celdas |-> IF c \in DOMAIN d THEN d[c] ELSE 0]

(* What the transaction has taken and not given yet: between the two       *)
(* updates of an item, its units.                                          *)
EnElAire(e, a) ==
  IF e.paso = "item" /\ e.k = 4 /\ e.items[e.i].art = a THEN -e.items[e.i].n ELSE 0

Balanceado(e) == \A a \in Articulos : EnTotal(Completa(e.dif), a) = EnElAire(e, a)

(* What a request carries fits its statement: the transfer it decides on   *)
(* exists, the item it is at is one of its list, and the rows that its     *)
(* next update needs are there.                                            *)
Apunta(e) ==
  /\ e.paso \in {"leer", "item", "cierra", "estado"} => e.t \in 1 .. Len(traslados)
  /\ e.paso = "leer" => e.i = 1 /\ e.k = 1
  /\ e.paso \in {"asegura", "crea", "item", "ajusta"} => e.origen \in Sucursales /\ e.i \in 1 .. Len(e.items)
  /\ e.paso \in {"crea", "item"} \/ (e.paso = "asegura" /\ e.op = "crear") => e.destino \in Sucursales

ConFilas(e) ==
  /\ DOMAIN e.dif \subseteq filas
  /\ e.paso \notin {"item", "cierra"} => DOMAIN e.dif = {}
  /\ e.paso = "ajusta" => <<e.items[1].art, e.origen>> \in filas
  /\ e.paso = "item" =>
       /\ e.k \in 1 .. 4
       /\ e.k >= 2 => <<e.items[e.i].art, e.origen>> \in filas
       /\ e.k >= 3 => <<e.items[e.i].art, e.destino>> \in filas

PedidoBien(e) == Apunta(e) /\ ConFilas(e) /\ Balanceado(e)
PedidosBien == \A q \in Peticiones : PedidoBien(enCurso[q])

(* Who decides on a transfer that is not contested decides alone, and the  *)
(* transfer still waits.                                                   *)
Decide(e) == e.paso \in {"item", "cierra", "estado"}
DecidenSolos ==
  \A j \in 1 .. Len(traslados), q \in Peticiones :
    j \notin solapadas /\ Decide(enCurso[q]) /\ enCurso[q].t = j =>
      /\ traslados[j].estado = "pendiente"
      /\ \A p \in Peticiones : Decide(enCurso[p]) /\ enCurso[p].t = j => p = q

TrasInv == TrasTipos /\ PedidosBien /\ DecidenSolos /\ TrasladosConservan /\ UnaDecision

-----------------------------------------------------------------------------
(* Transferencias: totals per article *)

LEMMA TotalDeFuncion ==
  ASSUME NEW f \in [Celdas -> Int], NEW a \in Articulos
  PROVE  /\ [s \in Sucursales |-> f[<<a, s>>]] \in [Sucursales -> Int]
         /\ EnTotal(f, a) \in Int
<1>1. \A s \in Sucursales : f[<<a, s>>] \in Int
  BY DEF Celdas
<1>2. [s \in Sucursales |-> f[<<a, s>>]] \in [Sucursales -> Int]
  BY <1>1
<1>3. IsFiniteSet(Sucursales)
  BY TransferenciasAssumption
<1> QED
  BY <1>2, <1>3, SumType DEF EnTotal

LEMMA TotalDeSuma ==
  ASSUME NEW f \in [Celdas -> Int], NEW g \in [Celdas -> Int], NEW h \in [Celdas -> Int],
         \A c \in Celdas : h[c] = f[c] + g[c], NEW a \in Articulos
  PROVE  EnTotal(h, a) = EnTotal(f, a) + EnTotal(g, a)
<1>1. PICK F \in [Sucursales -> Int] : F = [s \in Sucursales |-> f[<<a, s>>]]
  BY TotalDeFuncion
<1>2. PICK G \in [Sucursales -> Int] : G = [s \in Sucursales |-> g[<<a, s>>]]
  BY TotalDeFuncion
<1>3. PICK H \in [Sucursales -> Int] : H = [s \in Sucursales |-> h[<<a, s>>]]
  BY TotalDeFuncion
<1>4. \A s \in Sucursales : H[s] = F[s] + G[s]
  BY <1>1, <1>2, <1>3 DEF Celdas
<1>5. IsFiniteSet(Sucursales)
  BY TransferenciasAssumption
<1>6. SumFunction(H) = SumFunction(F) + SumFunction(G)
  BY <1>4, <1>5, SumAdd
<1> QED
  BY <1>1, <1>2, <1>3, <1>6 DEF EnTotal

LEMMA TotalCambia ==
  ASSUME NEW f \in [Celdas -> Int], NEW g \in [Celdas -> Int],
         NEW b \in Articulos, NEW z \in Sucursales, NEW d \in Int,
         g[<<b, z>>] = f[<<b, z>>] + d, \A c \in Celdas : c # <<b, z>> => g[c] = f[c],
         NEW a \in Articulos
  PROVE  EnTotal(g, a) = EnTotal(f, a) + IF a = b THEN d ELSE 0
<1>1. PICK F \in [Sucursales -> Int] : F = [s \in Sucursales |-> f[<<a, s>>]]
  BY TotalDeFuncion
<1>2. PICK G \in [Sucursales -> Int] : G = [s \in Sucursales |-> g[<<a, s>>]]
  BY TotalDeFuncion
<1>3. CASE a = b
  <2>1. G[z] = F[z] + d
    BY <1>1, <1>2, <1>3
  <2>2. \A s \in Sucursales \ {z} : G[s] = F[s]
    BY <1>1, <1>2 DEF Celdas
  <2>3. IsFiniteSet(Sucursales)
    BY TransferenciasAssumption
  <2>4. SumFunction(G) = SumFunction(F) + (G[z] - F[z])
    BY <2>2, <2>3, SumChange
  <2>5. F[z] \in Int /\ SumFunction(F) \in Int
    BY <2>3, SumType
  <2> QED
    BY <1>1, <1>2, <1>3, <2>1, <2>4, <2>5 DEF EnTotal
<1>4. CASE a # b
  <2>1. G = F
    BY <1>1, <1>2, <1>4 DEF Celdas
  <2>2. EnTotal(g, a) = EnTotal(f, a)
    BY <1>1, <1>2, <2>1 DEF EnTotal
  <2>3. EnTotal(f, a) \in Int
    BY TotalDeFuncion
  <2> QED
    BY <1>4, <2>2, <2>3
<1> QED
  BY <1>3, <1>4

LEMMA CompletaTipo == ASSUME NEW d \in Difs PROVE Completa(d) \in [Celdas -> Int]
<1>1. PICK D \in SUBSET Celdas : d \in [D -> Int]
  BY DEF Difs
<1>2. \A c \in Celdas : (IF c \in DOMAIN d THEN d[c] ELSE 0) \in Int
  BY <1>1
<1> QED
  BY <1>2 DEF Completa

LEMMA TotalNulo ==
  ASSUME NEW d \in Difs, DOMAIN d = {}, NEW a \in Articulos
  PROVE  EnTotal(Completa(d), a) = 0
<1>1. PICK f \in [Celdas -> Int] : f = Completa(d)
  BY CompletaTipo
<1>2. \A c \in Celdas : f[c] = f[c] + f[c]
  BY <1>1 DEF Completa
<1>3. PICK n \in Int : n = EnTotal(f, a)
  BY TotalDeFuncion
<1>4. n = n + n
  BY <1>2, <1>3, TotalDeSuma
<1> QED
  BY <1>1, <1>3, <1>4

-----------------------------------------------------------------------------
(* Transferencias: what a step of one request leaves of the others *)

LEMMA PedidoOcioso == Ociosa \in Pedidos /\ PedidoBien(Ociosa) /\ PedidoBien(Ociosa)' /\ ~Decide(Ociosa)
<1>1. SinDif \in Difs /\ DOMAIN SinDif = {}
  BY DEF SinDif, Difs
<1>2. /\ Ociosa.paso = "libre" /\ Ociosa.dif = SinDif
      /\ Ociosa \in Pedidos
  BY <1>1, EmptySeq DEF Ociosa, Pedidos
<1>3. Balanceado(Ociosa)
  BY <1>1, <1>2, TotalNulo DEF Balanceado, EnElAire
<1>4. PedidoBien(Ociosa) /\ ~Decide(Ociosa)
  BY <1>1, <1>2, <1>3 DEF PedidoBien, Apunta, ConFilas, Decide
<1>5. Balanceado(Ociosa)'
  BY <1>1, <1>2, TotalNulo DEF Balanceado, EnElAire
<1>6. PedidoBien(Ociosa)'
  BY <1>1, <1>2, <1>5 DEF PedidoBien, Apunta, ConFilas
<1> QED
  BY <1>2, <1>4, <1>6

\* Rows are never deleted, transfers neither: a request keeps what it needs.
LEMMA PedidoSigue ==
  ASSUME NEW e, PedidoBien(e), filas \subseteq filas', Len(traslados) \in Nat,
         Len(traslados') \in Nat, Len(traslados) <= Len(traslados')
  PROVE  PedidoBien(e)'
<1>1. Apunta(e)'
  <2>1. e.t \in 1 .. Len(traslados) => e.t \in 1 .. Len(traslados')
    OBVIOUS
  <2> QED
    BY <2>1 DEF PedidoBien, Apunta
<1>2. ConFilas(e)'
  BY DEF PedidoBien, ConFilas
<1>3. Balanceado(e)'
  BY DEF PedidoBien, Balanceado
<1> QED
  BY <1>1, <1>2, <1>3 DEF PedidoBien

LEMMA PedidosSiguen ==
  ASSUME TrasTipos, PedidosBien, NEW q \in Peticiones, NEW e \in Pedidos,
         enCurso' = [enCurso EXCEPT ![q] = e], PedidoBien(e)',
         filas \subseteq filas', Len(traslados') \in Nat, Len(traslados) <= Len(traslados')
  PROVE  enCurso' \in [Peticiones -> Pedidos] /\ PedidosBien'
<1>1. enCurso' \in [Peticiones -> Pedidos]
  BY DEF TrasTipos
<1>2. Len(traslados) \in Nat
  BY LenProperties DEF TrasTipos
<1>3. ASSUME NEW p \in Peticiones PROVE PedidoBien(enCurso[p])'
  <2>1. PICK d \in Pedidos : d = enCurso'[p]
    BY <1>1
  <2>2. PedidoBien(d)'
    <3>1. CASE p = q
      <4>1. d = e
        BY <2>1, <3>1 DEF TrasTipos
      <4> QED
        BY <4>1
    <3>2. CASE p # q
      <4>1. d = enCurso[p]
        BY <2>1, <3>2 DEF TrasTipos
      <4>2. PedidoBien(d)
        BY <4>1 DEF PedidosBien
      <4> QED
        BY <1>2, <4>2, PedidoSigue
    <3> QED
      BY <3>1, <3>2
  <2> QED
    BY <2>1, <2>2 DEF PedidoBien, Apunta, ConFilas, Balanceado, EnElAire
<1> QED
  BY <1>1, <1>3 DEF PedidosBien

\* Steps that decide on nothing, or go on deciding on the same transfer.
LEMMA DecisionSigue ==
  ASSUME TrasTipos, DecidenSolos, NEW q \in Peticiones, NEW e \in Pedidos,
         enCurso' = [enCurso EXCEPT ![q] = e], traslados' = traslados,
         solapadas \subseteq solapadas',
         Decide(e) => Decide(enCurso[q]) /\ e.t = enCurso[q].t
  PROVE  DecidenSolos'
<1>1. \A p \in Peticiones : Decide(enCurso'[p]) => Decide(enCurso[p]) /\ enCurso'[p].t = enCurso[p].t
  BY DEF TrasTipos
<1>2. SUFFICES ASSUME NEW j \in 1 .. Len(traslados), NEW p \in Peticiones, j \notin solapadas',
                      Decide(enCurso'[p]), enCurso'[p].t = j
               PROVE  /\ traslados[j].estado = "pendiente"
                      /\ \A r \in Peticiones : Decide(enCurso'[r]) /\ enCurso'[r].t = j => r = p
  BY DEF DecidenSolos, Decide
<1>3. j \notin solapadas /\ Decide(enCurso[p]) /\ enCurso[p].t = j
  BY <1>1, <1>2
<1> QED
  BY <1>1, <1>3 DEF DecidenSolos

\* Steps that leave the stock and the transfers as they are.
LEMMA SinMover ==
  ASSUME TrasInv, NEW q \in Peticiones, NEW e \in Pedidos,
         enCurso' = [enCurso EXCEPT ![q] = e], PedidoBien(e)', DecidenSolos',
         filas \subseteq filas', filas' \subseteq Celdas, solapadas \subseteq solapadas',
         UNCHANGED <<existencias, traslados, movidas, ajustes>>
  PROVE  TrasInv'
<1>1. Len(traslados') \in Nat /\ Len(traslados) <= Len(traslados')
  BY LenProperties DEF TrasInv, TrasTipos
<1>2. enCurso' \in [Peticiones -> Pedidos] /\ PedidosBien'
  BY <1>1, PedidosSiguen DEF TrasInv
<1>3. TrasTipos'
  BY <1>2 DEF TrasInv, TrasTipos
<1>4. TrasladosConservan'
  BY DEF TrasInv, TrasladosConservan, EnTotal
<1>5. UnaDecision'
  BY DEF TrasInv, UnaDecision
<1> QED
  BY <1>2, <1>3, <1>4, <1>5 DEF TrasInv

\* The same for a request that goes on with its own transfer, or with none.
LEMMA SigueIgual ==
  ASSUME TrasInv, NEW q \in Peticiones, NEW e \in Pedidos,
         enCurso' = [enCurso EXCEPT ![q] = e], PedidoBien(e)',
         Decide(e) => Decide(enCurso[q]) /\ e.t = enCurso[q].t,
         filas \subseteq filas', filas' \subseteq Celdas, solapadas \subseteq solapadas',
         UNCHANGED <<existencias, traslados, movidas, ajustes>>
  PROVE  TrasInv'
<1>1. DecidenSolos'
  BY DecisionSigue DEF TrasInv
<1> QED
  BY <1>1, SinMover

LEMMA RespondeConserva ==
  ASSUME TrasInv, NEW q \in Peticiones, Responde(q),
         filas \subseteq filas', filas' \subseteq Celdas, solapadas \subseteq solapadas',
         UNCHANGED <<existencias, traslados, movidas, ajustes>>
  PROVE  TrasInv'
  BY PedidoOcioso, SigueIgual DEF Responde

-----------------------------------------------------------------------------
(* Transferencias: the steps *)

LEMMA SinCambios == SinDif \in Difs /\ DOMAIN SinDif = {}
  BY DEF SinDif, Difs

\* A request without an open transaction has nothing in the air.
LEMMA FueraDeTx ==
  ASSUME NEW e \in Pedidos, DOMAIN e.dif = {}, e.paso # "item" \/ e.k # 4
  PROVE  Balanceado(e) /\ Balanceado(e)'
<1>1. e.dif \in Difs
  BY DEF Pedidos
<1>2. Balanceado(e)
  BY <1>1, TotalNulo DEF Balanceado, EnElAire
<1>3. Balanceado(e)'
  BY <1>1, TotalNulo DEF Balanceado, EnElAire
<1> QED
  BY <1>2, <1>3

LEMMA ListaTipada == ASSUME NEW l \in Surtidos PROVE l \in Seq(Item) \ {<<>>} /\ 1 \in 1 .. Len(l)
<1>1. l # <<>> /\ l \in Seq([art : Articulos, n : Nat \ {0}])
  BY TransferenciasAssumption
<1>2. [art : Articulos, n : Nat \ {0}] \subseteq Item
  BY DEF Item
<1>3. l \in Seq(Item)
  BY <1>1, <1>2, SeqMonotonic
<1>4. Len(l) \in Nat \ {0}
  BY <1>1, <1>3, EmptySeq
<1> QED
  BY <1>1, <1>3, <1>4

LEMMA PideCrearBien ==
  ASSUME NEW o \in Sucursales, NEW d \in Sucursales, NEW l \in Surtidos
  PROVE  LET e == PideCrear(o, d, l) IN e \in Pedidos /\ PedidoBien(e) /\ ~Decide(e)
<1>1. PICK e : e = PideCrear(o, d, l)
  OBVIOUS
<1>2. Ociosa \in Pedidos /\ Ociosa.dif = SinDif /\ Ociosa.i = 1
  BY PedidoOcioso DEF Ociosa
<1>3. l \in Seq(Item) /\ 1 \in 1 .. Len(l)
  BY ListaTipada
<1>4. /\ e \in Pedidos /\ e.paso = "asegura" /\ e.dif = SinDif /\ e.items = l /\ e.i = 1
      /\ e.origen \in Sucursales /\ e.destino \in Sucursales
  BY <1>1, <1>2, <1>3 DEF Pedidos, PideCrear
<1>5. Balanceado(e)
  BY <1>4, SinCambios, FueraDeTx
<1> QED
  BY <1>1, <1>3, <1>4, <1>5, SinCambios DEF PedidoBien, Apunta, ConFilas, Decide

LEMMA PideDecidirBien ==
  ASSUME TrasTipos, NEW o \in {"completar", "rechazar", "cancelar"}, NEW j \in DOMAIN traslados
  PROVE  LET e == PideDecidir(o, j) IN e \in Pedidos /\ PedidoBien(e) /\ ~Decide(e)
<1>1. PICK e : e = PideDecidir(o, j)
  OBVIOUS
<1>2. Ociosa \in Pedidos /\ Ociosa.dif = SinDif /\ Ociosa.i = 1 /\ Ociosa.k = 1
  BY PedidoOcioso DEF Ociosa
<1>3. j \in Nat /\ j \in 1 .. Len(traslados)
  BY LenProperties DEF TrasTipos
<1>4. e \in Pedidos /\ e.paso = "leer" /\ e.dif = SinDif /\ e.t = j /\ e.i = 1 /\ e.k = 1
  BY <1>1, <1>2, <1>3 DEF Pedidos, PideDecidir
<1>5. Balanceado(e)
  BY <1>4, SinCambios, FueraDeTx
<1> QED
  BY <1>1, <1>3, <1>4, <1>5, SinCambios DEF PedidoBien, Apunta, ConFilas, Decide

LEMMA PideAjustarBien ==
  ASSUME NEW a \in Articulos, NEW s \in Sucursales, NEW n \in Deltas
  PROVE  LET e == PideAjustar(a, s, n) IN e \in Pedidos /\ PedidoBien(e) /\ ~Decide(e)
<1>1. PICK e : e = PideAjustar(a, s, n)
  OBVIOUS
<1>2. Ociosa \in Pedidos /\ Ociosa.dif = SinDif /\ Ociosa.i = 1
  BY PedidoOcioso DEF Ociosa
<1>3. PICK l : l = <<[art |-> a, n |-> n]>>
  OBVIOUS
<1>4. l \in Seq(Item) /\ 1 \in 1 .. Len(l)
  <2>1. n \in Int
    BY TransferenciasAssumption
  <2>2. [art |-> a, n |-> n] \in Item
    BY <2>1 DEF Item
  <2> QED
    BY <1>3, <2>2
<1>5. /\ e \in Pedidos /\ e.paso = "asegura" /\ e.op = "ajustar" /\ e.dif = SinDif
      /\ e.items = l /\ e.i = 1 /\ e.origen \in Sucursales
  BY <1>1, <1>2, <1>3, <1>4 DEF Pedidos, PideAjustar
<1>6. Balanceado(e)
  BY <1>5, SinCambios, FueraDeTx
<1> QED
  BY <1>1, <1>4, <1>5, <1>6, SinCambios DEF PedidoBien, Apunta, ConFilas, Decide

LEMMA LlegaConserva ==
  ASSUME TrasInv, NEW q \in Peticiones, NEW e \in Pedidos, PedidoBien(e), ~Decide(e), Llega(q, e)
  PROVE  TrasInv'
<1>2. /\ enCurso' = [enCurso EXCEPT ![q] = e] /\ filas' = filas /\ solapadas' = solapadas
      /\ UNCHANGED <<existencias, traslados, movidas, ajustes>>
  BY DEF Llega
<1>3. Len(traslados) \in Nat /\ Len(traslados') \in Nat /\ Len(traslados) <= Len(traslados')
  BY <1>2, LenProperties DEF TrasInv, TrasTipos
<1>4. PedidoBien(e)'
  BY <1>2, <1>3, PedidoSigue
<1>5. filas' \subseteq Celdas
  BY <1>2 DEF TrasInv, TrasTipos
<1> QED
  BY <1>2, <1>4, <1>5, SigueIgual

LEMMA RecibeConserva ==
  ASSUME TrasInv, NEW q \in Peticiones, Recibe(q)
  PROVE  TrasInv'
<1>1. \/ \E o, d \in Sucursales, l \in Surtidos : Llega(q, PideCrear(o, d, l))
      \/ \E o \in {"completar", "rechazar", "cancelar"}, j \in DOMAIN traslados : Llega(q, PideDecidir(o, j))
      \/ \E a \in Articulos, s \in Sucursales, n \in Deltas : Llega(q, PideAjustar(a, s, n))
  BY DEF Recibe
<1>2. TrasTipos
  BY DEF TrasInv
<1>3. PICK e \in Pedidos : PedidoBien(e) /\ ~Decide(e) /\ Llega(q, e)
  BY <1>1, <1>2, PideCrearBien, PideDecidirBien, PideAjustarBien
<1> QED
  BY <1>3, LlegaConserva

\* FindByID starts a decision: alone on its transfer, or the transfer is
\* noted as contested.
LEMMA EmpiezaADecidir ==
  ASSUME TrasTipos, DecidenSolos, NEW q \in Peticiones, NEW e \in Pedidos,
         enCurso' = [enCurso EXCEPT ![q] = e], traslados' = traslados,
         e.t = enCurso[q].t, traslados[e.t].estado = "pendiente",
         solapadas' = IF Deciden(e.t) # {} THEN solapadas \cup {e.t} ELSE solapadas
  PROVE  DecidenSolos'
<1>1. SUFFICES ASSUME NEW j \in 1 .. Len(traslados), NEW p \in Peticiones, j \notin solapadas',
                      Decide(enCurso'[p]), enCurso'[p].t = j
               PROVE  /\ traslados[j].estado = "pendiente"
                      /\ \A r \in Peticiones : Decide(enCurso'[r]) /\ enCurso'[r].t = j => r = p
  BY DEF DecidenSolos, Decide
<1>2. enCurso'[q] = e /\ \A r \in Peticiones : r # q => enCurso'[r] = enCurso[r]
  BY DEF TrasTipos
<1>3. CASE j = e.t
  <2>1. Deciden(j) = {}
    BY <1>1, <1>3
  <2>2. \A r \in Peticiones : ~(Decide(enCurso[r]) /\ enCurso[r].t = j)
    BY <2>1 DEF Deciden, Decide
  <2>3. \A r \in Peticiones : Decide(enCurso'[r]) /\ enCurso'[r].t = j => r = q
    BY <1>2, <2>2
  <2> QED
    BY <1>1, <1>3, <2>3
<1>4. CASE j # e.t
  <2>1. \A r \in Peticiones : Decide(enCurso'[r]) /\ enCurso'[r].t = j =>
                              Decide(enCurso[r]) /\ enCurso[r].t = j
    BY <1>2, <1>4
  <2>2. j \notin solapadas
    BY <1>1
  <2> QED
    BY <1>1, <2>1, <2>2 DEF DecidenSolos
<1> QED
  BY <1>3, <1>4

LEMMA BuscarConserva ==
  ASSUME TrasInv, NEW q \in Peticiones, BuscarTransferencia(q)
  PROVE  TrasInv'
<1>1. PICK e \in Pedidos : e = enCurso[q]
  BY DEF TrasInv, TrasTipos
<1>2. /\ e.paso = "leer" /\ filas' = filas
      /\ UNCHANGED <<existencias, traslados, movidas, ajustes>>
      /\ solapadas' = IF Deciden(e.t) # {} THEN solapadas \cup {e.t} ELSE solapadas
  BY <1>1 DEF BuscarTransferencia
<1>3. filas' \subseteq Celdas /\ filas \subseteq filas' /\ solapadas \subseteq solapadas'
  BY <1>2 DEF TrasInv, TrasTipos
<1>4. CASE ~Admite(enCurso[q])
  <2>1. Responde(q)
    BY <1>4 DEF BuscarTransferencia
  <2> QED
    BY <1>2, <1>3, <2>1, RespondeConserva
<1>5. CASE Admite(enCurso[q])
  <2>1. PedidoBien(e)
    BY <1>1 DEF TrasInv, PedidosBien
  <2>2. e.t \in 1 .. Len(traslados) /\ e.i = 1 /\ e.k = 1 /\ DOMAIN e.dif = {}
    BY <1>2, <2>1 DEF PedidoBien, Apunta, ConFilas
  <2>3. PICK r \in Traslados : r = traslados[e.t]
    BY <2>2, ElementOfSeq DEF TrasInv, TrasTipos
  <2>4. r.estado = "pendiente" /\ r.items \in Seq(Item) /\ 1 \in 1 .. Len(r.items)
    <3>1. r.items \in Seq(Item) /\ r.items # <<>>
      BY DEF Traslados
    <3>2. Len(r.items) \in Nat \ {0}
      BY <3>1, EmptySeq
    <3> QED
      BY <1>1, <1>5, <2>3, <3>1, <3>2 DEF Admite
  <2>a. PICK paso \in {"item", "estado"} : paso = IF e.op = "completar" THEN "item" ELSE "estado"
    OBVIOUS
  <2>5. PICK n : n = [e EXCEPT !.paso = paso, !.origen = r.origen, !.destino = r.destino, !.items = r.items]
    OBVIOUS
  <2>6. enCurso' = [enCurso EXCEPT ![q] = n]
    BY <1>1, <1>5, <2>3, <2>5, <2>a DEF BuscarTransferencia
  <2>7. r.origen \in Sucursales /\ r.destino \in Sucursales
    BY DEF Traslados
  <2>b. n \in Pedidos
    BY <2>4, <2>5, <2>7, <2>a, Zenon DEF Pedidos
  <2>c. /\ n.paso = paso /\ n.dif = e.dif /\ n.t = e.t /\ n.i = e.i /\ n.k = e.k
        /\ n.origen = r.origen /\ n.destino = r.destino /\ n.items = r.items
    BY <2>5, Zenon DEF Pedidos
  <2>8. /\ n \in Pedidos /\ n.paso \in {"item", "estado"} /\ n.dif = e.dif /\ n.t = e.t
        /\ n.i = 1 /\ n.k = 1 /\ n.items = r.items
        /\ n.origen \in Sucursales /\ n.destino \in Sucursales
    BY <2>2, <2>7, <2>a, <2>b, <2>c
  <2>9. Balanceado(n)'
    BY <2>2, <2>8, FueraDeTx
  <2>10. PedidoBien(n)'
    <3>1. n.t \in 1 .. Len(traslados')
      BY <1>2, <2>2, <2>8
    <3>2. Apunta(n)'
      BY <2>4, <2>8, <3>1 DEF Apunta
    <3>3. ConFilas(n)'
      BY <2>2, <2>8 DEF ConFilas
    <3> QED
      BY <2>9, <3>2, <3>3 DEF PedidoBien
  <2>11. DecidenSolos'
    <3>1. n.t = enCurso[q].t /\ traslados[n.t].estado = "pendiente" /\ traslados' = traslados
      BY <1>1, <1>2, <2>3, <2>4, <2>8
    <3>2. solapadas' = IF Deciden(n.t) # {} THEN solapadas \cup {n.t} ELSE solapadas
      BY <1>2, <2>8
    <3> QED
      BY <2>6, <2>8, <3>1, <3>2, EmpiezaADecidir DEF TrasInv
  <2> QED
    BY <1>2, <1>3, <2>6, <2>8, <2>10, <2>11, SinMover
<1> QED
  BY <1>4, <1>5

LEMMA CamposDe ==
  ASSUME NEW e \in Pedidos
  PROVE  /\ e.t \in Nat /\ e.i \in Nat /\ e.k \in Nat /\ e.dif \in Difs
         /\ e.items \in Seq(Item) /\ Len(e.items) \in Nat
<1>1. e.t \in Nat /\ e.i \in Nat /\ e.k \in Nat /\ e.dif \in Difs /\ e.items \in Seq(Item)
  BY Zenon DEF Pedidos
<1> QED
  BY <1>1, LenProperties

LEMMA ArticuloDe ==
  ASSUME NEW e \in Pedidos, NEW i \in 1 .. Len(e.items)
  PROVE  e.items[i].art \in Articulos /\ e.items[i].n \in Int
<1>1. e.items \in Seq(Item)
  BY CamposDe
<1>2. e.items[i] \in Item
  BY <1>1, ElementOfSeq
<1> QED
  BY <1>2 DEF Item

LEMMA AseguraAlCrearConserva ==
  ASSUME TrasInv, NEW q \in Peticiones, AseguraAlCrear(q)
  PROVE  TrasInv'
<1>1. PICK e \in Pedidos : e = enCurso[q]
  BY DEF TrasInv, TrasTipos
<1>2. PedidoBien(e)
  BY <1>1 DEF TrasInv, PedidosBien
<1>3. /\ e.op = "crear" /\ e.paso = "asegura" /\ solapadas' = solapadas
      /\ filas' = filas \cup {<<e.items[e.i].art, e.origen>>}
      /\ UNCHANGED <<existencias, traslados, movidas, ajustes>>
  BY <1>1 DEF AseguraAlCrear, AsegurarFila
<1>4. /\ e.origen \in Sucursales /\ e.destino \in Sucursales /\ e.i \in 1 .. Len(e.items)
      /\ DOMAIN e.dif = {}
  BY <1>2, <1>3 DEF PedidoBien, Apunta, ConFilas
<1>5. filas \subseteq filas' /\ filas' \subseteq Celdas
  BY <1>3, <1>4, ArticuloDe DEF TrasInv, TrasTipos, Celdas
<1>6. CASE Responde(q)
  BY <1>3, <1>5, <1>6, RespondeConserva
<1>7. CASE ~Responde(q)
  <2>1. Len(e.items) \in Nat
    BY CamposDe
  <2>2. PICK i \in 1 .. Len(e.items) : i = IF e.i < Len(e.items) THEN e.i + 1 ELSE e.i
    BY <1>4, <2>1
  <2>3. PICK paso \in {"asegura", "crea"} : paso = IF e.i < Len(e.items) THEN e.paso ELSE "crea"
    BY <1>3
  <2>4. PICK n : n = [e EXCEPT !.i = i, !.paso = paso]
    OBVIOUS
  <2>5. enCurso' = [enCurso EXCEPT ![q] = n]
    <3>1. enCurso' = [enCurso EXCEPT ![q].i = i, ![q].paso = paso]
      BY <1>1, <1>7, <2>2, <2>3 DEF AseguraAlCrear
    <3> QED
      BY <1>1, <2>4, <3>1 DEF TrasInv, TrasTipos
  <2>6. n \in Pedidos
    <3>1. i \in Nat
      BY <2>1
    <3> QED
      BY <2>3, <2>4, <3>1, Zenon DEF Pedidos
  <2>7. /\ n.i = i /\ n.paso = paso /\ n.items = e.items /\ n.dif = e.dif /\ n.op = e.op
        /\ n.origen = e.origen /\ n.destino = e.destino
    BY <2>4, Zenon DEF Pedidos
  <2>8. Balanceado(n)'
    BY <1>4, <2>3, <2>6, <2>7, FueraDeTx
  <2>9. PedidoBien(n)'
    BY <1>4, <2>2, <2>3, <2>7, <2>8 DEF PedidoBien, Apunta, ConFilas
  <2>10. ~Decide(n)
    BY <2>3, <2>7 DEF Decide
  <2> QED
    BY <1>3, <1>5, <2>5, <2>6, <2>9, <2>10, SigueIgual
<1> QED
  BY <1>6, <1>7

LEMMA AseguraAlAjustarConserva ==
  ASSUME TrasInv, NEW q \in Peticiones, AseguraAlAjustar(q)
  PROVE  TrasInv'
<1>1. PICK e \in Pedidos : e = enCurso[q]
  BY DEF TrasInv, TrasTipos
<1>2. PedidoBien(e)
  BY <1>1 DEF TrasInv, PedidosBien
<1>3. /\ e.op = "ajustar" /\ e.paso = "asegura" /\ solapadas' = solapadas
      /\ filas' = filas \cup {<<e.items[1].art, e.origen>>}
      /\ UNCHANGED <<existencias, traslados, movidas, ajustes>>
  BY <1>1 DEF AseguraAlAjustar, AsegurarFila
<1>4. e.origen \in Sucursales /\ e.i \in 1 .. Len(e.items) /\ DOMAIN e.dif = {}
  BY <1>2, <1>3 DEF PedidoBien, Apunta, ConFilas
<1>5. 1 \in 1 .. Len(e.items)
  BY <1>4, CamposDe
<1>6. filas \subseteq filas' /\ filas' \subseteq Celdas
  BY <1>3, <1>4, <1>5, ArticuloDe DEF TrasInv, TrasTipos, Celdas
<1>7. PICK n : n = [e EXCEPT !.paso = "ajusta"]
  OBVIOUS
<1>8. enCurso' = [enCurso EXCEPT ![q] = n]
  BY <1>1, <1>7 DEF AseguraAlAjustar
<1>9. n \in Pedidos
  BY <1>7, Zenon DEF Pedidos
<1>10. /\ n.paso = "ajusta" /\ n.items = e.items /\ n.dif = e.dif /\ n.i = e.i
       /\ n.origen = e.origen
  BY <1>7, Zenon DEF Pedidos
<1>11. Balanceado(n)'
  BY <1>4, <1>9, <1>10, FueraDeTx
<1>12. PedidoBien(n)'
  BY <1>3, <1>4, <1>10, <1>11 DEF PedidoBien, Apunta, ConFilas
<1>13. ~Decide(n)
  BY <1>10 DEF Decide
<1> QED
  BY <1>3, <1>6, <1>8, <1>9, <1>12, <1>13, SigueIgual

\* The statements of an item: two rows made sure of, two updates.
LEMMA CuatroSentencias ==
  /\ Len(Orden) = 4 /\ Orden[1] = "origen" /\ Orden[2] = "destino"
  /\ Orden[3] = "resta" /\ Orden[4] = "suma"
  BY DEF Orden

LEMMA AseguraAlCompletarConserva ==
  ASSUME TrasInv, NEW q \in Peticiones, AseguraAlCompletar(q)
  PROVE  TrasInv'
<1>1. PICK e \in Pedidos : e = enCurso[q]
  BY DEF TrasInv, TrasTipos
<1>2. PedidoBien(e)
  BY <1>1 DEF TrasInv, PedidosBien
<1>3. /\ e.paso = "item" /\ Orden[e.k] \in {"origen", "destino"} /\ solapadas' = solapadas
      /\ filas' = filas \cup {CeldaDe(e)}
      /\ enCurso' = [enCurso EXCEPT ![q] = Avanza(e)]
      /\ UNCHANGED <<existencias, traslados, movidas, ajustes>>
  BY <1>1 DEF AseguraAlCompletar, AsegurarFila
<1>4. /\ e.t \in 1 .. Len(traslados) /\ e.i \in 1 .. Len(e.items)
      /\ e.origen \in Sucursales /\ e.destino \in Sucursales
      /\ DOMAIN e.dif \subseteq filas /\ e.k \in 1 .. 4
      /\ e.k >= 2 => <<e.items[e.i].art, e.origen>> \in filas
  BY <1>2, <1>3 DEF PedidoBien, Apunta, ConFilas
<1>5. e.k = 1 \/ e.k = 2
  BY <1>3, <1>4, CuatroSentencias
<1>6. /\ e.k = 1 => CeldaDe(e) = <<e.items[e.i].art, e.origen>>
      /\ e.k = 2 => CeldaDe(e) = <<e.items[e.i].art, e.destino>>
  BY CuatroSentencias DEF CeldaDe
<1>7. filas \subseteq filas' /\ filas' \subseteq Celdas
  BY <1>3, <1>4, <1>5, <1>6, ArticuloDe DEF TrasInv, TrasTipos, Celdas
<1>8. PICK k \in {2, 3} : k = e.k + 1
  BY <1>5
<1>9. PICK n : n = [e EXCEPT !.k = k]
  OBVIOUS
<1>10. enCurso' = [enCurso EXCEPT ![q] = n]
  <2>1. e.k < Len(Orden)
    BY <1>5, CuatroSentencias
  <2>2. Avanza(e) = n
    BY <1>8, <1>9, <2>1 DEF Avanza
  <2> QED
    BY <1>3, <2>2
<1>11. n \in Pedidos
  <2>1. k \in Nat
    OBVIOUS
  <2> QED
    BY <1>9, <2>1, Zenon DEF Pedidos
<1>12. /\ n.paso = e.paso /\ n.items = e.items /\ n.dif = e.dif /\ n.i = e.i /\ n.t = e.t
       /\ n.origen = e.origen /\ n.destino = e.destino /\ n.k = k
  BY <1>9, Zenon DEF Pedidos
<1>13. Balanceado(n)'
  <2>1. k # 4 /\ e.k # 4
    BY <1>5
  <2> QED
    BY <1>2, <1>12, <2>1 DEF PedidoBien, Balanceado, EnElAire
<1>14. ConFilas(n)'
  <2>1. k >= 2 => <<n.items[n.i].art, n.origen>> \in filas'
    BY <1>3, <1>4, <1>5, <1>6, <1>12
  <2>2. k >= 3 => <<n.items[n.i].art, n.destino>> \in filas'
    BY <1>3, <1>5, <1>6, <1>8, <1>12
  <2> QED
    BY <1>3, <1>4, <1>7, <1>12, <2>1, <2>2 DEF ConFilas
<1>15. Apunta(n)'
  BY <1>3, <1>4, <1>12 DEF Apunta
<1>16. Decide(enCurso[q]) /\ n.t = enCurso[q].t
  BY <1>1, <1>3, <1>12 DEF Decide
<1>17. PedidoBien(n)'
  BY <1>13, <1>14, <1>15 DEF PedidoBien
<1> QED
  BY <1>3, <1>7, <1>10, <1>11, <1>16, <1>17, SigueIgual

\* An update of the transaction, seen on every cell.
LEMMA Anota ==
  ASSUME NEW d \in Difs, NEW b \in Articulos, NEW z \in Sucursales, NEW m \in Int
  PROVE  LET escrito == Escribe(d, <<b, z>>, m)
         IN /\ escrito \in Difs /\ DOMAIN escrito = DOMAIN d \cup {<<b, z>>}
            /\ \A a \in Articulos :
                 EnTotal(Completa(escrito), a) = EnTotal(Completa(d), a) + IF a = b THEN m ELSE 0
<1>1. PICK D \in SUBSET Celdas : d \in [D -> Int]
  BY DEF Difs
<1>2. PICK c \in Celdas : c = <<b, z>>
  BY DEF Celdas
<1>3. PICK v \in Int : v = IF c \in DOMAIN d THEN d[c] ELSE 0
  BY <1>1
<1>4. PICK g : g = Escribe(d, c, m)
  OBVIOUS
<1>5. g = [x \in D \cup {c} |-> IF x = c THEN v + m ELSE d[x]]
  BY <1>1, <1>3, <1>4 DEF Escribe
<1>6. g \in [D \cup {c} -> Int] /\ DOMAIN g = DOMAIN d \cup {c}
  BY <1>1, <1>5
<1>7. g \in Difs
  BY <1>6 DEF Difs
<1>8. PICK F \in [Celdas -> Int] : F = Completa(d)
  BY CompletaTipo
<1>9. PICK G \in [Celdas -> Int] : G = Completa(g)
  BY <1>7, CompletaTipo
<1>10. F[c] = v
  BY <1>3, <1>8 DEF Completa
<1>11. G[c] = v + m
  BY <1>5, <1>6, <1>9 DEF Completa
<1>12. \A x \in Celdas : x # c => G[x] = F[x]
  BY <1>1, <1>5, <1>8, <1>9 DEF Completa
<1>13. \A a \in Articulos : EnTotal(G, a) = EnTotal(F, a) + IF a = b THEN m ELSE 0
  <2>1. G[<<b, z>>] = F[<<b, z>>] + m /\ \A x \in Celdas : x # <<b, z>> => G[x] = F[x]
    BY <1>2, <1>10, <1>11, <1>12
  <2> HIDE <1>2, <1>8, <1>9
  <2> QED
    BY <2>1, TotalCambia
<1> QED
  BY <1>2, <1>3, <1>4, <1>6, <1>7, <1>8, <1>9, <1>13

\* Where an item's turn ends: at the next item, or at the commit.
LEMMA AvanzaA ==
  ASSUME NEW e \in Pedidos, e.paso = "item", e.k \in {3, 4}, e.i \in 1 .. Len(e.items)
  PROVE  LET n == Avanza(e) IN
         /\ n \in Pedidos /\ n.paso \in {"item", "cierra"} /\ n.dif = e.dif /\ n.t = e.t
         /\ n.items = e.items /\ n.origen = e.origen /\ n.destino = e.destino
         /\ n.i \in 1 .. Len(e.items)
         /\ e.k = 3 => n.paso = "item" /\ n.k = 4 /\ n.i = e.i
         /\ e.k = 4 => n.paso = "cierra" \/ n.k = 1
<1>1. Len(e.items) \in Nat /\ e.i \in Nat /\ e.k \in Nat
  BY CamposDe
<1>2. CASE e.k = 3
  <2>1. PICK n : n = [e EXCEPT !.k = 4]
    OBVIOUS
  <2>2. Avanza(e) = n
    BY <1>2, <2>1, CuatroSentencias DEF Avanza
  <2>3. 4 \in Nat
    OBVIOUS
  <2>4. n \in Pedidos
    BY <2>1, <2>3, Zenon DEF Pedidos
  <2>5. /\ n.paso = e.paso /\ n.dif = e.dif /\ n.t = e.t /\ n.items = e.items
        /\ n.origen = e.origen /\ n.destino = e.destino /\ n.k = 4 /\ n.i = e.i
    BY <2>1, Zenon DEF Pedidos
  <2> QED
    BY <1>2, <2>2, <2>4, <2>5
<1>3. CASE e.k = 4 /\ e.i < Len(e.items)
  <2>1. PICK i \in 1 .. Len(e.items) : i = e.i + 1
    BY <1>1, <1>3
  <2>2. PICK n : n = [e EXCEPT !.k = 1, !.i = i]
    OBVIOUS
  <2>3. Avanza(e) = n
    BY <1>3, <2>1, <2>2, CuatroSentencias DEF Avanza
  <2>4. 1 \in Nat /\ i \in Nat
    BY <1>1
  <2>5. n \in Pedidos
    BY <2>2, <2>4, Zenon DEF Pedidos
  <2>6. /\ n.paso = e.paso /\ n.dif = e.dif /\ n.t = e.t /\ n.items = e.items
        /\ n.origen = e.origen /\ n.destino = e.destino /\ n.k = 1 /\ n.i = i
    BY <2>2, Zenon DEF Pedidos
  <2> QED
    BY <1>3, <2>3, <2>5, <2>6
<1>4. CASE e.k = 4 /\ ~(e.i < Len(e.items))
  <2>1. PICK n : n = [e EXCEPT !.paso = "cierra"]
    OBVIOUS
  <2>2. Avanza(e) = n
    BY <1>4, <2>1, CuatroSentencias DEF Avanza
  <2>3. n \in Pedidos
    BY <2>1, Zenon DEF Pedidos
  <2>4. /\ n.paso = "cierra" /\ n.dif = e.dif /\ n.t = e.t /\ n.items = e.items
        /\ n.origen = e.origen /\ n.destino = e.destino /\ n.i = e.i
    BY <2>1, Zenon DEF Pedidos
  <2> QED
    BY <1>4, <2>2, <2>3, <2>4
<1> QED
  BY <1>2, <1>3, <1>4

LEMMA AjustarTxConserva ==
  ASSUME TrasInv, NEW q \in Peticiones, AjustarStockSucursalTx(q)
  PROVE  TrasInv'
<1>1. PICK e \in Pedidos : e = enCurso[q]
  BY DEF TrasInv, TrasTipos
<1>2. PedidoBien(e)
  BY <1>1 DEF TrasInv, PedidosBien
<1>3. /\ e.paso = "item" /\ Orden[e.k] \in {"resta", "suma"}
      /\ filas' = filas /\ solapadas' = solapadas
      /\ UNCHANGED <<existencias, traslados, movidas, ajustes>>
  BY <1>1 DEF AjustarStockSucursalTx
<1>4. /\ e.t \in 1 .. Len(traslados) /\ e.i \in 1 .. Len(e.items)
      /\ e.origen \in Sucursales /\ e.destino \in Sucursales
      /\ DOMAIN e.dif \subseteq filas /\ e.k \in 1 .. 4
      /\ e.k >= 3 => /\ <<e.items[e.i].art, e.origen>> \in filas
                     /\ <<e.items[e.i].art, e.destino>> \in filas
  BY <1>2, <1>3 DEF PedidoBien, Apunta, ConFilas
<1>5. e.k \in {3, 4}
  BY <1>3, <1>4, CuatroSentencias
<1>6. PICK b \in Articulos, x \in Int : b = e.items[e.i].art /\ x = e.items[e.i].n
  BY <1>4, ArticuloDe
<1>7. PICK z \in Sucursales : z = IF e.k = 3 THEN e.origen ELSE e.destino
  BY <1>4
<1>8. PICK m \in Int : m = IF e.k = 3 THEN -x ELSE x
  OBVIOUS
<1>9. CeldaDe(e) = <<b, z>> /\ <<b, z>> \in filas
  <2>1. CeldaDe(e) = <<b, z>>
    BY <1>5, <1>6, <1>7, CuatroSentencias DEF CeldaDe
  <2>2. <<b, z>> \in filas
    BY <1>4, <1>5, <1>6, <1>7
  <2> QED
    BY <2>1, <2>2
<1>10. PICK d \in Difs :
         /\ d = Escribe(e.dif, <<b, z>>, m)
         /\ DOMAIN d = DOMAIN e.dif \cup {<<b, z>>}
         /\ \A a \in Articulos :
              EnTotal(Completa(d), a) = EnTotal(Completa(e.dif), a) + IF a = b THEN m ELSE 0
  <2>1. PICK g \in Difs : g = e.dif
    BY CamposDe
  <2> QED
    BY <2>1, Anota
<1>11. PICK f : f = [e EXCEPT !.dif = d]
  OBVIOUS
<1>12. f \in Pedidos
  BY <1>11, Zenon DEF Pedidos
<1>13. /\ f.paso = e.paso /\ f.dif = d /\ f.t = e.t /\ f.items = e.items
       /\ f.origen = e.origen /\ f.destino = e.destino /\ f.i = e.i /\ f.k = e.k
  BY <1>11, Zenon DEF Pedidos
<1>14. PICK n \in Pedidos :
         /\ n = Avanza(f)
         /\ n.paso \in {"item", "cierra"} /\ n.dif = f.dif /\ n.t = f.t
         /\ n.items = f.items /\ n.origen = f.origen /\ n.destino = f.destino
         /\ n.i \in 1 .. Len(f.items)
         /\ f.k = 3 => n.paso = "item" /\ n.k = 4 /\ n.i = f.i
         /\ f.k = 4 => n.paso = "cierra" \/ n.k = 1
  BY <1>3, <1>4, <1>5, <1>12, <1>13, AvanzaA
<1>15. enCurso' = [enCurso EXCEPT ![q] = n]
  <2>1. m = IF Orden[e.k] = "resta" THEN -x ELSE x
    BY <1>5, <1>8, CuatroSentencias
  <2>2. enCurso' = [enCurso EXCEPT ![q] = Avanza([e EXCEPT !.dif = Escribe(e.dif, <<b, z>>, m)])]
    BY <1>1, <1>6, <1>9, <2>1 DEF AjustarStockSucursalTx
  <2> QED
    BY <1>10, <1>11, <1>14, <2>2
<1>16. Balanceado(n)'
  <2>1. SUFFICES ASSUME NEW a \in Articulos
                 PROVE  EnTotal(Completa(n.dif), a) = EnElAire(n, a)
    BY DEF Balanceado, EnElAire, EnTotal, Completa
  <2>2. EnTotal(Completa(e.dif), a) = EnElAire(e, a)
    BY <1>2 DEF PedidoBien, Balanceado
  <2>3. EnTotal(Completa(n.dif), a) = EnElAire(e, a) + IF a = b THEN m ELSE 0
    BY <1>10, <1>13, <1>14, <2>2
  <2>4. CASE e.k = 3
    <3>1. EnElAire(e, a) = 0
      BY <2>4 DEF EnElAire
    <3>2. EnElAire(n, a) = IF a = b THEN -x ELSE 0
      BY <1>6, <1>13, <1>14, <2>4 DEF EnElAire
    <3> QED
      BY <1>8, <2>3, <2>4, <3>1, <3>2
  <2>5. CASE e.k = 4
    <3>1. EnElAire(e, a) = IF a = b THEN -x ELSE 0
      BY <1>3, <1>6, <2>5 DEF EnElAire
    <3>2. EnElAire(n, a) = 0
      BY <1>13, <1>14, <2>5 DEF EnElAire
    <3> QED
      BY <1>8, <2>3, <2>5, <3>1, <3>2
  <2> QED
    BY <1>5, <2>4, <2>5
<1>17. ConFilas(n)'
  <2>1. DOMAIN n.dif \subseteq filas'
    BY <1>3, <1>4, <1>9, <1>10, <1>13, <1>14
  <2>2. n.paso = "item" => n.k \in {1, 4}
    BY <1>5, <1>13, <1>14
  <2>3. n.paso = "item" /\ n.k = 4 => e.k = 3 /\ n.i = e.i
    BY <1>5, <1>13, <1>14
  <2>4. n.paso = "item" /\ n.k >= 2 =>
          <<n.items[n.i].art, n.origen>> \in filas' /\ <<n.items[n.i].art, n.destino>> \in filas'
    BY <1>3, <1>4, <1>13, <1>14, <2>2, <2>3
  <2> QED
    BY <1>14, <2>1, <2>2, <2>4 DEF ConFilas
<1>18. Apunta(n)'
  BY <1>3, <1>4, <1>13, <1>14 DEF Apunta
<1>19. PedidoBien(n)' /\ filas \subseteq filas' /\ filas' \subseteq Celdas
  BY <1>3, <1>16, <1>17, <1>18 DEF PedidoBien, TrasInv, TrasTipos
<1>20. Decide(enCurso[q]) /\ n.t = enCurso[q].t
  BY <1>1, <1>3, <1>13, <1>14 DEF Decide
<1> QED
  BY <1>3, <1>15, <1>19, <1>20, SigueIgual

Decisiones == {"completada", "rechazada", "cancelada"}
PoneEstado(t, est) == traslados' = [traslados EXCEPT ![t].estado = est]

\* A decision takes effect and its request ends.
LEMMA Decidida ==
  ASSUME TrasInv, NEW q \in Peticiones, NEW t \in 1 .. Len(traslados),
         NEW est \in Decisiones,
         Decide(enCurso[q]), enCurso[q].t = t, Responde(q),
         PoneEstado(t, est), solapadas' = solapadas
  PROVE  /\ traslados' \in Seq(Traslados) /\ Len(traslados') = Len(traslados)
         /\ \A j \in 1 .. Len(traslados) :
              traslados'[j].estado = IF j = t THEN est ELSE traslados[j].estado
         /\ DecidenSolos'
         /\ t \notin solapadas => traslados[t].estado = "pendiente"
<1>1. traslados \in Seq(Traslados) /\ traslados[t] \in Traslados
  BY ElementOfSeq DEF TrasInv, TrasTipos
<1>2. PICK r \in Traslados : r = [traslados[t] EXCEPT !.estado = est]
  <2>1. [traslados[t] EXCEPT !.estado = est] \in Traslados
    BY <1>1, Zenon DEF Traslados, Decisiones
  <2> QED
    BY <2>1
<1>3. traslados' = [traslados EXCEPT ![t] = r]
  BY <1>2 DEF PoneEstado
<1>4. /\ traslados' \in Seq(Traslados) /\ Len(traslados') = Len(traslados)
      /\ \A j \in 1 .. Len(traslados) : traslados'[j] = IF j = t THEN r ELSE traslados[j]
  BY <1>1, <1>3, ExceptSeq
<1>5. r.estado = est
  BY <1>1, <1>2, Zenon DEF Traslados
<1>6. \A j \in 1 .. Len(traslados) :
        traslados'[j].estado = IF j = t THEN est ELSE traslados[j].estado
  BY <1>4, <1>5
<1>7. \A p \in Peticiones : Decide(enCurso'[p]) => p # q /\ enCurso'[p] = enCurso[p]
  BY PedidoOcioso DEF Responde, TrasInv, TrasTipos
<1>8. DecidenSolos'
  <2>1. SUFFICES ASSUME NEW j \in 1 .. Len(traslados), NEW p \in Peticiones, j \notin solapadas,
                        Decide(enCurso'[p]), enCurso'[p].t = j
                 PROVE  /\ traslados'[j].estado = "pendiente"
                        /\ \A s \in Peticiones : Decide(enCurso'[s]) /\ enCurso'[s].t = j => s = p
    BY <1>4 DEF DecidenSolos, Decide
  <2>2. p # q /\ Decide(enCurso[p]) /\ enCurso[p].t = j
    BY <1>7, <2>1
  <2>3. j # t
    BY <2>1, <2>2 DEF TrasInv, DecidenSolos
  <2>4. traslados'[j].estado = traslados[j].estado
    BY <1>6, <2>3
  <2> QED
    BY <1>7, <2>1, <2>2, <2>4 DEF TrasInv, DecidenSolos
<1>9. t \notin solapadas => traslados[t].estado = "pendiente"
  BY DEF TrasInv, DecidenSolos
<1> QED
  BY <1>4, <1>6, <1>8, <1>9

LEMMA CompletarConserva ==
  ASSUME TrasInv, NEW q \in Peticiones, CompletarTransferencia(q)
  PROVE  TrasInv'
<1>1. PICK e \in Pedidos : e = enCurso[q]
  BY DEF TrasInv, TrasTipos
<1>2. PedidoBien(e)
  BY <1>1 DEF TrasInv, PedidosBien
<1>3. /\ e.paso = "cierra" /\ Responde(q)
      /\ existencias' = [c \in Celdas |-> existencias[c] + IF c \in DOMAIN e.dif THEN e.dif[c] ELSE 0]
      /\ traslados' = [traslados EXCEPT ![e.t].estado = "completada"]
      /\ movidas' = [movidas EXCEPT ![e.t] = @ + 1]
      /\ filas' = filas /\ ajustes' = ajustes /\ solapadas' = solapadas
  BY <1>1 DEF CompletarTransferencia
<1>4. PICK t \in 1 .. Len(traslados) : t = e.t
  BY <1>2, <1>3 DEF PedidoBien, Apunta
<1>5. /\ traslados' \in Seq(Traslados) /\ Len(traslados') = Len(traslados)
      /\ \A j \in 1 .. Len(traslados) :
           traslados'[j].estado = IF j = t THEN "completada" ELSE traslados[j].estado
      /\ DecidenSolos'
      /\ t \notin solapadas => traslados[t].estado = "pendiente"
  <2>1. Decide(enCurso[q]) /\ enCurso[q].t = t /\ Responde(q) /\ solapadas' = solapadas
    BY <1>1, <1>3, <1>4 DEF Decide
  <2>2. PoneEstado(t, "completada")
    BY <1>3, <1>4 DEF PoneEstado
  <2>3. "completada" \in Decisiones
    BY DEF Decisiones
  <2> QED
    BY <2>1, <2>2, <2>3, Decidida
<1>6. enCurso' \in [Peticiones -> Pedidos] /\ PedidosBien'
  <2>1. TrasTipos /\ PedidosBien /\ Len(traslados) \in Nat
    BY LenProperties DEF TrasInv, TrasTipos
  <2>2. enCurso' = [enCurso EXCEPT ![q] = Ociosa] /\ filas \subseteq filas'
    BY <1>3 DEF Responde
  <2>3. Len(traslados') \in Nat /\ Len(traslados) <= Len(traslados')
    BY <1>5, <2>1
  <2> QED
    BY <2>1, <2>2, <2>3, PedidoOcioso, PedidosSiguen
<1>7. PICK m \in Nat : m = movidas[t] + 1
  <2>1. movidas[t] \in Nat
    BY ElementOfSeq DEF TrasInv, TrasTipos
  <2> QED
    BY <2>1
<1>8. /\ movidas' \in Seq(Nat) /\ Len(movidas') = Len(traslados')
      /\ \A j \in 1 .. Len(traslados) : movidas'[j] = IF j = t THEN m ELSE movidas[j]
  <2>1. movidas \in Seq(Nat) /\ Len(movidas) = Len(traslados)
    BY DEF TrasInv, TrasTipos
  <2>2. movidas' = [movidas EXCEPT ![t] = m]
    BY <1>3, <1>4, <1>7
  <2> QED
    BY <1>5, <2>1, <2>2, ExceptSeq
<1>9. UnaDecision'
  <2>1. SUFFICES ASSUME NEW j \in 1 .. Len(traslados), j \notin solapadas
                 PROVE  movidas'[j] = IF traslados'[j].estado = "completada" THEN 1 ELSE 0
    BY <1>3, <1>5 DEF UnaDecision
  <2>2. movidas[j] = IF traslados[j].estado = "completada" THEN 1 ELSE 0
    BY <2>1, LenProperties DEF TrasInv, TrasTipos, UnaDecision
  <2>3. CASE j = t
    BY <1>5, <1>7, <1>8, <2>1, <2>2, <2>3
  <2>4. CASE j # t
    BY <1>5, <1>8, <2>2, <2>4
  <2> QED
    BY <2>3, <2>4
<1>10. PICK f \in [Celdas -> Int], g \in [Celdas -> Int] : f = existencias /\ g = Completa(e.dif)
  BY CamposDe, CompletaTipo DEF TrasInv, TrasTipos
<1>11. PICK h \in [Celdas -> Int] : h = existencias' /\ \A c \in Celdas : h[c] = f[c] + g[c]
  <2>1. existencias' = [c \in Celdas |-> f[c] + g[c]]
    BY <1>3, <1>10 DEF Completa
  <2>2. \A c \in Celdas : f[c] + g[c] \in Int
    OBVIOUS
  <2>3. existencias' \in [Celdas -> Int] /\ \A c \in Celdas : existencias'[c] = f[c] + g[c]
    BY <2>1, <2>2
  <2> QED
    BY <2>3
<1>a. \A a \in Articulos : EnTotal(h, a) = EnTotal(f, a) + EnTotal(g, a)
  <2>1. \A c \in Celdas : h[c] = f[c] + g[c]
    BY <1>11
  <2> QED
    BY <2>1, TotalDeSuma
<1>12. TrasladosConservan'
  <2>1. SUFFICES ASSUME NEW a \in Articulos
                 PROVE  EnTotal(existencias', a) = EnTotal(Inicial, a) + ajustes[a]
    BY <1>3 DEF TrasladosConservan, EnTotal
  <2>2. EnTotal(h, a) = EnTotal(f, a) + EnTotal(g, a)
    BY <1>a
  <2>3. EnTotal(g, a) = 0
    BY <1>2, <1>3, <1>10 DEF PedidoBien, Balanceado, EnElAire
  <2>4. EnTotal(f, a) \in Int
    BY TotalDeFuncion
  <2>5. EnTotal(f, a) = EnTotal(Inicial, a) + ajustes[a]
    BY <1>10 DEF TrasInv, TrasladosConservan
  <2>6. EnTotal(h, a) = EnTotal(Inicial, a) + ajustes[a]
    BY <2>2, <2>3, <2>4, <2>5
  <2> QED
    BY <1>11, <2>6
<1>13. TrasTipos'
  BY <1>3, <1>5, <1>6, <1>8, <1>11 DEF TrasInv, TrasTipos
<1> QED
  BY <1>5, <1>6, <1>9, <1>12, <1>13 DEF TrasInv

LEMMA UpdateEstadoConserva ==
  ASSUME TrasInv, NEW q \in Peticiones, UpdateEstado(q)
  PROVE  TrasInv'
<1>1. PICK e \in Pedidos : e = enCurso[q]
  BY DEF TrasInv, TrasTipos
<1>2. PedidoBien(e)
  BY <1>1 DEF TrasInv, PedidosBien
<1>3. PICK est \in Decisiones :
        est # "completada" /\ traslados' = [traslados EXCEPT ![e.t].estado = est]
  BY <1>1 DEF UpdateEstado, Decisiones
<1>4. /\ e.paso = "estado" /\ Responde(q) /\ filas' = filas /\ solapadas' = solapadas
      /\ UNCHANGED <<existencias, movidas, ajustes>>
  BY <1>1 DEF UpdateEstado
<1>5. PICK t \in 1 .. Len(traslados) : t = e.t
  BY <1>2, <1>4 DEF PedidoBien, Apunta
<1>6. /\ traslados' \in Seq(Traslados) /\ Len(traslados') = Len(traslados)
      /\ \A j \in 1 .. Len(traslados) :
           traslados'[j].estado = IF j = t THEN est ELSE traslados[j].estado
      /\ DecidenSolos'
      /\ t \notin solapadas => traslados[t].estado = "pendiente"
  <2>1. Decide(enCurso[q]) /\ enCurso[q].t = t /\ Responde(q) /\ solapadas' = solapadas
    BY <1>1, <1>4, <1>5 DEF Decide
  <2>2. PoneEstado(t, est)
    BY <1>3, <1>5 DEF PoneEstado
  <2> QED
    BY <2>1, <2>2, Decidida
<1>7. enCurso' \in [Peticiones -> Pedidos] /\ PedidosBien'
  <2>1. TrasTipos /\ PedidosBien /\ Len(traslados) \in Nat
    BY LenProperties DEF TrasInv, TrasTipos
  <2>2. enCurso' = [enCurso EXCEPT ![q] = Ociosa] /\ filas \subseteq filas'
    BY <1>4 DEF Responde
  <2>3. Len(traslados') \in Nat /\ Len(traslados) <= Len(traslados')
    BY <1>6, <2>1
  <2> QED
    BY <2>1, <2>2, <2>3, PedidoOcioso, PedidosSiguen
<1>8. UnaDecision'
  <2>1. SUFFICES ASSUME NEW j \in 1 .. Len(traslados), j \notin solapadas
                 PROVE  movidas[j] = IF traslados'[j].estado = "completada" THEN 1 ELSE 0
    BY <1>4, <1>6 DEF UnaDecision
  <2>2. movidas[j] = IF traslados[j].estado = "completada" THEN 1 ELSE 0
    BY <2>1, LenProperties DEF TrasInv, TrasTipos, UnaDecision
  <2>3. CASE j = t
    BY <1>3, <1>6, <2>1, <2>2, <2>3
  <2>4. CASE j # t
    BY <1>6, <2>2, <2>4
  <2> QED
    BY <2>3, <2>4
<1>9. TrasladosConservan'
  BY <1>4 DEF TrasInv, TrasladosConservan, EnTotal
<1>10. TrasTipos'
  BY <1>4, <1>6, <1>7 DEF TrasInv, TrasTipos
<1> QED
  BY <1>6, <1>7, <1>8, <1>9, <1>10 DEF TrasInv

LEMMA CreaConserva ==
  ASSUME TrasInv, NEW q \in Peticiones, Crea(q)
  PROVE  TrasInv'
<1>1. PICK e \in Pedidos : e = enCurso[q]
  BY DEF TrasInv, TrasTipos
<1>2. PedidoBien(e)
  BY <1>1 DEF TrasInv, PedidosBien
<1>3. PICK r : r = [estado |-> "pendiente", origen |-> e.origen, destino |-> e.destino, items |-> e.items]
  OBVIOUS
<1>4. /\ e.paso = "crea" /\ Responde(q) /\ filas' = filas /\ solapadas' = solapadas
      /\ traslados' = Append(traslados, r) /\ movidas' = Append(movidas, 0)
      /\ UNCHANGED <<existencias, ajustes>>
  BY <1>1, <1>3 DEF Crea
<1>5. r \in Traslados /\ r.estado = "pendiente"
  <2>1. e.origen \in Sucursales /\ e.destino \in Sucursales /\ e.i \in 1 .. Len(e.items)
    BY <1>2, <1>4 DEF PedidoBien, Apunta
  <2>2. e.items \in Seq(Item) /\ Len(e.items) \in Nat
    BY CamposDe
  <2>3. e.items # <<>>
    BY <2>1, <2>2
  <2> QED
    BY <1>3, <2>1, <2>2, <2>3 DEF Traslados
<1>6. PICK n \in Nat : n = Len(traslados) /\ n = Len(movidas) /\ DOMAIN traslados = 1 .. n
  BY LenProperties DEF TrasInv, TrasTipos
<1>7. /\ traslados' \in Seq(Traslados) /\ Len(traslados') = n + 1
      /\ traslados'[n + 1] = r /\ \A j \in 1 .. n : traslados'[j] = traslados[j]
  BY <1>4, <1>5, <1>6, AppendProperties DEF TrasInv, TrasTipos
<1>8. /\ movidas' \in Seq(Nat) /\ Len(movidas') = n + 1
      /\ movidas'[n + 1] = 0 /\ \A j \in 1 .. n : movidas'[j] = movidas[j]
  BY <1>4, <1>6, AppendProperties DEF TrasInv, TrasTipos
<1>9. enCurso' \in [Peticiones -> Pedidos] /\ PedidosBien'
  <2>1. TrasTipos /\ PedidosBien
    BY DEF TrasInv
  <2>2. enCurso' = [enCurso EXCEPT ![q] = Ociosa] /\ filas \subseteq filas'
    BY <1>4 DEF Responde
  <2>3. Len(traslados') \in Nat /\ Len(traslados) <= Len(traslados')
    BY <1>6, <1>7
  <2> QED
    BY <2>1, <2>2, <2>3, PedidoOcioso, PedidosSiguen
<1>10. DecidenSolos'
  <2>1. \A p \in Peticiones : Decide(enCurso'[p]) => enCurso'[p] = enCurso[p] /\ enCurso[p].t \in 1 .. n
    <3>1. \A p \in Peticiones : Decide(enCurso[p]) => enCurso[p].t \in 1 .. n
      BY <1>6 DEF TrasInv, PedidosBien, PedidoBien, Apunta, Decide
    <3>2. \A p \in Peticiones : Decide(enCurso'[p]) => enCurso'[p] = enCurso[p]
      BY <1>4, PedidoOcioso DEF Responde, TrasInv, TrasTipos
    <3> QED
      BY <3>1, <3>2
  <2>2. SUFFICES ASSUME NEW j \in 1 .. n + 1, NEW p \in Peticiones, j \notin solapadas,
                        Decide(enCurso'[p]), enCurso'[p].t = j
                 PROVE  /\ traslados'[j].estado = "pendiente"
                        /\ \A s \in Peticiones : Decide(enCurso'[s]) /\ enCurso'[s].t = j => s = p
    BY <1>4, <1>7 DEF DecidenSolos, Decide
  <2>3. j \in 1 .. n /\ Decide(enCurso[p]) /\ enCurso[p].t = j
    BY <2>1, <2>2
  <2>4. traslados'[j] = traslados[j]
    BY <1>7, <2>3
  <2> QED
    BY <1>6, <2>1, <2>2, <2>3, <2>4 DEF TrasInv, DecidenSolos
<1>11. UnaDecision'
  <2>1. SUFFICES ASSUME NEW j \in 1 .. n + 1, j \notin solapadas
                 PROVE  movidas'[j] = IF traslados'[j].estado = "completada" THEN 1 ELSE 0
    <3>1. DOMAIN traslados' = 1 .. n + 1
      BY <1>7
    <3> QED
      BY <1>4, <3>1 DEF UnaDecision
  <2>2. CASE j = n + 1
    BY <1>5, <1>7, <1>8, <2>2
  <2>3. CASE j # n + 1
    <3>1. j \in 1 .. n
      BY <2>3
    <3>2. movidas[j] = IF traslados[j].estado = "completada" THEN 1 ELSE 0
      BY <1>6, <2>1, <3>1 DEF TrasInv, UnaDecision
    <3> QED
      BY <1>7, <1>8, <3>1, <3>2
  <2> QED
    BY <2>2, <2>3
<1>12. TrasladosConservan'
  BY <1>4 DEF TrasInv, TrasladosConservan, EnTotal
<1>13. TrasTipos'
  BY <1>4, <1>7, <1>8, <1>9 DEF TrasInv, TrasTipos
<1> QED
  BY <1>9, <1>10, <1>11, <1>12, <1>13 DEF TrasInv

LEMMA AjustarConserva ==
  ASSUME TrasInv, NEW q \in Peticiones, AjustarStockSucursal(q)
  PROVE  TrasInv'
<1>1. PICK e \in Pedidos : e = enCurso[q]
  BY DEF TrasInv, TrasTipos
<1>2. PedidoBien(e)
  BY <1>1 DEF TrasInv, PedidosBien
<1>3. e.paso = "ajusta"
  BY <1>1 DEF AjustarStockSucursal
<1>4. /\ e.origen \in Sucursales /\ e.i \in 1 .. Len(e.items)
      /\ <<e.items[1].art, e.origen>> \in filas
  BY <1>2, <1>3 DEF PedidoBien, Apunta, ConFilas
<1>5. 1 \in 1 .. Len(e.items)
  BY <1>4, CamposDe
<1>6. PICK b \in Articulos, m \in Int, z \in Sucursales :
        b = e.items[1].art /\ m = e.items[1].n /\ z = e.origen
  BY <1>4, <1>5, ArticuloDe
<1>7. <<b, z>> \in filas /\ <<b, z>> \in Celdas
  BY <1>4, <1>6 DEF Celdas
<1>8. /\ Responde(q) /\ filas' = filas /\ solapadas' = solapadas
      /\ existencias' = [existencias EXCEPT ![<<b, z>>] = @ + m]
      /\ ajustes' = [ajustes EXCEPT ![b] = @ + m]
      /\ UNCHANGED <<traslados, movidas>>
  BY <1>1, <1>6, <1>7 DEF AjustarStockSucursal
<1>9. PICK f \in [Celdas -> Int] : f = existencias
  BY DEF TrasInv, TrasTipos
<1>10. /\ existencias' \in [Celdas -> Int]
       /\ existencias'[<<b, z>>] = f[<<b, z>>] + m
       /\ \A c \in Celdas : c # <<b, z>> => existencias'[c] = f[c]
  <2>1. PICK c \in Celdas : c = <<b, z>>
    BY <1>7
  <2>2. PICK v \in Int : v = f[c] + m
    OBVIOUS
  <2>3. existencias' = [f EXCEPT ![c] = v]
    BY <1>8, <1>9, <2>1, <2>2
  <2> QED
    BY <2>1, <2>2, <2>3
<1>11. PICK g \in [Celdas -> Int] :
         /\ g = existencias' /\ g[<<b, z>>] = f[<<b, z>>] + m
         /\ \A c \in Celdas : c # <<b, z>> => g[c] = f[c]
  BY <1>10
<1>12. \A a \in Articulos : EnTotal(g, a) = EnTotal(f, a) + IF a = b THEN m ELSE 0
  <2>1. g[<<b, z>>] = f[<<b, z>>] + m /\ \A c \in Celdas : c # <<b, z>> => g[c] = f[c]
    BY <1>11
  <2> QED
    BY <2>1, TotalCambia
<1>13. ajustes' \in [Articulos -> Int] /\ \A a \in Articulos : ajustes'[a] = ajustes[a] + IF a = b THEN m ELSE 0
  BY <1>8 DEF TrasInv, TrasTipos
<1>14. TrasladosConservan'
  <2>1. SUFFICES ASSUME NEW a \in Articulos
                 PROVE  EnTotal(existencias', a) = EnTotal(Inicial, a) + ajustes'[a]
    BY DEF TrasladosConservan, EnTotal
  <2>2. EnTotal(f, a) = EnTotal(Inicial, a) + ajustes[a]
    BY <1>9 DEF TrasInv, TrasladosConservan
  <2>3. PICK k0 \in Int, t0 \in Int : k0 = ajustes[a] /\ t0 = EnTotal(Inicial, a)
    <3>1. Inicial \in [Celdas -> Int]
      BY TransferenciasAssumption DEF Inicial
    <3>2. EnTotal(Inicial, a) \in Int
      BY <3>1, TotalDeFuncion
    <3> QED
      BY <3>2 DEF TrasInv, TrasTipos
  <2>4. EnTotal(g, a) = EnTotal(f, a) + IF a = b THEN m ELSE 0
    BY <1>12
  <2>5. ajustes'[a] = k0 + IF a = b THEN m ELSE 0
    BY <1>13, <2>3
  <2>6. EnTotal(g, a) = t0 + ajustes'[a]
    BY <2>2, <2>3, <2>4, <2>5
  <2> QED
    BY <1>11, <2>3, <2>6
<1>15. enCurso' \in [Peticiones -> Pedidos] /\ PedidosBien'
  <2>1. TrasTipos /\ PedidosBien
    BY DEF TrasInv
  <2>2. enCurso' = [enCurso EXCEPT ![q] = Ociosa] /\ filas \subseteq filas'
    BY <1>8 DEF Responde
  <2>3. Len(traslados') \in Nat /\ Len(traslados) <= Len(traslados')
    BY <1>8, LenProperties DEF TrasInv, TrasTipos
  <2> QED
    BY <2>1, <2>2, <2>3, PedidoOcioso, PedidosSiguen
<1>16. DecidenSolos'
  <2>1. enCurso' = [enCurso EXCEPT ![q] = Ociosa] /\ traslados' = traslados /\ solapadas \subseteq solapadas'
    BY <1>8 DEF Responde
  <2> QED
    BY <2>1, PedidoOcioso, DecisionSigue DEF TrasInv
<1>17. UnaDecision'
  BY <1>8 DEF TrasInv, UnaDecision
<1>18. TrasTipos'
  BY <1>8, <1>10, <1>13, <1>15 DEF TrasInv, TrasTipos
<1> QED
  BY <1>14, <1>15, <1>16, <1>17, <1>18 DEF TrasInv

LEMMA TrasPaso == TrasInv /\ [TrasNext]_trasVars => TrasInv'
<1> SUFFICES ASSUME TrasInv, [TrasNext]_trasVars PROVE TrasInv'
  OBVIOUS
<1>1. CASE UNCHANGED trasVars
  BY <1>1 DEF trasVars, TrasInv, TrasTipos, PedidosBien, PedidoBien, Apunta, ConFilas, Balanceado,
              EnElAire, DecidenSolos, Decide, TrasladosConservan, UnaDecision
<1>2. CASE TrasNext
  <2>1. PICK q \in Peticiones : Recibe(q) \/ Avance(q) \/ Vence(q)
    BY <1>2 DEF TrasNext
  <2>2. CASE Vence(q)
    <3>1. /\ Responde(q) /\ filas \subseteq filas' /\ filas' \subseteq Celdas /\ solapadas \subseteq solapadas'
          /\ UNCHANGED <<existencias, traslados, movidas, ajustes>>
      BY <2>2 DEF Vence, TrasInv, TrasTipos
    <3> QED
      BY <3>1, RespondeConserva
  <2>3. CASE Avance(q)
    BY <2>3, BuscarConserva, AseguraAlCrearConserva, CreaConserva, AseguraAlCompletarConserva,
       AjustarTxConserva, CompletarConserva, UpdateEstadoConserva, AseguraAlAjustarConserva,
       AjustarConserva DEF Avance
  <2> QED
    BY <2>1, <2>2, <2>3, RecibeConserva
<1> QED
  BY <1>1, <1>2

LEMMA TrasInicio == TrasInit => TrasInv
<1> SUFFICES ASSUME TrasInit PROVE TrasInv
  OBVIOUS
<1>1. PICK o \in Sucursales, d \in Sucursales, l \in Surtidos :
        traslados = <<[estado |-> "pendiente", origen |-> o, destino |-> d, items |-> l]>>
  BY DEF TrasInit
<1>2. PICK r \in Traslados : traslados = <<r>> /\ r.estado = "pendiente"
  <2>1. l \in Seq(Item) \ {<<>>}
    BY ListaTipada
  <2>2. [estado |-> "pendiente", origen |-> o, destino |-> d, items |-> l] \in Traslados
    BY <2>1 DEF Traslados
  <2> QED
    BY <1>1, <2>2
<1>3. /\ existencias = Inicial /\ filas = Celdas \ Ausentes
      /\ enCurso = [q \in Peticiones |-> Ociosa] /\ movidas = <<0>>
      /\ ajustes = [a \in Articulos |-> 0] /\ solapadas = {}
  BY DEF TrasInit
<1>4. Inicial \in [Celdas -> Int]
  BY TransferenciasAssumption DEF Inicial
<1>5. /\ traslados \in Seq(Traslados) /\ Len(traslados) = 1 /\ traslados[1] = r
      /\ movidas \in Seq(Nat) /\ Len(movidas) = 1 /\ movidas[1] = 0
  BY <1>2, <1>3
<1>6. enCurso \in [Peticiones -> Pedidos] /\ \A q \in Peticiones : enCurso[q] = Ociosa
  BY <1>3, PedidoOcioso
<1>7. TrasTipos
  BY <1>3, <1>4, <1>5, <1>6 DEF TrasTipos
<1>8. PedidosBien /\ DecidenSolos
  BY <1>6, PedidoOcioso DEF PedidosBien, DecidenSolos
<1>9. TrasladosConservan
  <2>1. SUFFICES ASSUME NEW a \in Articulos
                 PROVE  EnTotal(existencias, a) = EnTotal(Inicial, a) + ajustes[a]
    BY DEF TrasladosConservan
  <2>2. EnTotal(Inicial, a) \in Int
    BY <1>4, TotalDeFuncion
  <2>3. ajustes[a] = 0 /\ EnTotal(existencias, a) = EnTotal(Inicial, a)
    BY <1>3
  <2> QED
    BY <2>2, <2>3
<1>10. UnaDecision
  <2>1. DOMAIN traslados = {1}
    BY <1>5
  <2> QED
    BY <1>2, <1>5, <2>1 DEF UnaDecision
<1> QED
  BY <1>7, <1>8, <1>9, <1>10 DEF TrasInv

LEMMA TrasInvariante == ServiciosSpec => []TrasInv
<1>1. ServiciosInit => TrasInv
  BY TrasInicio DEF ServiciosInit
<1>2. TrasInv /\ [ServiciosNext]_serviciosVars => TrasInv'
  <2>1. [ServiciosNext]_serviciosVars => [TrasNext]_trasVars
    BY DEF ServiciosNext, serviciosVars
  <2> QED
    BY <2>1, TrasPaso
<1> QED
  BY <1>1, <1>2, PTL DEF ServiciosSpec

(* Whatever the requests on stock interleave, and wherever a deadline or a  *)
(* lost connection cuts one short, no unit is created or lost: the branches *)
(* together hold what they held at first and what the manual adjustments    *)
(* added, and only open transactions hold locks, on rows that exist         *)
(* (CompletarTransferencia, AjustarStockSucursalTx, GetOrCreateStock).      *)
THEOREM TrasladosEnOrden == ServiciosSpec => []TrasladosCuadran
<1>1. TrasInv => TrasladosCuadran
  <2> SUFFICES ASSUME TrasInv PROVE TrasladosCuadran
    OBVIOUS
  <2>1. ASSUME NEW j \in DOMAIN traslados
        PROVE  traslados[j].estado \in {"pendiente", "completada", "rechazada", "cancelada"}
    <3>1. traslados[j] \in Traslados
      BY <2>1, ElementOfSeq, LenProperties DEF TrasInv, TrasTipos
    <3> QED
      BY <3>1 DEF Traslados
  <2>2. ASSUME NEW q \in Peticiones
        PROVE  Bloquea(q) \subseteq filas /\ (Bloquea(q) # {} => EnTx(q))
    <3>1. ConFilas(enCurso[q])
      BY <2>2 DEF TrasInv, PedidosBien, PedidoBien
    <3> QED
      BY <3>1 DEF ConFilas, Bloquea, EnTx
  <2>3. TrasTypeOK
    BY <2>1, <2>2 DEF TrasTypeOK, TrasInv, TrasTipos
  <2> QED
    BY <2>3 DEF TrasladosCuadran, TrasInv
<1> QED
  BY <1>1, TrasInvariante, PTL

(* A transfer that two requests never decided on at once has moved its      *)
(* stock exactly once if it is completada, and never otherwise: the check   *)
(* of estado before the transaction is enough when requests on the same     *)
(* transfer do not overlap (CompletarTransferencia, RechazarTransferencia,  *)
(* CancelarTransferencia).                                                  *)
THEOREM UnaSolaDecision == ServiciosSpec => []UnaDecision
<1>1. TrasInv => UnaDecision
  BY DEF TrasInv
<1> QED
  BY <1>1, TrasInvariante, PTL
=============================================================================
