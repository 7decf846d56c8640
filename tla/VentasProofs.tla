---------------------------- MODULE VentasProofs ----------------------------
(***************************************************************************)
(* Sales, for every number of requests, products, carts and links.         *)
(*                                                                         *)
(* Three arguments: the unique index on offline_id keeps offline sales     *)
(* single; the row locks that the re-validation takes keep what it found   *)
(* true until the commit; and what a transaction has written is worth the  *)
(* lines it has gone through, so each commit keeps both books of stock.    *)
(***************************************************************************)
EXTENDS Ventas, SumTheorems

Op == [tipo : TiposDeRequest, items : Seq(Lineas), off : OfflineIds \cup {SinId},
       valida : BOOLEAN, venta : Nat, suc : BOOLEAN]

VentaFila == [items : Seq(Lineas), off : OfflineIds \cup {SinId}, tipo : TiposDeRequest,
              conflicto : BOOLEAN, estado : {"completada", "anulada"}, restauraciones : Nat,
              factura : {"ninguna", "cola", "pendiente"}]

Cambios == [p : Productos, d : Int]

(* Types, but for the columns that only the books use (LibrosInv). *)
TiposInv ==
  /\ stock \in [Productos -> Int]
  /\ ventas \in Seq(VentaFila)
  /\ lock \in [Productos -> Requests \cup {Nadie}]
  /\ pc \in [Requests -> Pcs]
  /\ op \in [Requests -> Op]
  /\ conflicto \in [Requests -> BOOLEAN]
  /\ k \in [Requests -> Nat \ {0}]
  /\ plan \in [Requests -> Seq(Cambios)]
  /\ delta \in [Requests -> [Productos -> Int]]
  /\ \A r \in Requests : op[r].tipo = "anular" => op[r].venta \in DOMAIN ventas
  /\ \A r \in Requests : pc[r] = "encolar" => op[r].venta \in DOMAIN ventas
  /\ \A r \in Requests : op[r].tipo = "desarme" =>
       1 \in DOMAIN op[r].items /\ op[r].items[1].p \in DOMAIN Vinculo

EnTx == {"bloqueo", "insertar", "escritura"}

(* Outside a transaction nothing of one is left. *)
FueraDeTx(r) ==
  pc[r] \notin EnTx => k[r] = 1 /\ plan[r] = << >> /\ delta[r] = SinDelta

(* An uncommitted change is covered by the row lock. *)
CambioBloqueado(r) == \A p \in Productos : delta[r][p] # 0 => lock[p] = r

(* What the unique index on offline_id sees. *)
IndiceInv ==
  /\ OfflineUnico
  /\ \A r \in Requests : op[r].tipo \in {"anular", "desarme"} => op[r].off = SinId
  /\ \A r \in Requests : pc[r] = "escritura" /\ op[r].off # SinId => ~Registrada(op[r].off)
  /\ \A r, s \in Requests :
       r # s /\ pc[r] = "escritura" /\ pc[s] = "escritura" /\ op[r].off = op[s].off
       => op[r].off = SinId

Linea(r, i) == op[r].items[i]

(* Line i has been re-validated: r holds its row and there is enough. *)
Protegida(r, i) == lock[Linea(r, i).p] = r /\ stock[Linea(r, i).p] >= Linea(r, i).c

(* The item loop of the transaction: each line it has gone through took its *)
(* quantity, the last one may still be about to.                            *)
Escribiendo(r) ==
  /\ \A p \in Productos : delta[r][p] # 0 =>
       \E i \in DOMAIN op[r].items :
         i < k[r] /\ Linea(r, i).p = p /\ delta[r][p] = -Linea(r, i).c
  /\ \/ plan[r] = << >>
     \/ \E i \in DOMAIN op[r].items :
          /\ k[r] = i + 1
          /\ plan[r] = <<[p |-> Linea(r, i).p, d |-> -Linea(r, i).c]>>
          /\ delta[r][Linea(r, i).p] = 0

(* The transaction of an online sale whose lines name different products. *)
Revalidada(r) ==
  op[r].tipo = "online" /\ Distintas(op[r].items) =>
    /\ pc[r] = "bloqueo" =>
         k[r] \in DOMAIN op[r].items /\ \A i \in DOMAIN op[r].items : i < k[r] => Protegida(r, i)
    /\ pc[r] \in {"insertar", "escritura"} => \A i \in DOMAIN op[r].items : Protegida(r, i)
    /\ pc[r] = "insertar" => k[r] = 1
    /\ pc[r] \in {"bloqueo", "insertar"} => plan[r] = << >> /\ delta[r] = SinDelta
    /\ pc[r] = "escritura" => Escribiendo(r)

(* A sale that has been received carries lines. *)
ConLineas(r) == pc[r] # "libre" /\ EsVenta(op[r]) => op[r].items # << >>

Propia(r) == FueraDeTx(r) /\ CambioBloqueado(r) /\ Revalidada(r) /\ ConLineas(r)

IInv == TiposInv /\ IndiceInv /\ \A r \in Requests : Propia(r)

-----------------------------------------------------------------------------
(* Frames: what a step of r leaves to the others *)

(* r is the only request whose own variables the step changes. *)
SoloMueve(r) ==
  \A q \in Requests \ {r} :
    pc'[q] = pc[q] /\ op'[q] = op[q] /\ k'[q] = k[q] /\ plan'[q] = plan[q] /\ delta'[q] = delta[q]

(* The step neither takes a row from its holder nor changes its stock. *)
RespetaLocks(r) ==
  \A q \in Requests \ {r}, p \in Productos :
    lock[p] = q => lock'[p] = q /\ stock'[p] = stock[p]

LEMMA AjenaConserva ==
  ASSUME TiposInv, NEW r \in Requests, NEW q \in Requests, q # r, Propia(q),
         SoloMueve(r), RespetaLocks(r)
  PROVE  Propia(q)'
<1>1. /\ pc'[q] = pc[q] /\ op'[q] = op[q] /\ k'[q] = k[q] /\ plan'[q] = plan[q]
      /\ delta'[q] = delta[q]
  BY DEF SoloMueve
<1>2. FueraDeTx(q)' /\ ConLineas(q)'
  BY <1>1 DEF Propia, FueraDeTx, SinDelta, ConLineas
<1>3. CambioBloqueado(q)'
  BY <1>1 DEF Propia, CambioBloqueado, RespetaLocks
<1>4. \A i \in DOMAIN op[q].items : Linea(q, i)' = Linea(q, i) /\ Linea(q, i) \in Lineas
  BY <1>1 DEF Linea, TiposInv, Op
<1>5. \A i \in DOMAIN op[q].items : Protegida(q, i) => Protegida(q, i)'
  BY <1>4 DEF Protegida, RespetaLocks, Lineas
<1>6. Escribiendo(q) => Escribiendo(q)'
  BY <1>1 DEF Escribiendo, Linea
<1>7. Revalidada(q)'
  BY <1>1, <1>5, <1>6 DEF Propia, Revalidada, Distintas, SinDelta
<1> QED
  BY <1>2, <1>3, <1>7 DEF Propia

(* The conclusion of each action's proof. *)
LEMMA PasoDeUna ==
  ASSUME IInv, NEW r \in Requests, TiposInv', IndiceInv', Propia(r)', SoloMueve(r), RespetaLocks(r)
  PROVE  IInv'
  BY AjenaConserva DEF IInv

LEMMA LineaTipada ==
  ASSUME TiposInv, NEW r \in Requests, NEW i \in DOMAIN op[r].items
  PROVE  /\ Linea(r, i) \in Lineas
         /\ Linea(r, i).p \in Productos /\ Linea(r, i).c \in Nat \ {0}
<1>1. op[r].items \in Seq(Lineas)
  BY DEF TiposInv, Op
<1>2. Linea(r, i) \in Lineas
  BY <1>1 DEF Linea
<1> QED
  BY <1>2 DEF Lineas

(* The index, when no row of ventas is added. *)
LEMMA IndiceConserva ==
  ASSUME IndiceInv, NEW r \in Requests, SoloMueve(r),
         DOMAIN ventas' = DOMAIN ventas, \A i \in DOMAIN ventas : ventas'[i].off = ventas[i].off,
         op'[r].tipo \in {"anular", "desarme"} => op'[r].off = SinId,
         pc'[r] = "escritura" =>
           \/ op'[r].off = SinId
           \/ /\ ~Registrada(op'[r].off)
              /\ \A q \in Requests \ {r} : pc[q] = "escritura" => op[q].off # op'[r].off
  PROVE  IndiceInv'
<1>1. OfflineUnico'
  BY DEF IndiceInv, OfflineUnico
<1>2. \A q \in Requests : op'[q].tipo \in {"anular", "desarme"} => op'[q].off = SinId
  BY DEF IndiceInv, SoloMueve
<1>3. ASSUME NEW q \in Requests, pc'[q] = "escritura", op'[q].off # SinId
      PROVE  ~Registrada(op[q].off)'
  BY <1>3 DEF IndiceInv, SoloMueve, Registrada
<1>4. ASSUME NEW q \in Requests, NEW s \in Requests, q # s, pc'[q] = "escritura",
             pc'[s] = "escritura", op'[q].off = op'[s].off
      PROVE  op'[q].off = SinId
  BY <1>4 DEF IndiceInv, SoloMueve
<1> QED
  BY <1>1, <1>2, <1>3, <1>4 DEF IndiceInv

-----------------------------------------------------------------------------
(* Answers: the request ends and its transaction rolls back *)

LEMMA SinOpTipada == SinOp \in Op /\ SinOp.off = SinId /\ SinOp.tipo = "online" /\ SinOp.items = << >>
  BY DEF SinOp, Op, TiposDeRequest

LEMMA ResponderConserva ==
  ASSUME IInv, NEW r \in Requests, Responder(r)
  PROVE  IInv'
<1>1. /\ pc'[r] = "libre" /\ op'[r] = SinOp /\ k'[r] = 1 /\ plan'[r] = << >> /\ delta'[r] = SinDelta
      /\ UNCHANGED <<stock, ventas>>
  BY DEF Responder, Olvida, LimpiaTx, dbVars, IInv, TiposInv
<1>2. SoloMueve(r)
  BY DEF Responder, Olvida, LimpiaTx, IInv, TiposInv, SoloMueve
<1>3. RespetaLocks(r)
  BY <1>1 DEF Responder, Suelta, RespetaLocks
<1>4. SinDelta \in [Productos -> Int]
  BY DEF SinDelta
<1>5. TiposInv'
  <2>1. lock' \in [Productos -> Requests \cup {Nadie}]
    BY DEF Responder, Suelta, IInv, TiposInv
  <2>2. /\ pc' \in [Requests -> Pcs] /\ op' \in [Requests -> Op] /\ conflicto' \in [Requests -> BOOLEAN]
    BY SinOpTipada DEF Responder, Olvida, IInv, TiposInv, Pcs
  <2>3. /\ k' \in [Requests -> Nat \ {0}] /\ delta' \in [Requests -> [Productos -> Int]]
    BY <1>4 DEF Responder, LimpiaTx, IInv, TiposInv
  <2>4. plan' \in [Requests -> Seq(Cambios)]
    BY DEF Responder, LimpiaTx, IInv, TiposInv
  <2> QED
    BY <1>1, <1>2, <2>1, <2>2, <2>3, <2>4, SinOpTipada DEF IInv, TiposInv, SoloMueve
<1>6. IndiceInv'
  BY <1>1, <1>2, SinOpTipada, IndiceConserva DEF IInv
<1>7. Propia(r)'
  BY <1>1 DEF Propia, FueraDeTx, CambioBloqueado, Revalidada, ConLineas, EnTx, SinDelta
<1> QED
  BY <1>2, <1>3, <1>5, <1>6, <1>7, PasoDeUna

-----------------------------------------------------------------------------
(* Checks that let r pass *)

LEMMA AvanceConserva ==
  ASSUME IInv, NEW r \in Requests, NEW donde \in Pcs \ {"encolar"}, pc' = [pc EXCEPT ![r] = donde],
         UNCHANGED <<stock, ventas, lock, op, k, plan, delta>>,
         conflicto' \in [Requests -> BOOLEAN],
         donde = "escritura" =>
           \/ op[r].off = SinId
           \/ /\ ~Registrada(op[r].off)
              /\ \A q \in Requests \ {r} : pc[q] = "escritura" => op[q].off # op[r].off,
         Propia(r)'
  PROVE  IInv'
<1>1. SoloMueve(r) /\ RespetaLocks(r) /\ pc'[r] = donde
  BY DEF SoloMueve, RespetaLocks, IInv, TiposInv
<1>2. TiposInv'
  BY DEF IInv, TiposInv
<1>3. IndiceInv'
  BY <1>1, IndiceConserva DEF IInv, IndiceInv
<1> QED
  BY <1>1, <1>2, <1>3, PasoDeUna

LEMMA RevisionConserva ==
  ASSUME IInv, NEW r \in Requests, FiltrarDuplicados(r) \/ RevisarSesion(r)
  PROVE  IInv'
<1>1. CASE Responder(r)
  BY <1>1, ResponderConserva
<1>2. ASSUME NEW donde \in {"sesion", "lineas"}, pc[r] \in {"recibida", "sesion"},
             Avanza(r, donde), UNCHANGED <<lock, txVars, conflicto>>
      PROVE  IInv'
  <2>1. /\ pc' = [pc EXCEPT ![r] = donde] /\ pc'[r] = donde
        /\ UNCHANGED <<stock, ventas, lock, op, k, plan, delta, conflicto>>
    BY <1>2 DEF Avanza, dbVars, txVars, IInv, TiposInv
  <2>2. Propia(r)'
    BY <1>2, <2>1 DEF IInv, Propia, FueraDeTx, EnTx, CambioBloqueado, Revalidada, ConLineas, SinDelta, EsVenta
  <2>3. conflicto' \in [Requests -> BOOLEAN]
    BY <2>1 DEF IInv, TiposInv
  <2> QED
    BY <1>2, <2>1, <2>2, <2>3, AvanceConserva DEF Pcs
<1> QED
  BY <1>1, <1>2 DEF FiltrarDuplicados, RevisarSesion

LEMMA LineasConserva ==
  ASSUME IInv, NEW r \in Requests, RevisarLineas(r)
  PROVE  IInv'
<1>1. CASE Responder(r)
  BY <1>1, ResponderConserva
<1>2. ASSUME NEW c \in BOOLEAN, conflicto' = [conflicto EXCEPT ![r] = c],
             Avanza(r, IF op[r].tipo = "online" THEN "bloqueo" ELSE "insertar"),
             UNCHANGED <<lock, txVars>>, pc[r] = "lineas"
      PROVE  IInv'
  <2> DEFINE donde == IF op[r].tipo = "online" THEN "bloqueo" ELSE "insertar"
  <2>1. /\ pc' = [pc EXCEPT ![r] = donde] /\ pc'[r] = donde
        /\ UNCHANGED <<stock, ventas, lock, op, k, plan, delta>>
    BY <1>2 DEF Avanza, dbVars, txVars, IInv, TiposInv
  <2>2. k[r] = 1 /\ plan[r] = << >> /\ delta[r] = SinDelta
    BY <1>2 DEF IInv, Propia, FueraDeTx, EnTx
  <2>3. op[r].tipo = "online" => 1 \in DOMAIN op[r].items
    BY <1>2 DEF IInv, TiposInv, Op, Propia, ConLineas, EsVenta
  <2>4. op[r].items \in Seq(Lineas)
    BY DEF IInv, TiposInv, Op
  <2>5. Revalidada(r)'
    BY <2>1, <2>2, <2>3, <2>4 DEF Revalidada, SinDelta
  <2>6. Propia(r)'
    BY <1>2, <2>1, <2>5 DEF IInv, Propia, FueraDeTx, EnTx, CambioBloqueado, ConLineas, EsVenta
  <2>7. conflicto' \in [Requests -> BOOLEAN]
    BY <1>2 DEF IInv, TiposInv
  <2> QED
    BY <2>1, <2>6, <2>7, AvanceConserva DEF Pcs
<1> QED
  BY <1>1, <1>2 DEF RevisarLineas

(* INSERT of the sale: what the unique index lets through is new. *)
LEMMA InsertarConserva ==
  ASSUME IInv, NEW r \in Requests, Insertar(r)
  PROVE  IInv'
<1>1. CASE Responder(r)
  BY <1>1, ResponderConserva
<1>2. CASE /\ op[r].off = SinId \/ ~Registrada(op[r].off)
           /\ Avanza(r, "escritura") /\ UNCHANGED <<lock, txVars, conflicto>>
  <2>1. /\ pc' = [pc EXCEPT ![r] = "escritura"] /\ pc'[r] = "escritura" /\ pc[r] = "insertar"
        /\ UNCHANGED <<stock, ventas, lock, op, k, plan, delta, conflicto>>
    BY <1>2 DEF Insertar, Avanza, dbVars, txVars, IInv, TiposInv
  <2>2. \/ op[r].off = SinId
        \/ /\ ~Registrada(op[r].off)
           /\ \A q \in Requests \ {r} : pc[q] = "escritura" => op[q].off # op[r].off
    BY <1>2 DEF Insertar, EsperaIndice
  <2>3. delta[r] = SinDelta => \A p \in Productos : delta[r][p] = 0
    BY DEF SinDelta
  <2>4. Revalidada(r)'
    BY <2>1, <2>3 DEF IInv, Propia, Revalidada, Protegida, Linea, Escribiendo, SinDelta
  <2>5. Propia(r)'
    BY <2>1, <2>4 DEF IInv, Propia, FueraDeTx, EnTx, CambioBloqueado, ConLineas, EsVenta
  <2>6. conflicto' \in [Requests -> BOOLEAN]
    BY <2>1 DEF IInv, TiposInv
  <2> QED
    BY <2>1, <2>2, <2>5, <2>6, AvanceConserva DEF Pcs
<1> QED
  BY <1>1, <1>2 DEF Insertar

-----------------------------------------------------------------------------
(* Row locks and stock inside the transaction *)

LEMMA BloqueoConserva ==
  ASSUME IInv, NEW r \in Requests, BloquearLinea(r)
  PROVE  IInv'
<1> DEFINE l == op[r].items[k[r]]
           ultima == k[r] = Len(op[r].items)
<1>1. CASE Responder(r)
  BY <1>1, ResponderConserva
<1>2. CASE /\ stock[l.p] >= l.c
           /\ lock' = [lock EXCEPT ![l.p] = r]
           /\ k' = [k EXCEPT ![r] = IF ultima THEN 1 ELSE k[r] + 1]
           /\ pc' = [pc EXCEPT ![r] = IF ultima THEN "insertar" ELSE "bloqueo"]
           /\ UNCHANGED <<dbVars, sesion, recibidas, reqVars, plan, delta>>
  <2>1. pc[r] = "bloqueo" /\ lock[l.p] \in {Nadie, r}
    BY DEF BloquearLinea, Puede
  <2>2. UNCHANGED <<stock, ventas, op, conflicto, plan, delta>>
    BY <1>2 DEF dbVars, reqVars
  <2>3. /\ k'[r] = (IF ultima THEN 1 ELSE k[r] + 1)
        /\ pc'[r] = (IF ultima THEN "insertar" ELSE "bloqueo")
        /\ SoloMueve(r)
    BY <1>2, <2>2 DEF IInv, TiposInv, SoloMueve
  <2>4. /\ \A p \in Productos : lock'[p] = IF p = l.p THEN r ELSE lock[p]
        /\ RespetaLocks(r)
    BY <1>2, <2>1, <2>2, VentasAssumption DEF IInv, TiposInv, RespetaLocks
  <2>5. TiposInv'
    <3>1. k' \in [Requests -> Nat \ {0}] /\ pc' \in [Requests -> Pcs]
      BY <1>2 DEF IInv, TiposInv, Pcs
    <3>2. lock' \in [Productos -> Requests \cup {Nadie}]
      BY <1>2 DEF IInv, TiposInv
    <3>3. \A q \in Requests : pc'[q] = "encolar" => pc[q] = "encolar"
      BY <2>3 DEF SoloMueve
    <3> QED
      BY <2>2, <3>1, <3>2, <3>3 DEF IInv, TiposInv
  <2>6. IndiceInv'
    BY <2>2, <2>3, IndiceConserva DEF IInv, IndiceInv
  <2>7. Revalidada(r)'
    <3> SUFFICES ASSUME op[r].tipo = "online", Distintas(op[r].items) PROVE Revalidada(r)'
      BY <2>2 DEF Revalidada, Distintas
    <3>1. /\ k[r] \in DOMAIN op[r].items
          /\ \A i \in DOMAIN op[r].items : i < k[r] => Protegida(r, i)
          /\ plan[r] = << >> /\ delta[r] = SinDelta
      BY <2>1 DEF IInv, Propia, Revalidada
    <3>2. /\ op[r].items \in Seq(Lineas) /\ DOMAIN op[r].items = 1 .. Len(op[r].items)
          /\ Len(op[r].items) \in Nat /\ k[r] \in Nat
      BY DEF IInv, TiposInv, Op
    <3>3. \A i \in DOMAIN op[r].items : Linea(r, i).p \in Productos
      BY LineaTipada DEF IInv
    <3>4. \A i \in DOMAIN op[r].items : i <= k[r] => Protegida(r, i)'
      <4>1. ASSUME NEW i \in DOMAIN op[r].items, i < k[r] PROVE Protegida(r, i)'
        BY <2>2, <2>4, <3>1, <3>3, <4>1 DEF Protegida, Linea
      <4>2. ASSUME NEW i \in DOMAIN op[r].items, i = k[r] PROVE Protegida(r, i)'
        BY <1>2, <2>2, <2>4, <3>3, <4>2 DEF Protegida, Linea
      <4> QED
        BY <3>2, <4>1, <4>2
    <3>5. CASE ultima
      BY <2>2, <2>3, <3>1, <3>2, <3>4, <3>5 DEF Revalidada, SinDelta
    <3>6. CASE ~ultima
      BY <2>2, <2>3, <3>1, <3>2, <3>4, <3>6 DEF Revalidada, SinDelta
    <3> QED
      BY <3>5, <3>6
  <2>8. Propia(r)'
    BY <2>1, <2>2, <2>3, <2>4, <2>7 DEF IInv, Propia, FueraDeTx, EnTx, CambioBloqueado, ConLineas, EsVenta
  <2> QED
    BY <2>3, <2>4, <2>5, <2>6, <2>8, PasoDeUna
<1> QED
  BY <1>1, <1>2 DEF BloquearLinea

(* PlanDescuento decides on updates of products, whatever it read. *)
LEMMA PlanTipado ==
  ASSUME TiposInv, NEW r \in Requests, NEW l \in Lineas
  PROVE  PlanDescuento(r, l) \in Seq(Cambios)
<1>1. l.p \in Productos /\ l.c \in Nat
  BY DEF Lineas
<1>2. \A p \in Productos : Lee(r, p) \in Int
  BY DEF Lee, TiposInv
<1>3. CASE Lee(r, l.p) >= l.c \/ l.p \notin DOMAIN Vinculo
  <2>1. PlanDescuento(r, l) = <<[p |-> l.p, d |-> -l.c]>>
    BY <1>3 DEF PlanDescuento
  <2>2. [p |-> l.p, d |-> -l.c] \in Cambios
    BY <1>1 DEF Cambios
  <2> QED
    BY <2>1, <2>2
<1>4. CASE ~(Lee(r, l.p) >= l.c) /\ l.p \in DOMAIN Vinculo
  <2> DEFINE v == Vinculo[l.p]
             n == PadresNecesarios(l.c - Lee(r, l.p), v.unidades)
  <2>1. v.padre \in Productos /\ v.unidades \in Nat \ {0}
    BY <1>4, VentasAssumption
  <2>2. l.c - Lee(r, l.p) + v.unidades - 1 \in Int
    BY <1>1, <1>2, <2>1
  <2>3. n \in Int
    BY <2>1, <2>2 DEF PadresNecesarios
  <2>4. n * v.unidades - l.c \in Int /\ -n \in Int /\ -l.c \in Int
    BY <1>1, <2>1, <2>3
  <2> HIDE DEF n
  <2>5. /\ [p |-> l.p, d |-> -l.c] \in Cambios
        /\ [p |-> v.padre, d |-> -n] \in Cambios
        /\ [p |-> l.p, d |-> n * v.unidades - l.c] \in Cambios
    BY <1>1, <2>1, <2>4 DEF Cambios
  <2>6. PlanDescuento(r, l) = IF Lee(r, v.padre) < n THEN <<[p |-> l.p, d |-> -l.c]>>
                              ELSE <<[p |-> v.padre, d |-> -n], [p |-> l.p, d |-> n * v.unidades - l.c]>>
    BY <1>4 DEF PlanDescuento, n
  <2> QED
    BY <2>5, <2>6
<1> QED
  BY <1>3, <1>4

LEMMA LeerConserva ==
  ASSUME IInv, NEW r \in Requests, LeerLinea(r)
  PROVE  IInv'
<1> DEFINE l == Linea(r, k[r])
<1>1. /\ pc[r] = "escritura" /\ plan[r] = << >> /\ k[r] \in DOMAIN op[r].items
  BY DEF LeerLinea, IInv, TiposInv, Op
<1>2. l \in Lineas /\ l.p \in Productos /\ l.c \in Nat \ {0}
  BY <1>1, LineaTipada DEF IInv
<1>3. /\ plan' = [plan EXCEPT ![r] = PlanDescuento(r, l)]
      /\ k' = [k EXCEPT ![r] = k[r] + 1]
      /\ UNCHANGED <<stock, ventas, lock, op, delta, conflicto>>
      /\ pc' = [pc EXCEPT ![r] = "escritura"]
  BY DEF LeerLinea, Avanza, dbVars, Linea
<1> HIDE DEF l
<1>4. pc' = pc
  BY <1>1, <1>3 DEF IInv, TiposInv
<1>5. SoloMueve(r) /\ RespetaLocks(r) /\ plan'[r] = PlanDescuento(r, l) /\ k'[r] = k[r] + 1
  BY <1>3, <1>4 DEF IInv, TiposInv, SoloMueve, RespetaLocks
<1>6. TiposInv'
  <2>1. PlanDescuento(r, l) \in Seq(Cambios)
    BY <1>2, PlanTipado DEF IInv
  <2>2. plan' \in [Requests -> Seq(Cambios)] /\ k' \in [Requests -> Nat \ {0}]
    BY <1>3, <2>1 DEF IInv, TiposInv
  <2> QED
    BY <1>3, <1>4, <2>2 DEF IInv, TiposInv
<1>7. IndiceInv'
  BY <1>1, <1>3, <1>4, <1>5, IndiceConserva DEF IInv, IndiceInv
<1>8. Revalidada(r)'
  <2> SUFFICES ASSUME op[r].tipo = "online", Distintas(op[r].items) PROVE Revalidada(r)'
    BY <1>3 DEF Revalidada, Distintas
  <2>1. Escribiendo(r) /\ \A i \in DOMAIN op[r].items : Protegida(r, i)
    BY <1>1 DEF IInv, Propia, Revalidada
  <2>2. delta[r][l.p] = 0
    <3> SUFFICES ASSUME delta[r][l.p] # 0 PROVE FALSE
      OBVIOUS
    <3>1. PICK i \in DOMAIN op[r].items : i < k[r] /\ Linea(r, i).p = l.p
      BY <1>2, <2>1 DEF Escribiendo
    <3>2. i # k[r]
      BY <3>1 DEF IInv, TiposInv, Op
    <3> QED
      BY <1>1, <3>1, <3>2 DEF Distintas, Linea, l
  <2>3. Lee(r, l.p) >= l.c
    BY <1>1, <1>2, <2>1, <2>2 DEF Lee, Protegida, l, IInv, TiposInv
  <2>4. plan'[r] = <<[p |-> l.p, d |-> -l.c]>>
    BY <1>5, <2>3 DEF PlanDescuento
  <2>5. Escribiendo(r)'
    <3>1. ASSUME NEW p \in Productos, delta'[r][p] # 0
          PROVE  \E i \in DOMAIN op'[r].items :
                   i < k'[r] /\ op'[r].items[i].p = p /\ delta'[r][p] = -op'[r].items[i].c
      <4>1. PICK i \in DOMAIN op[r].items :
               i < k[r] /\ Linea(r, i).p = p /\ delta[r][p] = -Linea(r, i).c
        BY <1>3, <2>1, <3>1 DEF Escribiendo
      <4>2. i < k'[r]
        BY <1>5, <4>1 DEF IInv, TiposInv, Op
      <4> QED
        BY <1>3, <4>1, <4>2 DEF Linea
    <3>2. /\ k[r] \in DOMAIN op'[r].items /\ k'[r] = k[r] + 1
          /\ plan'[r] = <<[p |-> op'[r].items[k[r]].p, d |-> -op'[r].items[k[r]].c]>>
          /\ delta'[r][op'[r].items[k[r]].p] = 0
      BY <1>1, <1>3, <1>5, <2>2, <2>4 DEF l, Linea
    <3> QED
      BY <3>1, <3>2 DEF Escribiendo, Linea
  <2>6. \A i \in DOMAIN op[r].items : Protegida(r, i)'
    BY <1>3, <2>1 DEF Protegida, Linea
  <2> QED
    BY <1>1, <1>3, <1>4, <2>5, <2>6 DEF Revalidada
<1>9. Propia(r)'
  BY <1>1, <1>3, <1>4, <1>8 DEF IInv, Propia, FueraDeTx, EnTx, CambioBloqueado, ConLineas, EsVenta
<1> QED
  BY <1>5, <1>6, <1>7, <1>9, PasoDeUna

LEMMA UpdateConserva ==
  ASSUME IInv, NEW r \in Requests, UpdateStockTx(r)
  PROVE  IInv'
<1> DEFINE u == Head(plan[r])
<1>1. pc[r] = "escritura" /\ plan[r] # << >> /\ plan[r] \in Seq(Cambios)
  BY DEF UpdateStockTx, IInv, TiposInv
<1>2. u \in Cambios /\ Tail(plan[r]) \in Seq(Cambios)
  BY <1>1
<1>3. u.p \in Productos /\ u.d \in Int
  BY <1>2 DEF Cambios
<1>4. /\ lock[u.p] \in {Nadie, r}
      /\ lock' = [lock EXCEPT ![u.p] = r]
      /\ delta' = [delta EXCEPT ![r] = [delta[r] EXCEPT ![u.p] = delta[r][u.p] + u.d]]
      /\ plan' = [plan EXCEPT ![r] = Tail(plan[r])]
      /\ pc' = [pc EXCEPT ![r] = "escritura"]
      /\ UNCHANGED <<stock, ventas, op, k, conflicto>>
  BY DEF UpdateStockTx, Avanza, dbVars, Puede
<1> HIDE DEF u
<1>5. pc' = pc
  BY <1>1, <1>4 DEF IInv, TiposInv
<1>6. /\ \A p \in Productos : lock'[p] = IF p = u.p THEN r ELSE lock[p]
      /\ \A p \in Productos : delta'[r][p] = IF p = u.p THEN delta[r][u.p] + u.d ELSE delta[r][p]
      /\ plan'[r] = Tail(plan[r])
  BY <1>3, <1>4 DEF IInv, TiposInv
<1>7. SoloMueve(r)
  BY <1>4, <1>5 DEF IInv, TiposInv, SoloMueve
<1>8. RespetaLocks(r)
  BY <1>3, <1>4, <1>6, VentasAssumption DEF RespetaLocks
<1>9. TiposInv'
  <2>1. lock' \in [Productos -> Requests \cup {Nadie}] /\ plan' \in [Requests -> Seq(Cambios)]
    BY <1>2, <1>4 DEF IInv, TiposInv
  <2>2. [delta[r] EXCEPT ![u.p] = delta[r][u.p] + u.d] \in [Productos -> Int]
    BY <1>3 DEF IInv, TiposInv
  <2>3. delta' \in [Requests -> [Productos -> Int]]
    BY <1>4, <2>2 DEF IInv, TiposInv
  <2> QED
    BY <1>4, <1>5, <2>1, <2>3 DEF IInv, TiposInv
<1>10. IndiceInv'
  BY <1>1, <1>4, <1>5, <1>7, IndiceConserva DEF IInv, IndiceInv
<1>11. Revalidada(r)'
  <2> SUFFICES ASSUME op[r].tipo = "online", Distintas(op[r].items) PROVE Revalidada(r)'
    BY <1>4 DEF Revalidada, Distintas
  <2>1. Escribiendo(r) /\ \A i \in DOMAIN op[r].items : Protegida(r, i)
    BY <1>1 DEF IInv, Propia, Revalidada
  <2>2. PICK i \in DOMAIN op[r].items :
          /\ k[r] = i + 1
          /\ plan[r] = <<[p |-> Linea(r, i).p, d |-> -Linea(r, i).c]>>
          /\ delta[r][Linea(r, i).p] = 0
    BY <1>1, <2>1 DEF Escribiendo
  <2>3. Linea(r, i).p \in Productos /\ Linea(r, i).c \in Nat
    BY LineaTipada DEF IInv
  <2>4. u.p = Linea(r, i).p /\ u.d = -Linea(r, i).c /\ Tail(plan[r]) = << >>
    BY <2>2 DEF u
  <2>5. delta'[r][u.p] = -Linea(r, i).c
    BY <1>3, <1>6, <2>2, <2>3, <2>4
  <2>6. i < k[r] /\ i \in Nat
    BY <2>2 DEF IInv, TiposInv, Op
  <2>7. ASSUME NEW p \in Productos, delta'[r][p] # 0
        PROVE  \E j \in DOMAIN op'[r].items :
                 j < k'[r] /\ op'[r].items[j].p = p /\ delta'[r][p] = -op'[r].items[j].c
    <3>1. CASE p = u.p
      BY <1>4, <2>4, <2>5, <2>6, <3>1 DEF Linea
    <3>2. CASE p # u.p
      BY <1>4, <1>6, <2>1, <2>7, <3>2 DEF Escribiendo, Linea
    <3> QED
      BY <3>1, <3>2
  <2>8. Escribiendo(r)'
    BY <1>6, <2>4, <2>7 DEF Escribiendo, Linea
  <2>9. ASSUME NEW j \in DOMAIN op[r].items PROVE Protegida(r, j)'
    <3>1. Linea(r, j).p \in Productos
      BY LineaTipada DEF IInv
    <3> QED
      BY <1>4, <1>6, <2>1, <3>1 DEF Protegida, Linea
  <2> QED
    BY <1>1, <1>4, <1>5, <2>8, <2>9 DEF Revalidada
<1>12. CambioBloqueado(r)'
  BY <1>6 DEF IInv, Propia, CambioBloqueado
<1>13. Propia(r)'
  BY <1>1, <1>4, <1>5, <1>11, <1>12 DEF IInv, Propia, FueraDeTx, EnTx, ConLineas, EsVenta
<1> QED
  BY <1>7, <1>8, <1>9, <1>10, <1>13, PasoDeUna

-----------------------------------------------------------------------------
(* COMMIT *)

(* What the three commits have in common: r's changes become visible, its   *)
(* locks are free, and nobody else's rows change.                           *)
LEMMA ConfirmaMarco ==
  ASSUME IInv, NEW r \in Requests, Confirma(r)
  PROVE  /\ stock' \in [Productos -> Int]
         /\ lock' \in [Productos -> Requests \cup {Nadie}]
         /\ k' \in [Requests -> Nat \ {0}] /\ plan' \in [Requests -> Seq(Cambios)]
         /\ delta' \in [Requests -> [Productos -> Int]]
         /\ k'[r] = 1 /\ plan'[r] = << >> /\ delta'[r] = SinDelta
         /\ \A q \in Requests \ {r} : k'[q] = k[q] /\ plan'[q] = plan[q] /\ delta'[q] = delta[q]
         /\ RespetaLocks(r)
<1>1. SinDelta \in [Productos -> Int]
  BY DEF SinDelta
<1>2. stock' \in [Productos -> Int] /\ lock' \in [Productos -> Requests \cup {Nadie}]
  BY DEF Confirma, Suelta, IInv, TiposInv
<1>3. /\ k' \in [Requests -> Nat \ {0}] /\ plan' \in [Requests -> Seq(Cambios)]
      /\ delta' \in [Requests -> [Productos -> Int]]
  BY <1>1 DEF Confirma, LimpiaTx, IInv, TiposInv
<1>4. /\ k'[r] = 1 /\ plan'[r] = << >> /\ delta'[r] = SinDelta
      /\ \A q \in Requests \ {r} : k'[q] = k[q] /\ plan'[q] = plan[q] /\ delta'[q] = delta[q]
  BY DEF Confirma, LimpiaTx, IInv, TiposInv
<1>5. ASSUME NEW q \in Requests \ {r}, NEW p \in Productos, lock[p] = q
      PROVE  lock'[p] = q /\ stock'[p] = stock[p]
  <2>1. delta[r][p] = 0
    BY <1>5 DEF IInv, Propia, CambioBloqueado
  <2> QED
    BY <1>5, <2>1 DEF Confirma, Suelta, IInv, TiposInv
<1> QED
  BY <1>2, <1>3, <1>4, <1>5 DEF RespetaLocks

(* A request outside its transaction owes nothing to the locks. *)
LEMMA PropiaFuera ==
  ASSUME NEW r \in Requests, pc'[r] \notin EnTx,
         k'[r] = 1, plan'[r] = << >>, delta'[r] = SinDelta, ConLineas(r)'
  PROVE  Propia(r)'
<1>1. \A p \in Productos : delta'[r][p] = 0
  BY DEF SinDelta
<1>2. FueraDeTx(r)'
  BY DEF FueraDeTx, SinDelta
<1>3. CambioBloqueado(r)'
  BY <1>1 DEF CambioBloqueado
<1>4. Revalidada(r)'
  BY DEF Revalidada, EnTx
<1> QED
  BY <1>2, <1>3, <1>4 DEF Propia

LEMMA ConfirmarVentaConserva ==
  ASSUME IInv, NEW r \in Requests, ConfirmarVenta(r)
  PROVE  IInv'
<1> DEFINE n == Len(ventas)
           fila == [items |-> op[r].items, off |-> op[r].off, tipo |-> op[r].tipo,
                    conflicto |-> conflicto[r], estado |-> "completada", restauraciones |-> 0,
                    factura |-> "ninguna"]
<1>1. /\ pc[r] = "escritura" /\ Confirma(r) /\ ventas' = Append(ventas, fila)
      /\ op' = [op EXCEPT ![r] = [op[r] EXCEPT !.venta = n + 1]]
      /\ pc' = [pc EXCEPT ![r] = "encolar"] /\ conflicto' = conflicto
  BY DEF ConfirmarVenta, TxCompleta
<1>2. op[r] \in Op /\ conflicto[r] \in BOOLEAN /\ ventas \in Seq(VentaFila) /\ n \in Nat
  BY DEF IInv, TiposInv
<1>3. fila \in VentaFila /\ fila.off = op[r].off
  BY <1>2 DEF VentaFila, Op
<1> HIDE DEF fila
<1>4. /\ ventas' \in Seq(VentaFila)
      /\ DOMAIN ventas = 1 .. n /\ DOMAIN ventas' = 1 .. n + 1
      /\ \A i \in 1 .. n : ventas'[i] = ventas[i]
      /\ ventas'[n + 1] = fila
  BY <1>1, <1>2, <1>3
<1>5. [op[r] EXCEPT !.venta = n + 1] \in Op
  BY <1>2 DEF Op
<1>6. /\ op'[r].venta = n + 1 /\ op'[r].off = op[r].off /\ op'[r].tipo = op[r].tipo
      /\ op'[r].items = op[r].items /\ pc'[r] = "encolar"
      /\ \A q \in Requests \ {r} : op'[q] = op[q] /\ pc'[q] = pc[q]
  BY <1>1, <1>2 DEF IInv, TiposInv, Op
<1>7. SoloMueve(r) /\ RespetaLocks(r)
  BY <1>1, <1>6, ConfirmaMarco DEF SoloMueve
<1>8. TiposInv'
  <2>1. op' \in [Requests -> Op] /\ pc' \in [Requests -> Pcs]
    BY <1>1, <1>5 DEF IInv, TiposInv, Pcs
  <2>2. DOMAIN ventas \subseteq DOMAIN ventas' /\ n + 1 \in DOMAIN ventas'
    BY <1>2, <1>4
  <2>3. \A q \in Requests :
          /\ op'[q].tipo = "anular" => op'[q].venta \in DOMAIN ventas'
          /\ pc'[q] = "encolar" => op'[q].venta \in DOMAIN ventas'
          /\ op'[q].tipo = "desarme" => 1 \in DOMAIN op'[q].items /\ op'[q].items[1].p \in DOMAIN Vinculo
    BY <1>6, <2>2 DEF IInv, TiposInv
  <2>4. /\ stock' \in [Productos -> Int] /\ lock' \in [Productos -> Requests \cup {Nadie}]
        /\ k' \in [Requests -> Nat \ {0}] /\ plan' \in [Requests -> Seq(Cambios)]
        /\ delta' \in [Requests -> [Productos -> Int]]
    BY <1>1, ConfirmaMarco
  <2>5. conflicto' \in [Requests -> BOOLEAN]
    BY <1>1 DEF IInv, TiposInv
  <2> QED
    BY <1>4, <2>1, <2>3, <2>4, <2>5 DEF TiposInv
<1>9. IndiceInv'
  <2>1. op[r].off # SinId => \A i \in DOMAIN ventas : ventas[i].off # op[r].off
    BY <1>1 DEF IInv, IndiceInv, Registrada
  <2>2. \A i \in DOMAIN ventas' : (i \in DOMAIN ventas /\ ventas'[i] = ventas[i]) \/ (i = n + 1 /\ ventas'[i].off = op[r].off)
    BY <1>2, <1>3, <1>4
  <2>3. OfflineUnico'
    BY <2>1, <2>2 DEF IInv, IndiceInv, OfflineUnico
  <2>4. \A q \in Requests : op'[q].tipo \in {"anular", "desarme"} => op'[q].off = SinId
    BY <1>6 DEF IInv, IndiceInv
  <2>5. ASSUME NEW q \in Requests, pc'[q] = "escritura", op'[q].off # SinId
        PROVE  ~Registrada(op[q].off)'
    <3>1. q # r /\ op'[q] = op[q] /\ pc[q] = "escritura"
      BY <1>6, <2>5
    <3>2. op[q].off # op[r].off /\ \A i \in DOMAIN ventas : ventas[i].off # op[q].off
      BY <1>1, <2>5, <3>1 DEF IInv, IndiceInv, Registrada
    <3> QED
      BY <2>2, <3>1, <3>2 DEF Registrada
  <2>6. \A q, s \in Requests :
          q # s /\ pc'[q] = "escritura" /\ pc'[s] = "escritura" /\ op'[q].off = op'[s].off
          => op'[q].off = SinId
    BY <1>6 DEF IInv, IndiceInv
  <2> QED
    BY <2>3, <2>4, <2>5, <2>6 DEF IndiceInv
<1>10. Propia(r)'
  <2>1. ConLineas(r)'
    BY <1>1, <1>6 DEF IInv, Propia, ConLineas, EsVenta
  <2> QED
    BY <1>1, <1>6, <2>1, ConfirmaMarco, PropiaFuera DEF EnTx
<1> QED
  BY <1>7, <1>8, <1>9, <1>10, PasoDeUna

(* A commit or a post-commit step that ends the request and changes no      *)
(* offline_id.                                                              *)
LEMMA FinConserva ==
  ASSUME IInv, NEW r \in Requests, Olvida(r),
         ventas' \in Seq(VentaFila), DOMAIN ventas' = DOMAIN ventas,
         \A i \in DOMAIN ventas : ventas'[i].off = ventas[i].off,
         stock' \in [Productos -> Int], lock' \in [Productos -> Requests \cup {Nadie}],
         k' \in [Requests -> Nat \ {0}], plan' \in [Requests -> Seq(Cambios)],
         delta' \in [Requests -> [Productos -> Int]],
         k'[r] = 1, plan'[r] = << >>, delta'[r] = SinDelta,
         \A q \in Requests \ {r} : k'[q] = k[q] /\ plan'[q] = plan[q] /\ delta'[q] = delta[q],
         RespetaLocks(r)
  PROVE  IInv'
<1>1. /\ op'[r] = SinOp /\ pc'[r] = "libre"
      /\ \A q \in Requests \ {r} : op'[q] = op[q] /\ pc'[q] = pc[q]
  BY DEF Olvida, IInv, TiposInv
<1>2. SoloMueve(r)
  BY <1>1 DEF SoloMueve
<1>3. TiposInv'
  <2>1. op' \in [Requests -> Op] /\ pc' \in [Requests -> Pcs] /\ conflicto' \in [Requests -> BOOLEAN]
    BY SinOpTipada DEF Olvida, IInv, TiposInv, Pcs
  <2> QED
    BY <1>1, <2>1, SinOpTipada DEF IInv, TiposInv
<1>4. IndiceInv'
  BY <1>1, <1>2, SinOpTipada, IndiceConserva DEF IInv
<1>5. Propia(r)'
  <2>1. ConLineas(r)'
    BY <1>1 DEF ConLineas
  <2> QED
    BY <1>1, <2>1, PropiaFuera DEF EnTx
<1> QED
  BY <1>2, <1>3, <1>4, <1>5, PasoDeUna

(* A row of ventas is rewritten without its offline_id. *)
LEMMA FilaReescrita ==
  ASSUME ventas \in Seq(VentaFila), NEW v \in DOMAIN ventas, NEW f \in VentaFila,
         f.off = ventas[v].off, ventas' = [ventas EXCEPT ![v] = f]
  PROVE  /\ ventas' \in Seq(VentaFila) /\ DOMAIN ventas' = DOMAIN ventas
         /\ \A i \in DOMAIN ventas : ventas'[i].off = ventas[i].off
  OBVIOUS

LEMMA ConfirmarAnulacionConserva ==
  ASSUME IInv, NEW r \in Requests, ConfirmarAnulacion(r)
  PROVE  IInv'
<1> DEFINE v == op[r].venta
           f == [ventas[v] EXCEPT !.estado = "anulada", !.restauraciones = @ + 1]
<1>1. v \in DOMAIN ventas /\ ventas \in Seq(VentaFila)
  BY DEF ConfirmarAnulacion, IInv, TiposInv
<1>2. ventas[v] \in VentaFila
  BY <1>1
<1>3. ventas[v].restauraciones + 1 \in Nat
  BY <1>2 DEF VentaFila
<1>4. f \in VentaFila /\ f.off = ventas[v].off
  BY <1>2, <1>3 DEF VentaFila
<1>5. ventas' = [ventas EXCEPT ![v] = f]
  BY <1>1, <1>2 DEF ConfirmarAnulacion, VentaFila
<1> HIDE DEF f
<1>6. /\ ventas' \in Seq(VentaFila) /\ DOMAIN ventas' = DOMAIN ventas
      /\ \A i \in DOMAIN ventas : ventas'[i].off = ventas[i].off
  BY <1>1, <1>4, <1>5, FilaReescrita
<1> QED
  BY <1>6, ConfirmaMarco, FinConserva DEF ConfirmarAnulacion

LEMMA ConfirmarDesarmeConserva ==
  ASSUME IInv, NEW r \in Requests, ConfirmarDesarme(r)
  PROVE  IInv'
<1>1. ventas' \in Seq(VentaFila) /\ ventas' = ventas
  BY DEF ConfirmarDesarme, IInv, TiposInv
<1> QED
  BY <1>1, ConfirmaMarco, FinConserva DEF ConfirmarDesarme

LEMMA EncolarConserva ==
  ASSUME IInv, NEW r \in Requests, Encolar(r)
  PROVE  IInv'
<1> DEFINE v == op[r].venta
<1>1. PICK e \in {"cola", "pendiente", "ninguna"} : ventas' = [ventas EXCEPT ![v].factura = e]
  BY DEF Encolar
<1> DEFINE f == [ventas[v] EXCEPT !.factura = e]
<1>2. pc[r] = "encolar" /\ v \in DOMAIN ventas /\ ventas \in Seq(VentaFila)
  BY DEF Encolar, IInv, TiposInv
<1>3. ventas[v] \in VentaFila
  BY <1>2
<1>4. f \in VentaFila /\ f.off = ventas[v].off
  BY <1>3 DEF VentaFila
<1>5. ventas' = [ventas EXCEPT ![v] = f]
  BY <1>1
<1> HIDE DEF f
<1>6. /\ ventas' \in Seq(VentaFila) /\ DOMAIN ventas' = DOMAIN ventas
      /\ \A i \in DOMAIN ventas : ventas'[i].off = ventas[i].off
  BY <1>2, <1>4, <1>5, FilaReescrita
<1>7. Olvida(r) /\ UNCHANGED <<stock, lock, k, plan, delta>>
  BY DEF Encolar, txVars
<1>8. k[r] = 1 /\ plan[r] = << >> /\ delta[r] = SinDelta /\ SinDelta' = SinDelta
  BY <1>2 DEF IInv, Propia, FueraDeTx, EnTx, SinDelta
<1>9. RespetaLocks(r)
  BY <1>7 DEF RespetaLocks
<1>10. /\ stock' \in [Productos -> Int] /\ lock' \in [Productos -> Requests \cup {Nadie}]
       /\ k' \in [Requests -> Nat \ {0}] /\ plan' \in [Requests -> Seq(Cambios)]
       /\ delta' \in [Requests -> [Productos -> Int]]
  BY <1>7 DEF IInv, TiposInv
<1> QED
  BY <1>6, <1>7, <1>8, <1>9, <1>10, FinConserva

-----------------------------------------------------------------------------
(* AnularVenta and DesarmeManual enter their transactions *)

LEMMA EntraConserva ==
  ASSUME IInv, NEW r \in Requests, op[r].tipo \in {"anular", "desarme"}, pc[r] = "recibida",
         pc' = [pc EXCEPT ![r] = "escritura"],
         NEW items \in Seq(Lineas), op' = [op EXCEPT ![r] = [op[r] EXCEPT !.items = items]],
         op[r].tipo = "desarme" => items = op[r].items,
         NEW cambios \in Seq(Cambios), plan' = [plan EXCEPT ![r] = cambios],
         NEW n \in Nat \ {0}, k' = [k EXCEPT ![r] = n],
         UNCHANGED <<stock, ventas, lock, conflicto, delta>>
  PROVE  IInv'
<1>1. op[r] \in Op
  BY DEF IInv, TiposInv
<1>2. /\ op'[r] \in Op /\ op'[r].tipo = op[r].tipo /\ op'[r].off = op[r].off
      /\ op'[r].venta = op[r].venta /\ op'[r].items = items
  BY <1>1 DEF IInv, TiposInv, Op
<1>3. SoloMueve(r) /\ RespetaLocks(r) /\ pc'[r] = "escritura"
  BY DEF IInv, TiposInv, SoloMueve, RespetaLocks
<1>4. TiposInv'
  <2>1. op' \in [Requests -> Op]
    BY <1>2 DEF IInv, TiposInv
  <2>2. pc' \in [Requests -> Pcs] /\ plan' \in [Requests -> Seq(Cambios)] /\ k' \in [Requests -> Nat \ {0}]
    BY DEF IInv, TiposInv, Pcs
  <2>3. \A q \in Requests :
          /\ op'[q].tipo = "anular" => op'[q].venta \in DOMAIN ventas'
          /\ pc'[q] = "encolar" => op'[q].venta \in DOMAIN ventas'
          /\ op'[q].tipo = "desarme" => 1 \in DOMAIN op'[q].items /\ op'[q].items[1].p \in DOMAIN Vinculo
    BY <1>2, <1>3 DEF IInv, TiposInv, SoloMueve
  <2> QED
    BY <2>1, <2>2, <2>3 DEF IInv, TiposInv
<1>5. IndiceInv'
  <2>1. op'[r].off = SinId
    BY <1>2 DEF IInv, IndiceInv
  <2> QED
    BY <1>3, <2>1, IndiceConserva DEF IInv
<1>6. Propia(r)'
  BY <1>2, <1>3 DEF IInv, Propia, FueraDeTx, EnTx, CambioBloqueado, Revalidada, ConLineas, EsVenta
<1> QED
  BY <1>3, <1>4, <1>5, <1>6, PasoDeUna

LEMMA BuscarVentaConserva ==
  ASSUME IInv, NEW r \in Requests, BuscarVenta(r)
  PROVE  IInv'
<1> DEFINE v == ventas[op[r].venta]
           cambios == [i \in DOMAIN v.items |-> [p |-> v.items[i].p, d |-> v.items[i].c]]
<1>1. CASE Responder(r)
  BY <1>1, ResponderConserva
<1>2. CASE ~Responder(r)
  <2>1. pc[r] = "recibida" /\ op[r].tipo = "anular" /\ op[r].venta \in DOMAIN ventas
    BY DEF BuscarVenta, IInv, TiposInv
  <2>2. v \in VentaFila
    BY <2>1 DEF IInv, TiposInv
  <2>3. v.items \in Seq(Lineas)
    BY <2>2 DEF VentaFila
  <2>4. /\ op' = [op EXCEPT ![r] = [op[r] EXCEPT !.items = v.items]]
        /\ plan' = [plan EXCEPT ![r] = cambios]
        /\ k' = [k EXCEPT ![r] = Len(v.items) + 1]
        /\ pc' = [pc EXCEPT ![r] = "escritura"]
        /\ UNCHANGED <<stock, ventas, lock, conflicto, delta>>
    BY <1>2 DEF BuscarVenta, dbVars
  <2>5. \A i \in DOMAIN v.items : v.items[i] \in Lineas
    BY <2>3
  <2>6. \A i \in DOMAIN v.items : [p |-> v.items[i].p, d |-> v.items[i].c] \in Cambios
    BY <2>5 DEF Lineas, Cambios
  <2>7. Len(v.items) \in Nat /\ DOMAIN v.items = 1 .. Len(v.items)
    BY <2>3
  <2>8. cambios \in Seq(Cambios) /\ Len(v.items) + 1 \in Nat \ {0}
    <3>1. cambios \in [1 .. Len(v.items) -> Cambios]
      BY <2>6, <2>7
    <3> HIDE DEF cambios
    <3> QED
      <4>1. PICK n \in Nat : n = Len(v.items)
        BY <2>7
      <4>2. cambios \in [1 .. n -> Cambios]
        BY <3>1, <4>1
      <4>3. cambios \in Seq(Cambios)
        BY <4>2
      <4> QED
        BY <4>1, <4>3
  <2> HIDE DEF v, cambios
  <2> QED
    BY <2>1, <2>3, <2>4, <2>8, EntraConserva
<1> QED
  BY <1>1, <1>2

LEMMA BuscarVinculoConserva ==
  ASSUME IInv, NEW r \in Requests, BuscarVinculo(r)
  PROVE  IInv'
<1> DEFINE l == op[r].items[1]
           v == Vinculo[l.p]
           cambios == <<[p |-> v.padre, d |-> -l.c], [p |-> l.p, d |-> l.c * v.unidades]>>
<1>1. CASE Responder(r)
  BY <1>1, ResponderConserva
<1>2. CASE ~Responder(r)
  <2>1. /\ pc[r] = "recibida" /\ op[r].tipo = "desarme" /\ 1 \in DOMAIN op[r].items
        /\ l.p \in DOMAIN Vinculo /\ op[r] \in Op
    BY DEF BuscarVinculo, IInv, TiposInv
  <2>2. l.p \in Productos /\ l.c \in Nat
    BY <2>1, LineaTipada DEF IInv, Linea
  <2>3. v.padre \in Productos /\ v.unidades \in Nat
    BY <2>1, VentasAssumption
  <2>4. -l.c \in Int /\ l.c * v.unidades \in Int
    BY <2>2, <2>3
  <2>5. cambios \in Seq(Cambios)
    <3>1. [p |-> v.padre, d |-> -l.c] \in Cambios /\ [p |-> l.p, d |-> l.c * v.unidades] \in Cambios
      BY <2>2, <2>3, <2>4 DEF Cambios
    <3> QED
      BY <3>1
  <2>6. /\ plan' = [plan EXCEPT ![r] = cambios]
        /\ k' = [k EXCEPT ![r] = 2]
        /\ pc' = [pc EXCEPT ![r] = "escritura"]
        /\ UNCHANGED <<stock, ventas, lock, op, conflicto, delta>>
    BY <1>2 DEF BuscarVinculo, dbVars, reqVars
  <2>7. op' = [op EXCEPT ![r] = [op[r] EXCEPT !.items = op[r].items]] /\ op[r].items \in Seq(Lineas)
    BY <2>1, <2>6 DEF IInv, TiposInv, Op
  <2> HIDE DEF l, v, cambios
  <2>8. 2 \in Nat \ {0} /\ op[r].tipo \in {"anular", "desarme"}
    BY <2>1
  <2> QED
    BY <2>1, <2>5, <2>6, <2>7, <2>8, EntraConserva
<1> QED
  BY <1>1, <1>2

-----------------------------------------------------------------------------
LEMMA RecibirConserva ==
  ASSUME IInv, NEW r \in Requests, Recibir(r)
  PROVE  IInv'
<1>1. PICK o \in Cuerpos :
        /\ op' = [op EXCEPT ![r] = o]
        /\ pc' = [pc EXCEPT ![r] = IF o.tipo = "online" THEN "sesion" ELSE "recibida"]
  BY DEF Recibir
<1>2. pc[r] = "libre" /\ UNCHANGED <<stock, ventas, lock, k, plan, delta>>
      /\ conflicto' = [conflicto EXCEPT ![r] = FALSE]
  BY DEF Recibir, dbVars, txVars
<1>3. DOMAIN ventas \subseteq Nat
  BY DEF IInv, TiposInv
<1>4. /\ o \in Op
      /\ o.tipo = "anular" => o.venta \in DOMAIN ventas
      /\ o.tipo \in {"anular", "desarme"} => o.off = SinId
      /\ o.tipo = "desarme" => 1 \in DOMAIN o.items /\ o.items[1].p \in DOMAIN Vinculo
      /\ EsVenta(o) => o.items # << >>
  <2>1. CASE o \in [tipo : Tipos \cap {"online", "sync"}, items : Carritos, off : OfflineIds \cup {SinId},
                    valida : BOOLEAN, venta : {0}, suc : {TRUE}]
    <3>1. o.tipo \in {"online", "sync"} /\ o.items \in Carritos
      BY <2>1
    <3>2. /\ o.tipo \in {"online", "sync"} /\ o.items \in Seq(Lineas) /\ o.items # << >>
      BY <3>1, VentasAssumption
    <3>3. o.venta = 0 /\ o.suc = TRUE
      BY <2>1
    <3>4. o.venta \in Nat
      BY <3>3
    <3>5. o.tipo \in TiposDeRequest /\ o.suc \in BOOLEAN
      BY <3>1, <3>3 DEF TiposDeRequest
    <3>6. o \in Op
      BY <2>1, <3>2, <3>5, <3>4 DEF Op
    <3> QED
      BY <3>2, <3>6
  <2>2. CASE o \in [tipo : Tipos \cap {"anular"}, items : {<< >>}, off : {SinId}, valida : {TRUE},
                    venta : DOMAIN ventas, suc : {TRUE}]
    <3>1. << >> \in Seq(Lineas)
      OBVIOUS
    <3>2. o.items = << >> /\ o.venta \in DOMAIN ventas /\ o.tipo = "anular" /\ o.off = SinId
      BY <2>2
    <3>3. o.items \in Seq(Lineas) /\ o.venta \in Nat
      BY <1>3, <3>1, <3>2
    <3>4. o.tipo \in TiposDeRequest /\ o.suc \in BOOLEAN /\ o.valida \in BOOLEAN
          /\ o.off \in OfflineIds \cup {SinId}
      BY <2>2, <3>2 DEF TiposDeRequest
    <3>5. o \in Op
      BY <2>2, <3>3, <3>4 DEF Op
    <3> QED
      BY <3>2, <3>5 DEF EsVenta
  <2>3. CASE o \in [tipo : Tipos \cap {"desarme"}, items : {<<[p |-> h, c |-> 1]>> : h \in DOMAIN Vinculo},
                    off : {SinId}, valida : {TRUE}, venta : {0}, suc : BOOLEAN]
    <3>1. PICK h \in DOMAIN Vinculo : o.items = <<[p |-> h, c |-> 1]>>
      BY <2>3
    <3>2. [p |-> h, c |-> 1] \in Lineas
      BY VentasAssumption DEF Lineas
    <3>3. o.items \in Seq(Lineas) /\ 1 \in DOMAIN o.items /\ o.items[1].p = h
      BY <3>1, <3>2
    <3>4. o.tipo = "desarme" /\ o.off = SinId /\ o.venta = 0 /\ o.valida = TRUE
      BY <2>3
    <3>5. o.suc \in BOOLEAN
      BY <2>3
    <3>6. o.venta \in Nat
      BY <3>4
    <3>7. o.tipo \in TiposDeRequest /\ o.valida \in BOOLEAN
          /\ o.off \in OfflineIds \cup {SinId}
      BY <3>4 DEF TiposDeRequest
    <3>8. o \in Op
      BY <2>3, <3>3, <3>7, <3>5, <3>6 DEF Op
    <3> QED
      BY <3>3, <3>4, <3>8 DEF EsVenta
  <2> QED
    BY <2>1, <2>2, <2>3 DEF Cuerpos
<1>5. /\ op'[r] = o /\ pc'[r] \in {"sesion", "recibida"} /\ SoloMueve(r) /\ RespetaLocks(r)
  BY <1>1, <1>2 DEF IInv, TiposInv, SoloMueve, RespetaLocks
<1>6. TiposInv'
  <2>1. op' \in [Requests -> Op] /\ pc' \in [Requests -> Pcs] /\ conflicto' \in [Requests -> BOOLEAN]
    BY <1>1, <1>2, <1>4 DEF IInv, TiposInv, Pcs
  <2> QED
    BY <1>2, <1>4, <1>5, <2>1 DEF IInv, TiposInv, SoloMueve
<1>7. IndiceInv'
  BY <1>2, <1>4, <1>5, IndiceConserva DEF IInv
<1>8. Propia(r)'
  <2>1. k'[r] = 1 /\ plan'[r] = << >> /\ delta'[r] = SinDelta
    BY <1>2 DEF IInv, Propia, FueraDeTx, EnTx
  <2>2. ConLineas(r)'
    BY <1>4, <1>5 DEF ConLineas, EsVenta
  <2> QED
    BY <1>5, <2>1, <2>2, PropiaFuera DEF EnTx
<1> QED
  BY <1>5, <1>6, <1>7, <1>8, PasoDeUna

LEMMA InicioEstablece == Init => IInv
<1> SUFFICES ASSUME Init PROVE IInv
  OBVIOUS
<1>1. SinDelta \in [Productos -> Int]
  BY DEF SinDelta
<1>2. TiposInv
  BY <1>1, SinOpTipada, VentasAssumption DEF Init, TiposInv, Pcs
<1>3. IndiceInv
  BY SinOpTipada DEF Init, IndiceInv, OfflineUnico, Registrada
<1>4. ASSUME NEW r \in Requests PROVE Propia(r)
  BY SinOpTipada DEF Init, Propia, FueraDeTx, CambioBloqueado, Revalidada, ConLineas, EnTx, SinDelta
<1> QED
  BY <1>2, <1>3, <1>4 DEF IInv

LEMMA QuietoConserva ==
  ASSUME IInv, UNCHANGED <<dbVars, lock, pc, reqVars, txVars>>
  PROVE  IInv'
<1>1. UNCHANGED <<stock, ventas, lock, pc, op, conflicto, k, plan, delta>>
  BY DEF dbVars, reqVars, txVars
<1>2. TiposInv'
  BY <1>1 DEF IInv, TiposInv
<1>3. IndiceInv'
  BY <1>1 DEF IInv, IndiceInv, OfflineUnico, Registrada
<1>4. ASSUME NEW r \in Requests PROVE Propia(r)'
  BY <1>1 DEF IInv, Propia, FueraDeTx, CambioBloqueado, Revalidada, ConLineas, SinDelta, Protegida,
              Escribiendo, Linea, Distintas, EsVenta
<1> QED
  BY <1>2, <1>3, <1>4 DEF IInv

LEMMA PasoConserva == IInv /\ [Next]_vars => IInv'
<1> SUFFICES ASSUME IInv, [Next]_vars PROVE IInv'
  OBVIOUS
<1>1. CASE CerrarSesion
  BY <1>1, QuietoConserva DEF CerrarSesion
<1>2. CASE UNCHANGED vars
  BY <1>2, QuietoConserva DEF vars
<1>3. ASSUME NEW r \in Requests, Recibir(r) \/ DeadlockAbort(r) \/ Caida(r) PROVE IInv'
  <2>1. CASE Recibir(r)
    BY <2>1, RecibirConserva
  <2>2. CASE DeadlockAbort(r) \/ Caida(r)
    BY <2>2, ResponderConserva DEF DeadlockAbort, Caida
  <2> QED
    BY <1>3, <2>1, <2>2
<1>4. ASSUME NEW r \in Requests, Paso(r) PROVE IInv'
  BY <1>4, RevisionConserva, LineasConserva, BloqueoConserva, InsertarConserva, LeerConserva,
     UpdateConserva, ConfirmarVentaConserva, EncolarConserva, BuscarVentaConserva,
     ConfirmarAnulacionConserva, BuscarVinculoConserva, ConfirmarDesarmeConserva
  DEF Paso
<1> QED
  BY <1>1, <1>2, <1>3, <1>4 DEF Next

LEMMA Invariante == Spec => []IInv
  BY InicioEstablece, PasoConserva, PTL DEF Spec

(* An offline sale is recorded at most once, whatever batches, retries and  *)
(* online requests carry it at the same time: registrarVentaInternal looks  *)
(* for the offline_id before its transaction, and the unique index decides. *)
THEOREM OfflineUnaVez == Spec => []OfflineUnico
<1>1. IInv => OfflineUnico
  BY DEF IInv, IndiceInv
<1> QED
  BY <1>1, Invariante, PTL

(* Only the commit of r takes it from its transaction to "encolar". *)
LEMMA SoloConfirmaVenta ==
  ASSUME IInv, Next, NEW r \in Requests, pc[r] = "escritura", pc'[r] = "encolar"
  PROVE  ConfirmarVenta(r)
<1>1. ASSUME NEW q \in Requests, NEW donde, donde # "encolar", pc' = [pc EXCEPT ![q] = donde]
      PROVE  FALSE
  BY <1>1 DEF IInv, TiposInv
<1>2. ~CerrarSesion
  BY DEF CerrarSesion
<1>3. PICK q \in Requests : Recibir(q) \/ Paso(q) \/ DeadlockAbort(q) \/ Caida(q)
  BY <1>2 DEF Next
<1>4. ~Olvida(q)
  BY <1>1 DEF Olvida
<1>5. ~Responder(q)
  BY <1>4 DEF Responder
<1>6. \A donde : donde # "encolar" => ~Avanza(q, donde)
  BY <1>1 DEF Avanza
<1>7. ~Recibir(q) /\ ~DeadlockAbort(q) /\ ~Caida(q)
  BY <1>1, <1>5 DEF Recibir, DeadlockAbort, Caida
<1>8. ~FiltrarDuplicados(q) /\ ~RevisarSesion(q) /\ ~Insertar(q) /\ ~LeerLinea(q) /\ ~UpdateStockTx(q)
  BY <1>5, <1>6 DEF FiltrarDuplicados, RevisarSesion, Insertar, LeerLinea, UpdateStockTx
<1>9. ~RevisarLineas(q)
  BY <1>5, <1>6 DEF RevisarLineas
<1>10. ~BloquearLinea(q)
  BY <1>1, <1>5 DEF BloquearLinea
<1>11. ~BuscarVenta(q) /\ ~BuscarVinculo(q)
  BY <1>1, <1>5 DEF BuscarVenta, BuscarVinculo
<1>12. ~Encolar(q) /\ ~ConfirmarAnulacion(q) /\ ~ConfirmarDesarme(q)
  BY <1>4 DEF Encolar, ConfirmarAnulacion, ConfirmarDesarme
<1>13. ConfirmarVenta(q)
  BY <1>3, <1>7, <1>8, <1>9, <1>10, <1>11, <1>12 DEF Paso
<1>14. q = r
  BY <1>13 DEF ConfirmarVenta, IInv, TiposInv
<1> QED
  BY <1>13, <1>14

(* What the FOR UPDATE re-validation of an online sale found still holds at *)
(* its commit: no stock that the sale lowers ends below zero, whatever      *)
(* syncs, anulaciones, desarmes and other sales run between the two.        *)
THEOREM SinSobreventaOnline == Spec => OnlineNoSobrevende
<1> DEFINE Cumple == \A r \in Requests :
       TxCompleta(r) /\ op[r].tipo = "online" /\ Distintas(op[r].items) /\ Len(ventas') > Len(ventas)
         /\ pc'[r] = "encolar"
       => \A p \in Productos : stock'[p] < stock[p] => stock'[p] >= 0
<1>1. IInv /\ [Next]_vars => [Cumple]_vars
  <2> SUFFICES ASSUME IInv, Next,
                      NEW r \in Requests, TxCompleta(r), op[r].tipo = "online", Distintas(op[r].items),
                      pc'[r] = "encolar", NEW p \in Productos, stock'[p] < stock[p]
               PROVE  stock'[p] >= 0
    BY DEF Cumple
  <2>1. pc[r] = "escritura"
    BY DEF TxCompleta
  <2>2. stock' = [q \in Productos |-> stock[q] + delta[r][q]]
    BY <2>1, SoloConfirmaVenta DEF ConfirmarVenta, Confirma
  <2>3. stock \in [Productos -> Int] /\ delta[r] \in [Productos -> Int]
    BY DEF IInv, TiposInv
  <2>4. delta[r][p] # 0
    BY <2>2, <2>3
  <2>5. Escribiendo(r) /\ \A i \in DOMAIN op[r].items : Protegida(r, i)
    BY <2>1 DEF IInv, Propia, Revalidada
  <2>6. PICK i \in DOMAIN op[r].items : Linea(r, i).p = p /\ delta[r][p] = -Linea(r, i).c
    BY <2>4, <2>5 DEF Escribiendo
  <2>7. stock[p] >= Linea(r, i).c /\ Linea(r, i).c \in Nat
    BY <2>5, <2>6, LineaTipada DEF IInv, Protegida
  <2> QED
    BY <2>2, <2>3, <2>6, <2>7
<1> QED
  BY <1>1, Invariante, PTL DEF Spec, OnlineNoSobrevende

-----------------------------------------------------------------------------
(* The books: what a transaction has written so far is worth the lines it   *)
(* has gone through, less what its plan still has to write.                 *)

(* Units of p in the first n lines, and what those lines are worth. *)
Hasta(items, n, p) == SumFunction([i \in 1 .. n |-> IF items[i].p = p THEN items[i].c ELSE 0])
Vale(items, n) == Total([p \in Productos |-> Hasta(items, n, p)])

ValeCambio(u) == Peso[u.p] * u.d
Debe(pl) ==
  IF pl = << >> THEN 0
  ELSE IF Len(pl) = 1 THEN ValeCambio(pl[1]) ELSE ValeCambio(pl[1]) + ValeCambio(pl[2])

(* Where only sales go, and what they find there. *)
CaminoDeVenta(r) ==
  pc[r] \in {"sesion", "lineas", "bloqueo", "insertar", "encolar"} =>
    /\ EsVenta(op[r])
    /\ pc[r] \in {"bloqueo", "insertar"} => plan[r] = << >> /\ delta[r] = SinDelta
    /\ pc[r] = "insertar" => k[r] = 1

VentaAlDia(r) ==
  pc[r] = "escritura" /\ EsVenta(op[r]) =>
    /\ k[r] - 1 \in 0 .. Len(op[r].items) /\ Len(plan[r]) <= 2
    /\ Total(delta[r]) + Debe(plan[r]) = -Vale(op[r].items, k[r] - 1)

DesarmeAlDia(r) ==
  pc[r] = "escritura" /\ op[r].tipo = "desarme" =>
    Len(plan[r]) <= 2 /\ Total(delta[r]) + Debe(plan[r]) = 0

(* An anulacion goes through its lines in order, n of them so far. *)
Restaura(r, n) ==
  /\ Len(op[r].items) = n + Len(plan[r])
  /\ \A j \in DOMAIN plan[r] :
       plan[r][j].p = op[r].items[n + j].p /\ plan[r][j].d = op[r].items[n + j].c
  /\ Total(delta[r]) = Vale(op[r].items, n)

AnulacionAlDia(r) ==
  pc[r] = "escritura" /\ op[r].tipo = "anular" => \E n \in 0 .. Len(op[r].items) : Restaura(r, n)

CuentaBien(r) == CaminoDeVenta(r) /\ VentaAlDia(r) /\ DesarmeAlDia(r) /\ AnulacionAlDia(r)

LibrosInv ==
  /\ sucursal \in [Productos -> Int] /\ ledger \in [Productos -> Int]
  /\ sesion \in {"abierta", "cerrada"} /\ recibidas \in 0 .. MaxRequests
  /\ \A r \in Requests : op[r].venta \in 0 .. Len(ventas)
  /\ \A r \in Requests : CuentaBien(r)
  /\ StockConservado /\ SucursalConservada

-----------------------------------------------------------------------------
(* Totals *)

LEMMA Valuacion ==
  ASSUME NEW f \in [Productos -> Int]
  PROVE  /\ IsFiniteSet(Productos) /\ Total(f) \in Int
         /\ [p \in Productos |-> Peso[p] * f[p]] \in [Productos -> Int]
<1>1. IsFiniteSet(Productos) /\ Peso \in [Productos -> Int]
  BY VentasAssumption
<1>2. \A p \in Productos : Peso[p] * f[p] \in Int
  BY <1>1
<1>3. [p \in Productos |-> Peso[p] * f[p]] \in [Productos -> Int]
  BY <1>2
<1> QED
  BY <1>1, <1>3, SumType DEF Total

LEMMA Distribuye == \A w, a, b \in Int : w * (a + b) = w * a + w * b
  OBVIOUS

LEMMA TotalSuma ==
  ASSUME NEW f \in [Productos -> Int], NEW g \in [Productos -> Int], NEW h \in [Productos -> Int],
         \A p \in Productos : h[p] = f[p] + g[p]
  PROVE  Total(h) = Total(f) + Total(g)
<1>1. PICK F \in [Productos -> Int] : F = [p \in Productos |-> Peso[p] * f[p]]
  BY Valuacion
<1>2. PICK G \in [Productos -> Int] : G = [p \in Productos |-> Peso[p] * g[p]]
  BY Valuacion
<1>3. PICK H \in [Productos -> Int] : H = [p \in Productos |-> Peso[p] * h[p]]
  BY Valuacion
<1>4. \A p \in Productos : H[p] = F[p] + G[p]
  <2>1. TAKE p \in Productos
  <2>2. Peso[p] \in Int /\ f[p] \in Int /\ g[p] \in Int
    BY VentasAssumption
  <2>3. Peso[p] * (f[p] + g[p]) = Peso[p] * f[p] + Peso[p] * g[p]
    BY <2>2, Distribuye
  <2> QED
    BY <1>1, <1>2, <1>3, <2>3
<1>5. IsFiniteSet(Productos)
  BY VentasAssumption
<1>6. SumFunction(H) = SumFunction(F) + SumFunction(G)
  BY <1>4, <1>5, SumAdd
<1> QED
  BY <1>1, <1>2, <1>3, <1>6 DEF Total

LEMMA TotalResta ==
  ASSUME NEW f \in [Productos -> Int], NEW g \in [Productos -> Int], NEW h \in [Productos -> Int],
         \A p \in Productos : h[p] = f[p] - g[p]
  PROVE  Total(h) = Total(f) - Total(g)
<1>1. \A p \in Productos : f[p] = h[p] + g[p]
  OBVIOUS
<1>2. Total(f) = Total(h) + Total(g)
  BY <1>1, TotalSuma
<1>3. PICK a \in Int, b \in Int, c \in Int : a = Total(f) /\ b = Total(g) /\ c = Total(h)
  BY Valuacion
<1> QED
  BY <1>2, <1>3

LEMMA TotalUno ==
  ASSUME NEW f \in [Productos -> Int], NEW h \in [Productos -> Int], NEW q \in Productos, NEW d \in Int,
         h[q] = f[q] + d, \A p \in Productos \ {q} : h[p] = f[p]
  PROVE  Total(h) = Total(f) + Peso[q] * d
<1>1. PICK F \in [Productos -> Int] : F = [p \in Productos |-> Peso[p] * f[p]]
  BY Valuacion
<1>3. PICK H \in [Productos -> Int] : H = [p \in Productos |-> Peso[p] * h[p]]
  BY Valuacion
<1>4. \A p \in Productos \ {q} : H[p] = F[p]
  BY <1>1, <1>3
<1>5. IsFiniteSet(Productos)
  BY VentasAssumption
<1>6. SumFunction(H) = SumFunction(F) + (H[q] - F[q])
  BY <1>4, <1>5, SumChange
<1>7. PICK w \in Int, x \in Int : w = Peso[q] /\ x = f[q]
  BY VentasAssumption
<1>8. H[q] = w * (x + d) /\ F[q] = w * x
  BY <1>1, <1>3, <1>7
<1>9. H[q] - F[q] = w * d
  BY <1>8
<1> QED
  BY <1>1, <1>3, <1>6, <1>7, <1>9 DEF Total

LEMMA TotalCero == SinDelta \in [Productos -> Int] /\ Total(SinDelta) = 0
<1>0. SinDelta \in [Productos -> Int]
  BY DEF SinDelta
<1>1. PICK f \in [Productos -> Int] : f = SinDelta
  BY <1>0
<1>2. \A p \in Productos : f[p] = f[p] + f[p]
  BY <1>1 DEF SinDelta
<1>3. PICK n \in Int : n = Total(f)
  BY Valuacion
<1>4. n = n + n
  BY <1>2, <1>3, TotalSuma
<1> QED
  <2>1. n = 0
    BY <1>4
  <2> QED
    BY <1>0, <1>1, <1>3, <2>1

-----------------------------------------------------------------------------
(* Lines *)

LEMMA HastaTipo ==
  ASSUME NEW items \in Seq(Lineas), NEW n \in 0 .. Len(items), NEW p
  PROVE  /\ [i \in 1 .. n |-> IF items[i].p = p THEN items[i].c ELSE 0] \in [1 .. n -> Int]
         /\ Hasta(items, n, p) \in Int
<1>1. \A i \in 1 .. n : (IF items[i].p = p THEN items[i].c ELSE 0) \in Int
  <2>1. \A i \in 1 .. n : items[i] \in Lineas
    BY ElementOfSeq
  <2> QED
    BY <2>1 DEF Lineas
<1>2. [i \in 1 .. n |-> IF items[i].p = p THEN items[i].c ELSE 0] \in [1 .. n -> Int]
  BY <1>1
<1>3. IsFiniteSet(1 .. n)
  BY FS_Interval
<1> QED
  BY <1>2, <1>3, SumType DEF Hasta

LEMMA HastaSigue ==
  ASSUME NEW items \in Seq(Lineas), NEW n \in Nat, n + 1 <= Len(items), NEW p
  PROVE  Hasta(items, n + 1, p) = Hasta(items, n, p) + IF items[n + 1].p = p THEN items[n + 1].c ELSE 0
<1>1. PICK m \in 0 .. Len(items) : m = n + 1
  BY LenProperties
<1>0. n \in 0 .. Len(items)
  BY <1>1
<1>2. PICK f \in [1 .. n -> Int] : f = [i \in 1 .. n |-> IF items[i].p = p THEN items[i].c ELSE 0]
  <2>1. [i \in 1 .. n |-> IF items[i].p = p THEN items[i].c ELSE 0] \in [1 .. n -> Int]
    BY <1>0, HastaTipo
  <2> QED
    BY <2>1
<1>3. PICK g \in [1 .. n + 1 -> Int] : g = [i \in 1 .. n + 1 |-> IF items[i].p = p THEN items[i].c ELSE 0]
  <2>1. [i \in 1 .. m |-> IF items[i].p = p THEN items[i].c ELSE 0] \in [1 .. m -> Int]
    BY HastaTipo
  <2> QED
    BY <1>1, <2>1
<1>4. \A i \in 1 .. n : g[i] = f[i]
  BY <1>2, <1>3
<1>5. SumFunction(g) = SumFunction(f) + g[n + 1]
  BY <1>4, SumExtendsRange
<1>6. n + 1 \in 1 .. n + 1
  OBVIOUS
<1>7. g[n + 1] = IF items[n + 1].p = p THEN items[n + 1].c ELSE 0
  BY <1>3, <1>6
<1> QED
  BY <1>2, <1>3, <1>5, <1>7 DEF Hasta

LEMMA ValeTipo ==
  ASSUME NEW items \in Seq(Lineas), NEW n \in 0 .. Len(items)
  PROVE  [p \in Productos |-> Hasta(items, n, p)] \in [Productos -> Int] /\ Vale(items, n) \in Int
<1>1. [p \in Productos |-> Hasta(items, n, p)] \in [Productos -> Int]
  BY HastaTipo
<1> QED
  BY <1>1, Valuacion DEF Vale

LEMMA ValeNada == ASSUME NEW items \in Seq(Lineas) PROVE Vale(items, 0) = 0
<1>1. \A p : Hasta(items, 0, p) = 0
  <2>1. TAKE p
  <2>2. [i \in 1 .. 0 |-> IF items[i].p = p THEN items[i].c ELSE 0] \in [{} -> Int]
    OBVIOUS
  <2> QED
    BY <2>2, SumEmpty DEF Hasta
<1>2. [p \in Productos |-> Hasta(items, 0, p)] = SinDelta
  BY <1>1 DEF SinDelta
<1> QED
  BY <1>2, TotalCero DEF Vale

LEMMA ValeSigue ==
  ASSUME NEW items \in Seq(Lineas), NEW n \in Nat, n + 1 <= Len(items)
  PROVE  Vale(items, n + 1) = Vale(items, n) + Peso[items[n + 1].p] * items[n + 1].c
<1>1. Len(items) \in Nat
  BY LenProperties
<1>0. n \in 0 .. Len(items) /\ n + 1 \in 0 .. Len(items)
  BY <1>1
<1>2. PICK q \in Productos, d \in Int : q = items[n + 1].p /\ d = items[n + 1].c
  <2>1. items[n + 1] \in Lineas
    BY <1>1, ElementOfSeq
  <2> QED
    BY <2>1 DEF Lineas
<1>3. PICK f \in [Productos -> Int] : f = [p \in Productos |-> Hasta(items, n, p)]
  <2>1. [p \in Productos |-> Hasta(items, n, p)] \in [Productos -> Int]
    BY <1>0, ValeTipo
  <2> QED
    BY <2>1
<1>4. PICK h \in [Productos -> Int] : h = [p \in Productos |-> Hasta(items, n + 1, p)]
  <2>1. [p \in Productos |-> Hasta(items, n + 1, p)] \in [Productos -> Int]
    BY <1>0, ValeTipo
  <2> QED
    BY <2>1
<1>5. \A p \in Productos : h[p] = f[p] + IF q = p THEN d ELSE 0
  BY <1>2, <1>3, <1>4, HastaSigue
<1>6. h[q] = f[q] + d /\ \A p \in Productos \ {q} : h[p] = f[p]
  BY <1>5
<1>7. Total(h) = Total(f) + Peso[q] * d
  BY <1>6, TotalUno
<1> QED
  BY <1>2, <1>3, <1>4, <1>7 DEF Vale

LEMMA ValeTodo ==
  ASSUME NEW items \in Seq(Lineas)
  PROVE  /\ [p \in Productos |-> Cantidad(items, p)] \in [Productos -> Int]
         /\ Total([p \in Productos |-> Cantidad(items, p)]) = Vale(items, Len(items))
<1>1. Len(items) \in Nat /\ DOMAIN items = 1 .. Len(items)
  BY LenProperties
<1>2. \A p : Cantidad(items, p) = Hasta(items, Len(items), p)
  BY <1>1 DEF Cantidad, Hasta
<1>3. [p \in Productos |-> Cantidad(items, p)] = [p \in Productos |-> Hasta(items, Len(items), p)]
  BY <1>2
<1> QED
  BY <1>1, <1>3, ValeTipo DEF Vale

-----------------------------------------------------------------------------
(* Frames of the books *)

LEMMA CuentaAjena ==
  ASSUME NEW r \in Requests, NEW q \in Requests, q # r, CuentaBien(q), SoloMueve(r)
  PROVE  CuentaBien(q)'
<1>1. /\ pc'[q] = pc[q] /\ op'[q] = op[q] /\ k'[q] = k[q] /\ plan'[q] = plan[q]
      /\ delta'[q] = delta[q]
  BY DEF SoloMueve
<1>2. CaminoDeVenta(q)'
  BY <1>1 DEF CuentaBien, CaminoDeVenta, EsVenta, SinDelta
<1>3. VentaAlDia(q)'
  BY <1>1 DEF CuentaBien, VentaAlDia, EsVenta
<1>4. DesarmeAlDia(q)'
  BY <1>1 DEF CuentaBien, DesarmeAlDia
<1>5. \A n : Restaura(q, n) => Restaura(q, n)'
  BY <1>1 DEF Restaura
<1>6. AnulacionAlDia(q)'
  BY <1>1, <1>5 DEF CuentaBien, AnulacionAlDia
<1> QED
  BY <1>2, <1>3, <1>4, <1>6 DEF CuentaBien

(* The conclusion of each commit's proof. *)
LEMMA LibrosDeUna ==
  ASSUME LibrosInv, NEW r \in Requests, SoloMueve(r), CuentaBien(r)',
         sucursal' \in [Productos -> Int], ledger' \in [Productos -> Int],
         UNCHANGED <<sesion, recibidas>>,
         Len(ventas) <= Len(ventas'), Len(ventas) \in Nat, Len(ventas') \in Nat,
         op'[r].venta \in 0 .. Len(ventas'),
         StockConservado', SucursalConservada'
  PROVE  LibrosInv'
<1>1. \A q \in Requests : CuentaBien(q)'
  BY CuentaAjena DEF LibrosInv
<1>2. \A q \in Requests : op'[q].venta \in 0 .. Len(ventas')
  BY DEF LibrosInv, SoloMueve
<1> QED
  BY <1>1, <1>2 DEF LibrosInv

(* A step that leaves the three columns of stock alone. *)
LEMMA LibrosQuietos ==
  ASSUME LibrosInv, NEW r \in Requests, SoloMueve(r), CuentaBien(r)',
         UNCHANGED <<stock, sucursal, ledger, sesion>>, recibidas' \in 0 .. MaxRequests,
         Len(ventas') = Len(ventas), op'[r].venta \in 0 .. Len(ventas)
  PROVE  LibrosInv'
<1>1. \A q \in Requests : CuentaBien(q)'
  BY CuentaAjena DEF LibrosInv
<1>2. \A q \in Requests : op'[q].venta \in 0 .. Len(ventas')
  BY DEF LibrosInv, SoloMueve
<1>3. StockConservado' /\ SucursalConservada'
  BY DEF LibrosInv, StockConservado, SucursalConservada
<1> QED
  BY <1>1, <1>2, <1>3 DEF LibrosInv

(* A request that is not writing has nothing in the books. *)
LEMMA CuentaFuera ==
  ASSUME NEW r \in Requests, pc'[r] \notin {"bloqueo", "insertar", "escritura"},
         pc'[r] \in {"sesion", "lineas", "encolar"} => EsVenta(op[r])'
  PROVE  CuentaBien(r)'
  BY DEF CuentaBien, CaminoDeVenta, VentaAlDia, DesarmeAlDia, AnulacionAlDia

LEMMA ResponderLibros ==
  ASSUME IInv, LibrosInv, NEW r \in Requests, Responder(r)
  PROVE  LibrosInv'
<1>1. pc'[r] = "libre" /\ op'[r] = SinOp
  BY DEF Responder, Olvida, IInv, TiposInv
<1>2. SoloMueve(r)
  BY DEF Responder, Olvida, LimpiaTx, IInv, TiposInv, SoloMueve
<1>3. UNCHANGED <<stock, sucursal, ledger, ventas, sesion, recibidas>>
  BY DEF Responder, dbVars
<1>4. op'[r].venta \in 0 .. Len(ventas)
  <2>1. SinOp.venta = 0 /\ Len(ventas) \in Nat
    BY DEF SinOp, IInv, TiposInv
  <2> QED
    BY <1>1, <2>1
<1>5. recibidas' \in 0 .. MaxRequests
  BY <1>3 DEF LibrosInv
<1>6. CuentaBien(r)'
  BY <1>1, CuentaFuera
<1> QED
  BY <1>2, <1>3, <1>4, <1>5, <1>6, LibrosQuietos

(* The pass of a check, or of a statement that only moves the pc. *)
LEMMA AvanceLibros ==
  ASSUME IInv, LibrosInv, NEW r \in Requests, NEW donde, pc' = [pc EXCEPT ![r] = donde],
         UNCHANGED <<dbVars, sesion, recibidas, op, plan, delta>>,
         \A q \in Requests \ {r} : k'[q] = k[q], CuentaBien(r)'
  PROVE  LibrosInv'
<1>1. SoloMueve(r)
  BY DEF SoloMueve, IInv, TiposInv
<1>2. op'[r].venta \in 0 .. Len(ventas) /\ recibidas' \in 0 .. MaxRequests
  BY DEF LibrosInv
<1> QED
  BY <1>1, <1>2, LibrosQuietos DEF dbVars

LEMMA RevisionLibros ==
  ASSUME IInv, LibrosInv, NEW r \in Requests, FiltrarDuplicados(r) \/ RevisarSesion(r)
  PROVE  LibrosInv'
<1>1. CASE Responder(r)
  BY <1>1, ResponderLibros
<1>2. ASSUME NEW donde \in {"sesion", "lineas"}, EsVenta(op[r]),
             Avanza(r, donde), UNCHANGED <<lock, txVars, conflicto>>
      PROVE  LibrosInv'
  <2>1. /\ pc' = [pc EXCEPT ![r] = donde] /\ pc'[r] = donde
        /\ UNCHANGED <<dbVars, sesion, recibidas, op, k, plan, delta>>
    BY <1>2 DEF Avanza, txVars, IInv, TiposInv
  <2>2. CuentaBien(r)'
    BY <1>2, <2>1, CuentaFuera DEF EsVenta
  <2> QED
    BY <2>1, <2>2, AvanceLibros
<1>3. EsVenta(op[r])
  BY DEF FiltrarDuplicados, RevisarSesion, EsVenta, LibrosInv, CuentaBien, CaminoDeVenta
<1> QED
  BY <1>1, <1>2, <1>3 DEF FiltrarDuplicados, RevisarSesion

LEMMA LineasLibros ==
  ASSUME IInv, LibrosInv, NEW r \in Requests, RevisarLineas(r)
  PROVE  LibrosInv'
<1> DEFINE donde == IF op[r].tipo = "online" THEN "bloqueo" ELSE "insertar"
<1>1. CASE Responder(r)
  BY <1>1, ResponderLibros
<1>2. CASE Avanza(r, donde) /\ UNCHANGED <<lock, txVars>>
  <2>1. /\ pc' = [pc EXCEPT ![r] = donde] /\ pc'[r] = donde
        /\ UNCHANGED <<dbVars, sesion, recibidas, op, k, plan, delta>>
    BY <1>2 DEF Avanza, txVars, IInv, TiposInv
  <2>2. pc[r] = "lineas" /\ EsVenta(op[r])
    BY DEF RevisarLineas, LibrosInv, CuentaBien, CaminoDeVenta
  <2>3. k[r] = 1 /\ plan[r] = << >> /\ delta[r] = SinDelta
    BY <2>2 DEF IInv, Propia, FueraDeTx, EnTx
  <2>4. CaminoDeVenta(r)'
    BY <2>1, <2>2, <2>3 DEF CaminoDeVenta, EsVenta, SinDelta
  <2>5. CuentaBien(r)'
    BY <2>1, <2>4 DEF CuentaBien, VentaAlDia, DesarmeAlDia, AnulacionAlDia
  <2> QED
    BY <2>1, <2>5, AvanceLibros
<1> QED
  BY <1>1, <1>2 DEF RevisarLineas

LEMMA BloqueoLibros ==
  ASSUME IInv, LibrosInv, NEW r \in Requests, BloquearLinea(r)
  PROVE  LibrosInv'
<1> DEFINE l == op[r].items[k[r]]
           ultima == k[r] = Len(op[r].items)
           donde == IF ultima THEN "insertar" ELSE "bloqueo"
<1>1. CASE Responder(r)
  BY <1>1, ResponderLibros
<1>2. CASE /\ k' = [k EXCEPT ![r] = IF ultima THEN 1 ELSE k[r] + 1]
           /\ pc' = [pc EXCEPT ![r] = donde]
           /\ UNCHANGED <<dbVars, sesion, recibidas, reqVars, plan, delta>>
  <2>1. /\ pc'[r] = donde /\ pc[r] = "bloqueo" /\ UNCHANGED <<op, plan, delta>>
        /\ k'[r] = (IF ultima THEN 1 ELSE k[r] + 1) /\ \A q \in Requests \ {r} : k'[q] = k[q]
    BY <1>2 DEF BloquearLinea, reqVars, IInv, TiposInv
  <2>2. EsVenta(op[r]) /\ plan[r] = << >> /\ delta[r] = SinDelta
    BY <2>1 DEF LibrosInv, CuentaBien, CaminoDeVenta
  <2>3. CaminoDeVenta(r)'
    BY <2>1, <2>2 DEF CaminoDeVenta, EsVenta, SinDelta
  <2>4. CuentaBien(r)'
    BY <2>1, <2>3 DEF CuentaBien, VentaAlDia, DesarmeAlDia, AnulacionAlDia
  <2>5. UNCHANGED <<dbVars, sesion, recibidas, op, plan, delta>>
    BY <1>2, <2>1
  <2> QED
    BY <1>2, <2>1, <2>4, <2>5, AvanceLibros
<1> QED
  BY <1>1, <1>2 DEF BloquearLinea

-----------------------------------------------------------------------------
(* What a plan is worth *)

LEMMA DebePartes ==
  /\ Debe(<< >>) = 0 /\ Len(<< >>) = 0
  /\ \A a : Debe(<<a>>) = ValeCambio(a) /\ Len(<<a>>) <= 2
  /\ \A a, b : Debe(<<a, b>>) = ValeCambio(a) + ValeCambio(b) /\ Len(<<a, b>>) <= 2
  BY DEF Debe

(* Opening n padres and giving their units to the child changes nothing of  *)
(* what the two are worth.                                                  *)
LEMMA Abre == \A w, n, u, c \in Int : (u * w) * (-n) + w * (n * u - c) = -(w * c)
  BY Z3

(* The UPDATEs of a line take what the line is worth, padres opened or not. *)
LEMMA PlanVale ==
  ASSUME TiposInv, NEW r \in Requests, NEW l \in Lineas
  PROVE  /\ Len(PlanDescuento(r, l)) <= 2
         /\ Debe(PlanDescuento(r, l)) = -(Peso[l.p] * l.c)
<1>1. l.p \in Productos /\ l.c \in Nat
  BY DEF Lineas
<1>2. \A p \in Productos : Lee(r, p) \in Int
  BY DEF Lee, TiposInv
<1>3. PICK w \in Int, c \in Int : w = Peso[l.p] /\ c = l.c
  BY <1>1, VentasAssumption
<1>4. CASE PlanDescuento(r, l) = <<[p |-> l.p, d |-> -l.c]>>
  <2>1. PICK a : a = [p |-> l.p, d |-> -l.c]
    OBVIOUS
  <2>2. ValeCambio(a) = w * (-c)
    BY <1>3, <2>1 DEF ValeCambio
  <2>3. w * (-c) = -(w * c)
    BY <1>3
  <2> QED
    BY <1>3, <1>4, <2>1, <2>2, <2>3, DebePartes
<1>5. CASE /\ ~(Lee(r, l.p) >= l.c) /\ l.p \in DOMAIN Vinculo
           /\ PlanDescuento(r, l) # <<[p |-> l.p, d |-> -l.c]>>
  <2> DEFINE v == Vinculo[l.p]
             m == PadresNecesarios(l.c - Lee(r, l.p), v.unidades)
  <2>1. v.padre \in Productos /\ v.unidades \in Nat \ {0} /\ Peso[v.padre] = v.unidades * w
    BY <1>3, <1>5, VentasAssumption
  <2>2. l.c - Lee(r, l.p) + v.unidades - 1 \in Int
    BY <1>1, <1>2, <2>1
  <2>3. PICK n \in Int, u \in Int : n = m /\ u = v.unidades
    BY <2>1, <2>2 DEF PadresNecesarios
  <2>4. PlanDescuento(r, l) = <<[p |-> v.padre, d |-> -m], [p |-> l.p, d |-> m * v.unidades - l.c]>>
    BY <1>5 DEF PlanDescuento
  <2> HIDE DEF m
  <2>5. PICK a, b : a = [p |-> v.padre, d |-> -n] /\ b = [p |-> l.p, d |-> n * u - c]
    OBVIOUS
  <2>6. PlanDescuento(r, l) = <<a, b>>
    BY <1>3, <2>3, <2>4, <2>5
  <2>7. ValeCambio(a) = (u * w) * (-n) /\ ValeCambio(b) = w * (n * u - c)
    BY <1>3, <2>1, <2>3, <2>5 DEF ValeCambio
  <2>8. ValeCambio(a) + ValeCambio(b) = -(w * c)
    BY <2>7, Abre
  <2> QED
    BY <1>3, <2>6, <2>8, DebePartes
<1> QED
  BY <1>4, <1>5 DEF PlanDescuento

LEMMA InsertarLibros ==
  ASSUME IInv, LibrosInv, NEW r \in Requests, Insertar(r)
  PROVE  LibrosInv'
<1>1. CASE Responder(r)
  BY <1>1, ResponderLibros
<1>2. CASE Avanza(r, "escritura") /\ UNCHANGED <<lock, txVars, conflicto>>
  <2>1. /\ pc' = [pc EXCEPT ![r] = "escritura"] /\ pc'[r] = "escritura"
        /\ UNCHANGED <<dbVars, sesion, recibidas, op, k, plan, delta>>
    BY <1>2 DEF Avanza, txVars, IInv, TiposInv
  <2>2. pc[r] = "insertar" /\ EsVenta(op[r]) /\ plan[r] = << >> /\ delta[r] = SinDelta /\ k[r] = 1
    BY DEF Insertar, LibrosInv, CuentaBien, CaminoDeVenta
  <2>3. PICK items \in Seq(Lineas) : items = op[r].items
    BY DEF IInv, TiposInv, Op
  <2>4. PICK n \in Nat : n = Len(items)
    BY <2>3
  <2>5. Vale(items, 0) = 0 /\ Total(SinDelta) = 0
    BY ValeNada, TotalCero
  <2>6. k[r] - 1 = 0 /\ 0 \in 0 .. n /\ Len(plan[r]) <= 2 /\ Total(delta[r]) + Debe(plan[r]) = -Vale(items, 0)
    BY <2>2, <2>5, DebePartes
  <2>7. VentaAlDia(r)'
    BY <2>1, <2>3, <2>4, <2>6 DEF VentaAlDia
  <2>8. CuentaBien(r)'
    BY <2>1, <2>2, <2>7 DEF CuentaBien, CaminoDeVenta, DesarmeAlDia, AnulacionAlDia, EsVenta
  <2> QED
    BY <2>1, <2>8, AvanceLibros
<1> QED
  BY <1>1, <1>2 DEF Insertar

LEMMA LeerLibros ==
  ASSUME IInv, LibrosInv, NEW r \in Requests, LeerLinea(r)
  PROVE  LibrosInv'
<1>1. /\ pc[r] = "escritura" /\ EsVenta(op[r]) /\ plan[r] = << >> /\ k[r] <= Len(op[r].items)
      /\ plan' = [plan EXCEPT ![r] = PlanDescuento(r, op[r].items[k[r]])]
      /\ k' = [k EXCEPT ![r] = k[r] + 1] /\ pc' = [pc EXCEPT ![r] = "escritura"]
      /\ UNCHANGED <<stock, sucursal, ledger, ventas, sesion, recibidas, op, delta>>
  BY DEF LeerLinea, Avanza, dbVars
<1>2. SoloMueve(r) /\ pc'[r] = "escritura" /\ k'[r] = k[r] + 1
      /\ plan'[r] = PlanDescuento(r, op[r].items[k[r]])
  BY <1>1 DEF SoloMueve, IInv, TiposInv
<1>3. PICK items \in Seq(Lineas), n \in Nat, d \in [Productos -> Int] :
        items = op[r].items /\ n + 1 = k[r] /\ d = delta[r]
  <2>1. op[r].items \in Seq(Lineas) /\ k[r] \in Nat \ {0} /\ delta[r] \in [Productos -> Int]
    BY DEF IInv, TiposInv, Op
  <2>2. PICK n \in Nat : n + 1 = k[r]
    <3>1. k[r] - 1 \in Nat /\ (k[r] - 1) + 1 = k[r]
      BY <2>1
    <3> QED
      BY <3>1
  <2> QED
    BY <2>1, <2>2
<1>4. n + 1 <= Len(items) /\ Len(items) \in Nat
  BY <1>1, <1>3
<1>5. PICK l \in Lineas : l = items[n + 1]
  BY <1>4, ElementOfSeq
<1>6. Total(d) + 0 = -Vale(items, n)
  <2>1. k[r] - 1 = n
    BY <1>3
  <2> QED
    BY <1>1, <1>3, <2>1, DebePartes DEF LibrosInv, CuentaBien, VentaAlDia
<1>7. PICK t \in Int, x \in Int, y \in Int : t = Total(d) /\ x = Vale(items, n) /\ y = Peso[l.p] * l.c
  <2>1. n \in 0 .. Len(items)
    BY <1>4
  <2>2. l.p \in Productos /\ l.c \in Int /\ Peso \in [Productos -> Int]
    BY VentasAssumption DEF Lineas
  <2>3. Peso[l.p] * l.c \in Int
    BY <2>2
  <2> QED
    BY <2>1, <2>3, Valuacion, ValeTipo
<1>8. Vale(items, n + 1) = x + y
  BY <1>4, <1>5, <1>7, ValeSigue
<1>9. Len(plan'[r]) <= 2 /\ Debe(plan'[r]) = -y
  BY <1>2, <1>3, <1>5, <1>7, PlanVale DEF IInv
<1>10. /\ k'[r] - 1 = n + 1 /\ n + 1 \in 0 .. Len(items) /\ Len(plan'[r]) <= 2
       /\ Total(d) + Debe(plan'[r]) = -Vale(items, n + 1)
  <2>1. k'[r] - 1 = n + 1 /\ n + 1 \in 0 .. Len(items)
    BY <1>2, <1>3, <1>4
  <2>2. t = -x
    BY <1>6, <1>7
  <2>3. t + (-y) = -(x + y)
    BY <2>2
  <2>5. PICK e : e = plan'[r]
    OBVIOUS
  <2>6. Total(d) = t /\ Debe(e) = -y /\ Vale(items, n + 1) = x + y
    BY <1>7, <1>8, <1>9, <2>5
  <2>7. Total(d) + Debe(e) = -Vale(items, n + 1)
    BY <2>3, <2>6
  <2> QED
    BY <1>9, <2>1, <2>5, <2>7
<1>11. VentaAlDia(r)'
  BY <1>1, <1>3, <1>10 DEF VentaAlDia
<1>12. CuentaBien(r)'
  BY <1>1, <1>2, <1>11 DEF CuentaBien, CaminoDeVenta, DesarmeAlDia, AnulacionAlDia, EsVenta
<1>13. op'[r].venta \in 0 .. Len(ventas) /\ recibidas' \in 0 .. MaxRequests
  BY <1>1 DEF LibrosInv
<1> QED
  BY <1>1, <1>2, <1>12, <1>13, LibrosQuietos

(* One UPDATE less to run is one change less to owe. *)
LEMMA DebeMenos ==
  ASSUME NEW pl \in Seq(Cambios), pl # << >>, Len(pl) <= 2
  PROVE  /\ Debe(pl) = ValeCambio(Head(pl)) + Debe(Tail(pl)) /\ Len(Tail(pl)) <= 2
         /\ Debe(Tail(pl)) \in Int
<1>1. \A c \in Cambios : ValeCambio(c) \in Int
  <2>1. TAKE c \in Cambios
  <2>2. PICK w \in Int, d \in Int : w = Peso[c.p] /\ d = c.d
    BY VentasAssumption DEF Cambios
  <2>3. w * d \in Int
    OBVIOUS
  <2> QED
    BY <2>2, <2>3 DEF ValeCambio
<1>2. CASE Len(pl) = 1
  <2>1. PICK a \in Cambios : pl = <<a>>
    BY <1>2
  <2>2. Head(pl) = a /\ Tail(pl) = << >>
    BY <2>1
  <2> QED
    BY <1>1, <2>1, <2>2, DebePartes
<1>3. CASE Len(pl) = 2
  <2>1. PICK a \in Cambios, b \in Cambios : pl = <<a, b>>
    BY <1>3
  <2>2. Head(pl) = a /\ Tail(pl) = <<b>>
    BY <2>1
  <2> QED
    BY <1>1, <2>1, <2>2, DebePartes
<1>4. Len(pl) = 1 \/ Len(pl) = 2
  <2>1. PICK n \in Nat \ {0} : n = Len(pl)
    BY EmptySeq
  <2>2. n <= 2
    BY <2>1
  <2>3. n = 1 \/ n = 2
    BY <2>2
  <2> QED
    BY <2>1, <2>3
<1> QED
  BY <1>2, <1>3, <1>4

LEMMA UpdateLibros ==
  ASSUME IInv, LibrosInv, NEW r \in Requests, UpdateStockTx(r)
  PROVE  LibrosInv'
<1>1. PICK pl \in Seq(Cambios), d \in [Productos -> Int], items \in Seq(Lineas) :
        pl = plan[r] /\ d = delta[r] /\ items = op[r].items
  BY DEF IInv, TiposInv, Op
<1>2. pc[r] = "escritura" /\ pl # << >>
  BY <1>1 DEF UpdateStockTx
<1>3. PICK u \in Cambios, q \in Productos, c \in Int : u = Head(pl) /\ q = u.p /\ c = u.d
  <2>1. Head(pl) \in Cambios
    BY <1>2
  <2> QED
    BY <2>1 DEF Cambios
<1>4. /\ delta' = [delta EXCEPT ![r] = [delta[r] EXCEPT ![u.p] = delta[r][u.p] + u.d]]
      /\ plan' = [plan EXCEPT ![r] = Tail(plan[r])] /\ pc' = [pc EXCEPT ![r] = "escritura"]
      /\ UNCHANGED <<stock, sucursal, ledger, ventas, sesion, recibidas, op, k>>
  BY <1>1, <1>3 DEF UpdateStockTx, Avanza, dbVars
<1>5. /\ SoloMueve(r) /\ pc'[r] = "escritura" /\ plan'[r] = Tail(pl)
      /\ delta'[r] = [d EXCEPT ![q] = d[q] + c]
  BY <1>1, <1>3, <1>4 DEF IInv, TiposInv, SoloMueve
<1>6. PICK e \in [Productos -> Int] : e = delta'[r] /\ e[q] = d[q] + c /\ \A p \in Productos \ {q} : e[p] = d[p]
  <2>1. [d EXCEPT ![q] = d[q] + c] \in [Productos -> Int]
    OBVIOUS
  <2> QED
    BY <1>5, <2>1
<1>7. Total(e) = Total(d) + Peso[q] * c
  BY <1>6, TotalUno
<1>8. PICK t \in Int, x \in Int : t = Total(d) /\ x = Peso[q] * c /\ Total(e) = t + x /\ ValeCambio(u) = x
  <2>1. Peso[q] * c \in Int
    BY VentasAssumption
  <2>2. ValeCambio(u) = Peso[q] * c
    BY <1>3 DEF ValeCambio
  <2> QED
    BY <1>7, <2>1, <2>2, Valuacion
<1>9. Len(pl) <= 2 => Len(Tail(pl)) <= 2 /\ Total(e) + Debe(Tail(pl)) = Total(d) + Debe(pl)
  <2> SUFFICES ASSUME Len(pl) <= 2
               PROVE  Len(Tail(pl)) <= 2 /\ Total(e) + Debe(Tail(pl)) = Total(d) + Debe(pl)
    OBVIOUS
  <2>1. PICK y \in Int : y = Debe(Tail(pl)) /\ Debe(pl) = x + y
    BY <1>2, <1>3, <1>8, DebeMenos
  <2>2. (t + x) + y = t + (x + y)
    BY <2>1
  <2> QED
    BY <1>2, <1>8, <2>1, <2>2, DebeMenos
<1>10. VentaAlDia(r) /\ DesarmeAlDia(r) /\ AnulacionAlDia(r) /\ k'[r] = k[r] /\ op'[r] = op[r]
  BY <1>4 DEF LibrosInv, CuentaBien
<1>11. VentaAlDia(r)'
  BY <1>1, <1>2, <1>5, <1>6, <1>9, <1>10 DEF VentaAlDia, EsVenta
<1>12. DesarmeAlDia(r)'
  BY <1>1, <1>2, <1>5, <1>6, <1>9, <1>10 DEF DesarmeAlDia
<1>13. AnulacionAlDia(r)'
  <2> SUFFICES ASSUME op[r].tipo = "anular" PROVE \E n \in 0 .. Len(items) : Restaura(r, n)'
    BY <1>1, <1>10 DEF AnulacionAlDia
  <2>1. PICK n \in 0 .. Len(items) : Restaura(r, n)
    BY <1>1, <1>2, <1>10 DEF AnulacionAlDia
  <2>2. /\ Len(items) = n + Len(pl) /\ Total(d) = Vale(items, n)
        /\ \A j \in DOMAIN pl : pl[j].p = items[n + j].p /\ pl[j].d = items[n + j].c
    BY <1>1, <2>1 DEF Restaura
  <2>3. PICK m \in Nat : m = Len(Tail(pl)) /\ Len(pl) = m + 1 /\ DOMAIN pl = 1 .. m + 1
                         /\ DOMAIN Tail(pl) = 1 .. m /\ \A j \in 1 .. m : Tail(pl)[j] = pl[j + 1]
    <3>1. Len(pl) \in Nat \ {0} /\ DOMAIN pl = 1 .. Len(pl) /\ Tail(pl) \in Seq(Cambios)
      BY <1>2, EmptySeq, LenProperties
    <3>2. PICK m \in Nat : Len(pl) = m + 1
      <4>1. PICK i \in Nat \ {0} : i = Len(pl)
        BY <1>2, EmptySeq
      <4>2. i - 1 \in Nat /\ i = (i - 1) + 1
        OBVIOUS
      <4> QED
        BY <4>1, <4>2
    <3>3. Len(Tail(pl)) = m /\ DOMAIN Tail(pl) = 1 .. m
      BY <1>2, <3>1, <3>2
    <3>4. \A j \in 1 .. m : Tail(pl)[j] = pl[j + 1]
      BY <1>2, <3>2
    <3> QED
      BY <3>1, <3>2, <3>3, <3>4
  <2>4. n \in Nat /\ Len(items) = (n + 1) + m /\ Len(items) \in Nat
    <3>1. PICK a \in Nat : a = Len(items)
      BY LenProperties
    <3>2. n \in 0 .. a /\ Len(items) = n + Len(pl) /\ Len(pl) = m + 1
      BY <2>2, <2>3, <3>1, Zenon
    <3>3. n \in Nat
      BY <3>2
    <3>4. a = n + (m + 1)
      BY <3>1, <3>2
    <3>5. a = (n + 1) + m
      BY <3>3, <3>4
    <3> QED
      BY <3>1, <3>3, <3>5
  <2>5. n + 1 \in 0 .. Len(items) /\ n + 1 <= Len(items)
    BY <2>4
  <2>6. q = items[n + 1].p /\ c = items[n + 1].c
    <3>1. 1 \in DOMAIN pl /\ Head(pl) = pl[1]
      BY <2>3
    <3> QED
      BY <1>3, <2>2, <3>1
  <2>7. Total(e) = Vale(items, n + 1)
    BY <1>7, <2>2, <2>4, <2>5, <2>6, ValeSigue
  <2>8. \A j \in DOMAIN Tail(pl) :
          Tail(pl)[j].p = items[(n + 1) + j].p /\ Tail(pl)[j].d = items[(n + 1) + j].c
    <3>1. TAKE j \in DOMAIN Tail(pl)
    <3>2. PICK i \in 1 .. m : i = j
      BY <2>3
    <3>3. i + 1 \in 1 .. m + 1 /\ n + (i + 1) = (n + 1) + i
      BY <2>4
    <3>4. Tail(pl)[i] = pl[i + 1] /\ i + 1 \in DOMAIN pl
      BY <2>3, <3>3, Zenon
    <3>5. pl[i + 1].p = items[n + (i + 1)].p /\ pl[i + 1].d = items[n + (i + 1)].c
      BY <2>2, <3>4, Zenon
    <3> QED
      BY <3>2, <3>3, <3>4, <3>5
  <2>9. Restaura(r, n + 1)'
    BY <1>1, <1>5, <1>6, <1>10, <2>3, <2>4, <2>7, <2>8 DEF Restaura
  <2> QED
    BY <2>5, <2>9
<1>14. CuentaBien(r)'
  BY <1>5, <1>11, <1>12, <1>13 DEF CuentaBien, CaminoDeVenta
<1>15. op'[r].venta \in 0 .. Len(ventas) /\ recibidas' \in 0 .. MaxRequests
  BY <1>4 DEF LibrosInv
<1> QED
  BY <1>4, <1>5, <1>14, <1>15, LibrosQuietos

-----------------------------------------------------------------------------
(* The commits *)

(* A commit that writes to both books what its UPDATEs are worth. *)
LEMMA Asienta ==
  ASSUME IInv, LibrosInv, NEW r \in Requests,
         stock' = [p \in Productos |-> stock[p] + delta[r][p]],
         sucursal' \in [Productos -> Int], ledger' \in [Productos -> Int],
         NEW m \in [Productos -> Int], NEW n \in [Productos -> Int],
         Total(m) = Total(delta[r]), Total(n) = Total(delta[r]),
         \A p \in Productos : ledger'[p] = ledger[p] + m[p],
         \A p \in Productos : sucursal'[p] = sucursal[p] + n[p]
  PROVE  StockConservado' /\ SucursalConservada'
<1>1. PICK s \in [Productos -> Int], u \in [Productos -> Int], l \in [Productos -> Int], d \in [Productos -> Int] :
        s = stock /\ u = sucursal /\ l = ledger /\ d = delta[r]
  BY DEF IInv, TiposInv, LibrosInv
<1>2. PICK s2 \in [Productos -> Int], u2 \in [Productos -> Int], l2 \in [Productos -> Int] :
        s2 = stock' /\ u2 = sucursal' /\ l2 = ledger'
  <2>1. [p \in Productos |-> s[p] + d[p]] \in [Productos -> Int]
    OBVIOUS
  <2> QED
    BY <1>1, <2>1
<1>3. \A p \in Productos : s2[p] = s[p] + d[p]
  BY <1>1, <1>2
<1>4. Total(s2) = Total(s) + Total(d)
  BY <1>3, TotalSuma
<1>5. Total(l2) = Total(l) + Total(m)
  <2>1. \A p \in Productos : l2[p] = l[p] + m[p]
    BY <1>1, <1>2
  <2> QED
    BY <2>1, TotalSuma
<1>6. Total(u2) = Total(u) + Total(n)
  <2>1. \A p \in Productos : u2[p] = u[p] + n[p]
    BY <1>1, <1>2
  <2> QED
    BY <2>1, TotalSuma
<1>7. Total(s) = Total(Stock0) + Total(l) /\ Total(s) - Total(u) = Total(Stock0) - Total(Sucursal0)
  BY <1>1 DEF LibrosInv, StockConservado, SucursalConservada
<1>8. PICK a \in Int, b \in Int, c \in Int, x \in Int, y \in Int, z \in Int :
        /\ a = Total(s) /\ b = Total(u) /\ c = Total(l) /\ x = Total(d)
        /\ y = Total(Stock0) /\ z = Total(Sucursal0)
  <2>1. PICK f \in [Productos -> Int], g \in [Productos -> Int] : f = Stock0 /\ g = Sucursal0
    BY VentasAssumption
  <2>2. Total(f) \in Int /\ Total(g) \in Int /\ Total(s) \in Int /\ Total(u) \in Int
        /\ Total(l) \in Int /\ Total(d) \in Int
    BY Valuacion
  <2> QED
    BY <2>1, <2>2
<1>9. Total(m) = x /\ Total(n) = x
  BY <1>1, <1>8
<1>10. a = y + c /\ a - b = y - z
  BY <1>7, <1>8
<1>11. a + x = y + (c + x) /\ (a + x) - (b + x) = y - z
  BY <1>10
<1>12. Total(s2) = Total(Stock0) + Total(l2) /\ Total(s2) - Total(u2) = Total(Stock0) - Total(Sucursal0)
  BY <1>4, <1>5, <1>6, <1>8, <1>9, <1>11
<1> QED
  BY <1>2, <1>12 DEF StockConservado, SucursalConservada

(* The quantities of an item list, in the sense of the commit. *)
LEMMA Partidas ==
  ASSUME NEW items \in Seq(Lineas)
  PROVE  \E c \in [Productos -> Int], x \in Int :
           /\ \A p \in Productos : c[p] = Cantidad(items, p)
           /\ Total(c) = x /\ Vale(items, Len(items)) = x
<1>1. [p \in Productos |-> Cantidad(items, p)] \in [Productos -> Int]
  BY ValeTodo
<1>2. PICK c \in [Productos -> Int] : c = [p \in Productos |-> Cantidad(items, p)]
  BY <1>1
<1>3. PICK x \in Int : x = Total(c)
  BY Valuacion
<1>4. Vale(items, Len(items)) = x
  BY <1>2, <1>3, ValeTodo
<1> QED
  BY <1>2, <1>3, <1>4

LEMMA TotalNegado ==
  ASSUME NEW c \in [Productos -> Int], NEW m \in [Productos -> Int], NEW x \in Int,
         \A p \in Productos : m[p] = -c[p], Total(c) = x
  PROVE  Total(m) = -x
<1>1. PICK z \in [Productos -> Int] : z = SinDelta /\ Total(z) = 0
  BY TotalCero
<1>2. \A p \in Productos : m[p] = z[p] - c[p]
  BY <1>1 DEF SinDelta
<1>3. Total(m) = Total(z) - Total(c)
  BY <1>2, TotalResta
<1> QED
  BY <1>1, <1>3

LEMMA ConfirmarVentaLibros ==
  ASSUME IInv, LibrosInv, NEW r \in Requests, ConfirmarVenta(r)
  PROVE  LibrosInv'
<1>1. PICK items \in Seq(Lineas), d \in [Productos -> Int], n \in Nat, i \in Nat :
        items = op[r].items /\ d = delta[r] /\ n = Len(ventas) /\ i = Len(items)
  <2>1. op[r].items \in Seq(Lineas) /\ delta[r] \in [Productos -> Int] /\ Len(ventas) \in Nat
    BY DEF IInv, TiposInv, Op
  <2> QED
    BY <2>1, LenProperties
<1>2. /\ pc[r] = "escritura" /\ plan[r] = << >> /\ EsVenta(op[r]) /\ k[r] > i
  BY <1>1 DEF ConfirmarVenta, TxCompleta
<1>3. k[r] - 1 = i
  <2>1. PICK j \in Nat : j = k[r]
    BY DEF IInv, TiposInv
  <2>2. j - 1 \in 0 .. i /\ j > i
    BY <1>1, <1>2, <2>1 DEF LibrosInv, CuentaBien, VentaAlDia
  <2> QED
    BY <2>1, <2>2
<1>4. PICK c \in [Productos -> Int], x \in Int :
        /\ \A p \in Productos : c[p] = Cantidad(items, p)
        /\ Total(c) = x /\ Vale(items, Len(items)) = x
  BY Partidas
<1>5. Total(d) = -x
  <2>1. Total(d) + 0 = -x
    BY <1>1, <1>2, <1>3, <1>4, DebePartes DEF LibrosInv, CuentaBien, VentaAlDia
  <2>2. PICK t \in Int : t = Total(d)
    BY Valuacion
  <2> QED
    BY <2>1, <2>2
<1>6. PICK m \in [Productos -> Int] : \A p \in Productos : m[p] = -c[p]
  <2>1. [p \in Productos |-> -c[p]] \in [Productos -> Int]
    OBVIOUS
  <2>2. PICK m \in [Productos -> Int] : m = [p \in Productos |-> -c[p]]
    BY <2>1
  <2> QED
    BY <2>2
<1>7. Total(m) = Total(delta[r])
  BY <1>1, <1>4, <1>5, <1>6, TotalNegado
<1>8. /\ ledger' = [p \in Productos |-> ledger[p] - Cantidad(items, p)]
      /\ sucursal' = [p \in Productos |-> sucursal[p] - Cantidad(items, p)]
  BY <1>1 DEF ConfirmarVenta
<1>9. /\ ledger' \in [Productos -> Int] /\ sucursal' \in [Productos -> Int]
      /\ \A p \in Productos : ledger'[p] = ledger[p] + m[p] /\ sucursal'[p] = sucursal[p] + m[p]
  <2>1. ledger \in [Productos -> Int] /\ sucursal \in [Productos -> Int]
    BY DEF LibrosInv
  <2> QED
    BY <1>4, <1>6, <1>8, <2>1
<1>10. stock' = [p \in Productos |-> stock[p] + delta[r][p]] /\ Confirma(r)
  BY DEF ConfirmarVenta, Confirma
<1>11. StockConservado' /\ SucursalConservada'
  BY <1>7, <1>9, <1>10, Asienta
<1>12. /\ Len(ventas') = n + 1
       /\ op' = [op EXCEPT ![r] = [op[r] EXCEPT !.venta = n + 1]]
       /\ pc' = [pc EXCEPT ![r] = "encolar"] /\ UNCHANGED <<sesion, recibidas>>
  BY <1>1 DEF ConfirmarVenta, Confirma, IInv, TiposInv
<1>13. /\ op'[r].venta = n + 1 /\ op'[r].tipo = op[r].tipo /\ pc'[r] = "encolar"
       /\ \A q \in Requests \ {r} : op'[q] = op[q] /\ pc'[q] = pc[q]
  BY <1>12 DEF IInv, TiposInv, Op
<1>14. SoloMueve(r)
  BY <1>10, <1>13, ConfirmaMarco DEF SoloMueve
<1>15. CuentaBien(r)'
  BY <1>2, <1>13, CuentaFuera DEF EsVenta
<1>16. /\ Len(ventas) <= Len(ventas') /\ Len(ventas) \in Nat /\ Len(ventas') \in Nat
       /\ op'[r].venta \in 0 .. Len(ventas')
  BY <1>1, <1>12, <1>13
<1> QED
  BY <1>9, <1>11, <1>12, <1>14, <1>15, <1>16, LibrosDeUna

(* The request ends, its sale rewritten or not. *)
LEMMA FinLibros ==
  ASSUME IInv, LibrosInv, NEW r \in Requests, Olvida(r), Len(ventas') = Len(ventas),
         \A q \in Requests \ {r} : k'[q] = k[q] /\ plan'[q] = plan[q] /\ delta'[q] = delta[q],
         UNCHANGED <<sesion, recibidas>>,
         sucursal' \in [Productos -> Int], ledger' \in [Productos -> Int],
         StockConservado', SucursalConservada'
  PROVE  LibrosInv'
<1>1. /\ op'[r] = SinOp /\ pc'[r] = "libre"
      /\ \A q \in Requests \ {r} : op'[q] = op[q] /\ pc'[q] = pc[q]
  BY DEF Olvida, IInv, TiposInv
<1>2. SoloMueve(r)
  BY <1>1 DEF SoloMueve
<1>3. CuentaBien(r)'
  BY <1>1, CuentaFuera
<1>4. op'[r].venta = 0 /\ Len(ventas) \in Nat
  BY <1>1 DEF SinOp, IInv, TiposInv
<1>5. /\ Len(ventas) <= Len(ventas') /\ Len(ventas) \in Nat /\ Len(ventas') \in Nat
      /\ op'[r].venta \in 0 .. Len(ventas')
  BY <1>4
<1> QED
  BY <1>2, <1>3, <1>5, LibrosDeUna

LEMMA ConfirmarAnulacionLibros ==
  ASSUME IInv, LibrosInv, NEW r \in Requests, ConfirmarAnulacion(r)
  PROVE  LibrosInv'
<1>1. PICK items \in Seq(Lineas), d \in [Productos -> Int], i \in Nat :
        items = op[r].items /\ d = delta[r] /\ i = Len(items)
  <2>1. op[r].items \in Seq(Lineas) /\ delta[r] \in [Productos -> Int]
    BY DEF IInv, TiposInv, Op
  <2> QED
    BY <2>1, LenProperties
<1>2. pc[r] = "escritura" /\ plan[r] = << >> /\ op[r].tipo = "anular"
  BY DEF ConfirmarAnulacion, TxCompleta
<1>3. PICK n \in 0 .. i : i = n + Len(plan[r]) /\ Total(d) = Vale(items, n)
  <2>1. AnulacionAlDia(r)
    BY DEF LibrosInv, CuentaBien
  <2> QED
    BY <1>1, <1>2, <2>1 DEF AnulacionAlDia, Restaura
<1>4. PICK m \in [Productos -> Int], x \in Int :
        /\ \A p \in Productos : m[p] = Cantidad(items, p)
        /\ Total(m) = x /\ Vale(items, Len(items)) = x
  BY Partidas
<1>5. Total(m) = Total(delta[r])
  <2>1. Len(plan[r]) = 0
    BY <1>2
  <2>2. n = i
    BY <1>3, <2>1
  <2> QED
    BY <1>1, <1>3, <1>4, <2>2
<1>6. /\ ledger' = [p \in Productos |-> ledger[p] + Cantidad(items, p)]
      /\ sucursal' = [p \in Productos |-> sucursal[p] + Cantidad(items, p)]
  BY <1>1 DEF ConfirmarAnulacion
<1>7. /\ ledger' \in [Productos -> Int] /\ sucursal' \in [Productos -> Int]
      /\ \A p \in Productos : ledger'[p] = ledger[p] + m[p] /\ sucursal'[p] = sucursal[p] + m[p]
  <2>1. ledger \in [Productos -> Int] /\ sucursal \in [Productos -> Int]
    BY DEF LibrosInv
  <2> QED
    BY <1>4, <1>6, <2>1
<1>8. stock' = [p \in Productos |-> stock[p] + delta[r][p]] /\ Confirma(r) /\ Olvida(r)
  BY DEF ConfirmarAnulacion, Confirma
<1>9. StockConservado' /\ SucursalConservada'
  BY <1>5, <1>7, <1>8, Asienta
<1>10. \A q \in Requests \ {r} : k'[q] = k[q] /\ plan'[q] = plan[q] /\ delta'[q] = delta[q]
  BY <1>8, ConfirmaMarco
<1>11. UNCHANGED <<sesion, recibidas>> /\ Len(ventas') = Len(ventas)
  <2>1. DOMAIN ventas' = DOMAIN ventas /\ ventas \in Seq(VentaFila) /\ ventas' \in Seq(VentaFila)
    BY ConfirmarAnulacionConserva DEF ConfirmarAnulacion, IInv, TiposInv
  <2>2. PICK s \in Seq(VentaFila), t \in Seq(VentaFila) : s = ventas /\ t = ventas' /\ DOMAIN s = DOMAIN t
    BY <2>1
  <2>3. Len(s) = Len(t)
    BY <2>2
  <2> QED
    BY <1>8, <2>2, <2>3 DEF Confirma
<1> QED
  BY <1>7, <1>8, <1>9, <1>10, <1>11, FinLibros

LEMMA ConfirmarDesarmeLibros ==
  ASSUME IInv, LibrosInv, NEW r \in Requests, ConfirmarDesarme(r)
  PROVE  LibrosInv'
<1>1. PICK d \in [Productos -> Int], z \in [Productos -> Int] : d = delta[r] /\ z = SinDelta /\ Total(z) = 0
  BY TotalCero DEF IInv, TiposInv
<1>2. pc[r] = "escritura" /\ plan[r] = << >> /\ op[r].tipo = "desarme" /\ op[r].suc \in BOOLEAN
  BY DEF ConfirmarDesarme, TxCompleta, IInv, TiposInv, Op
<1>3. Total(d) = 0
  <2>1. Total(d) + 0 = 0
    BY <1>1, <1>2, DebePartes DEF LibrosInv, CuentaBien, DesarmeAlDia
  <2>2. PICK t \in Int : t = Total(d)
    BY Valuacion
  <2> QED
    BY <2>1, <2>2
<1>4. PICK n \in [Productos -> Int] : n = IF op[r].suc THEN d ELSE z
  OBVIOUS
<1>5. Total(z) = Total(delta[r]) /\ Total(n) = Total(delta[r])
  BY <1>1, <1>2, <1>3, <1>4
<1>6. ledger \in [Productos -> Int] /\ sucursal \in [Productos -> Int]
  BY DEF LibrosInv
<1>7. /\ ledger' \in [Productos -> Int] /\ sucursal' \in [Productos -> Int]
      /\ \A p \in Productos : ledger'[p] = ledger[p] + z[p]
      /\ \A p \in Productos : sucursal'[p] = sucursal[p] + n[p]
  BY <1>1, <1>4, <1>6 DEF ConfirmarDesarme, SinDelta
<1>8. /\ stock' = [p \in Productos |-> stock[p] + delta[r][p]] /\ Confirma(r) /\ Olvida(r)
      /\ UNCHANGED <<ventas, sesion, recibidas>>
  BY DEF ConfirmarDesarme, Confirma
<1>9. StockConservado' /\ SucursalConservada'
  BY <1>5, <1>7, <1>8, Asienta
<1>10. \A q \in Requests \ {r} : k'[q] = k[q] /\ plan'[q] = plan[q] /\ delta'[q] = delta[q]
  BY <1>8, ConfirmaMarco
<1> QED
  BY <1>7, <1>8, <1>9, <1>10, FinLibros

LEMMA EncolarLibros ==
  ASSUME IInv, LibrosInv, NEW r \in Requests, Encolar(r)
  PROVE  LibrosInv'
<1>1. Olvida(r) /\ UNCHANGED <<stock, sucursal, ledger, sesion, recibidas, k, plan, delta>>
  BY DEF Encolar, txVars
<1>2. Len(ventas') = Len(ventas)
  <2>1. DOMAIN ventas' = DOMAIN ventas /\ ventas \in Seq(VentaFila) /\ ventas' \in Seq(VentaFila)
    BY EncolarConserva DEF Encolar, IInv, TiposInv
  <2>2. PICK s \in Seq(VentaFila), t \in Seq(VentaFila) : s = ventas /\ t = ventas' /\ DOMAIN s = DOMAIN t
    BY <2>1
  <2>3. Len(s) = Len(t)
    BY <2>2
  <2> QED
    BY <2>2, <2>3
<1>3. StockConservado' /\ SucursalConservada'
  BY <1>1 DEF LibrosInv, StockConservado, SucursalConservada
<1>4. sucursal' \in [Productos -> Int] /\ ledger' \in [Productos -> Int]
  BY <1>1 DEF LibrosInv
<1> QED
  BY <1>1, <1>2, <1>3, <1>4, FinLibros

-----------------------------------------------------------------------------
(* Plans made outside a sale *)

LEMMA BuscarVentaLibros ==
  ASSUME IInv, LibrosInv, NEW r \in Requests, BuscarVenta(r)
  PROVE  LibrosInv'
<1> DEFINE v == ventas[op[r].venta]
<1>1. CASE Responder(r)
  BY <1>1, ResponderLibros
<1>2. CASE ~Responder(r)
  <2>1. pc[r] = "recibida" /\ op[r].tipo = "anular" /\ op[r].venta \in DOMAIN ventas
    BY DEF BuscarVenta, IInv, TiposInv
  <2>2. v \in VentaFila
    BY <2>1 DEF IInv, TiposInv
  <2>3. PICK items \in Seq(Lineas) : items = v.items
    BY <2>2 DEF VentaFila
  <2>4. /\ op' = [op EXCEPT ![r] = [op[r] EXCEPT !.items = items]]
        /\ plan' = [plan EXCEPT ![r] = [i \in DOMAIN items |-> [p |-> items[i].p, d |-> items[i].c]]]
        /\ k' = [k EXCEPT ![r] = Len(v.items) + 1]
        /\ pc' = [pc EXCEPT ![r] = "escritura"]
        /\ UNCHANGED <<stock, sucursal, ledger, ventas, sesion, recibidas, delta>>
    BY <1>2, <2>3 DEF BuscarVenta, dbVars
  <2>5. /\ SoloMueve(r) /\ pc'[r] = "escritura" /\ delta'[r] = delta[r]
        /\ plan'[r] = [i \in DOMAIN items |-> [p |-> items[i].p, d |-> items[i].c]]
    BY <2>4 DEF SoloMueve, IInv, TiposInv
  <2>6. op'[r].items = items /\ op'[r].tipo = "anular" /\ op'[r].venta = op[r].venta
    BY <2>1, <2>4 DEF IInv, TiposInv, Op
  <2>7. PICK m \in Nat : m = Len(items) /\ DOMAIN items = 1 .. m
    BY LenProperties
  <2>8. Len(plan'[r]) = m /\ DOMAIN plan'[r] = 1 .. m
    <3>1. plan'[r] \in Seq(Cambios)
      BY BuscarVentaConserva DEF IInv, TiposInv
    <3>2. PICK pl \in Seq(Cambios) : pl = plan'[r] /\ DOMAIN pl = 1 .. m
      BY <2>5, <2>7, <3>1
    <3>3. Len(pl) = m
      BY <3>2, LenProperties
    <3> QED
      BY <3>2, <3>3
  <2>9. \A j \in 1 .. m : plan'[r][j].p = items[0 + j].p /\ plan'[r][j].d = items[0 + j].c
    <3>1. TAKE j \in 1 .. m
    <3>2. 0 + j = j
      OBVIOUS
    <3>3. plan'[r][j] = [p |-> items[j].p, d |-> items[j].c]
      BY <2>5, <2>7
    <3> QED
      BY <3>2, <3>3
  <2>10. Total(delta'[r]) = Vale(items, 0)
    <3>1. delta[r] = SinDelta
      BY <2>1 DEF IInv, Propia, FueraDeTx, EnTx
    <3> QED
      BY <2>5, <3>1, TotalCero, ValeNada
  <2>11. Restaura(r, 0)'
    <3>1. m = 0 + m
      OBVIOUS
    <3> QED
      BY <2>6, <2>7, <2>8, <2>9, <2>10, <3>1 DEF Restaura
  <2>12. AnulacionAlDia(r)'
    <3>1. 0 \in 0 .. Len(op'[r].items)
      BY <2>6, <2>7
    <3> QED
      BY <2>11, <3>1 DEF AnulacionAlDia
  <2>13. CuentaBien(r)'
    BY <2>5, <2>6, <2>12 DEF CuentaBien, CaminoDeVenta, VentaAlDia, DesarmeAlDia, EsVenta
  <2>14. op'[r].venta \in 0 .. Len(ventas) /\ recibidas' \in 0 .. MaxRequests /\ Len(ventas') = Len(ventas)
    BY <2>4, <2>6 DEF LibrosInv
  <2> QED
    BY <2>4, <2>5, <2>13, <2>14, LibrosQuietos
<1> QED
  BY <1>1, <1>2

LEMMA BuscarVinculoLibros ==
  ASSUME IInv, LibrosInv, NEW r \in Requests, BuscarVinculo(r)
  PROVE  LibrosInv'
<1>1. CASE Responder(r)
  BY <1>1, ResponderLibros
<1>2. CASE ~Responder(r)
  <2>1. /\ pc[r] = "recibida" /\ op[r].tipo = "desarme" /\ 1 \in DOMAIN op[r].items
        /\ op[r].items[1].p \in DOMAIN Vinculo
    BY DEF BuscarVinculo, IInv, TiposInv
  <2>2. PICK h \in DOMAIN Vinculo, c \in Int : h = op[r].items[1].p /\ c = op[r].items[1].c
    <3>1. op[r].items[1].c \in Nat
      BY <2>1, LineaTipada DEF IInv, Linea
    <3> QED
      BY <2>1, <3>1
  <2>3. PICK u \in Int, w \in Int, g \in Productos :
          u = Vinculo[h].unidades /\ w = Peso[h] /\ g = Vinculo[h].padre /\ Peso[g] = u * w
    <3>1. /\ Vinculo[h].padre \in Productos /\ Vinculo[h].unidades \in Int /\ Peso[h] \in Int
          /\ Peso[Vinculo[h].padre] = Vinculo[h].unidades * Peso[h]
      <4>1. \A q \in DOMAIN Vinculo : /\ Vinculo[q].padre \in Productos /\ Vinculo[q].unidades \in Int
              /\ Peso[q] \in Int /\ Peso[Vinculo[q].padre] = Vinculo[q].unidades * Peso[q]
        BY VentasAssumption
      <4> QED
        BY <2>2, <4>1
    <3> QED
      BY <3>1, Zenon
  <2>4. /\ plan' = [plan EXCEPT ![r] = <<[p |-> g, d |-> -c], [p |-> h, d |-> c * u]>>]
        /\ k' = [k EXCEPT ![r] = 2]
        /\ pc' = [pc EXCEPT ![r] = "escritura"]
        /\ UNCHANGED <<stock, sucursal, ledger, ventas, sesion, recibidas, op, delta>>
    BY <1>2, <2>2, <2>3 DEF BuscarVinculo, dbVars, reqVars
  <2>5. PICK a, b : a = [p |-> g, d |-> -c] /\ b = [p |-> h, d |-> c * u]
    OBVIOUS
  <2>6. SoloMueve(r) /\ pc'[r] = "escritura" /\ plan'[r] = <<a, b>>
    BY <2>4, <2>5 DEF SoloMueve, IInv, TiposInv
  <2>7. ValeCambio(a) = (u * w) * (-c) /\ ValeCambio(b) = w * (c * u)
    BY <2>3, <2>5 DEF ValeCambio
  <2>8. (u * w) * (-c) + w * (c * u) = 0
    <3>1. (u * w) * (-c) + w * (c * u - 0) = -(w * 0)
      BY Abre
    <3> QED
      BY <3>1
  <2>9. Len(plan'[r]) <= 2 /\ Debe(plan'[r]) = 0
    BY <2>6, <2>7, <2>8, DebePartes
  <2>10. Total(delta[r]) = 0
    BY <2>1, TotalCero DEF IInv, Propia, FueraDeTx, EnTx
  <2>11. Total(delta[r]) + Debe(plan'[r]) = 0
    BY <2>9, <2>10
  <2>12. DesarmeAlDia(r)'
    BY <2>4, <2>9, <2>11 DEF DesarmeAlDia
  <2>13. CuentaBien(r)'
    BY <2>1, <2>4, <2>6, <2>12 DEF CuentaBien, CaminoDeVenta, VentaAlDia, AnulacionAlDia, EsVenta
  <2>14. op'[r].venta \in 0 .. Len(ventas) /\ recibidas' \in 0 .. MaxRequests /\ Len(ventas') = Len(ventas)
    BY <2>4 DEF LibrosInv
  <2> QED
    BY <2>4, <2>6, <2>13, <2>14, LibrosQuietos
<1> QED
  BY <1>1, <1>2

LEMMA RecibirLibros ==
  ASSUME IInv, LibrosInv, NEW r \in Requests, Recibir(r)
  PROVE  LibrosInv'
<1>1. PICK o \in Cuerpos :
        /\ op' = [op EXCEPT ![r] = o]
        /\ pc' = [pc EXCEPT ![r] = IF o.tipo = "online" THEN "sesion" ELSE "recibida"]
  BY DEF Recibir
<1>2. UNCHANGED <<stock, sucursal, ledger, ventas, sesion, k, plan, delta>>
  BY DEF Recibir, dbVars, txVars
<1>3. /\ op'[r] = o /\ pc'[r] = (IF o.tipo = "online" THEN "sesion" ELSE "recibida") /\ SoloMueve(r)
  BY <1>1, <1>2 DEF IInv, TiposInv, SoloMueve
<1>4. CuentaBien(r)'
  <2>1. pc'[r] = "sesion" => EsVenta(op[r])'
    BY <1>3 DEF EsVenta
  <2> QED
    BY <1>3, <2>1, CuentaFuera
<1>5. op'[r].venta \in 0 .. Len(ventas)
  <2>1. PICK n \in Nat : n = Len(ventas) /\ DOMAIN ventas = 1 .. n
    BY LenProperties DEF IInv, TiposInv
  <2>2. o.venta = 0 \/ o.venta \in DOMAIN ventas
    BY DEF Cuerpos
  <2>3. o.venta \in 0 .. n
    BY <2>1, <2>2
  <2> QED
    BY <1>3, <2>1, <2>3
<1>6. recibidas' \in 0 .. MaxRequests
  <2>1. PICK n \in Nat : n = recibidas /\ n < MaxRequests
    BY DEF Recibir, LibrosInv
  <2>2. recibidas' = n + 1 /\ MaxRequests \in Nat
    BY <2>1, VentasAssumption DEF Recibir
  <2> QED
    BY <2>1, <2>2
<1> QED
  BY <1>2, <1>3, <1>4, <1>5, <1>6, LibrosQuietos

LEMMA InicioLibros == Init => LibrosInv
<1> SUFFICES ASSUME Init PROVE LibrosInv
  OBVIOUS
<1>1. /\ sucursal \in [Productos -> Int] /\ ledger \in [Productos -> Int]
      /\ sesion \in {"abierta", "cerrada"} /\ recibidas \in 0 .. MaxRequests
  BY VentasAssumption DEF Init
<1>2. \A r \in Requests : op[r].venta \in 0 .. Len(ventas)
  BY DEF Init, SinOp
<1>3. \A r \in Requests : CuentaBien(r)
  BY DEF Init, CuentaBien, CaminoDeVenta, VentaAlDia, DesarmeAlDia, AnulacionAlDia
<1>4. StockConservado /\ SucursalConservada
  <2>1. stock = Stock0 /\ sucursal = Sucursal0 /\ ledger = SinDelta
    BY DEF Init, SinDelta
  <2>2. PICK a \in Int : a = Total(Stock0)
    BY Valuacion, VentasAssumption
  <2>3. a = a + 0
    OBVIOUS
  <2> QED
    BY <2>1, <2>2, <2>3, TotalCero DEF StockConservado, SucursalConservada
<1> QED
  BY <1>1, <1>2, <1>3, <1>4 DEF LibrosInv

LEMMA PasoLibros == IInv /\ LibrosInv /\ [Next]_vars => LibrosInv'
<1> SUFFICES ASSUME IInv, LibrosInv, [Next]_vars PROVE LibrosInv'
  OBVIOUS
<1>1. ASSUME UNCHANGED <<dbVars, recibidas, pc, reqVars, txVars>>, sesion' \in {"abierta", "cerrada"}
      PROVE  LibrosInv'
  <2>1. UNCHANGED <<stock, sucursal, ledger, ventas, recibidas, pc, op, k, plan, delta>>
    BY <1>1 DEF dbVars, reqVars, txVars
  <2>2. ASSUME NEW q \in Requests PROVE CuentaBien(q)'
    <3>1. CuentaBien(q)
      BY DEF LibrosInv
    <3>2. \A n : Restaura(q, n) => Restaura(q, n)'
      BY <2>1 DEF Restaura
    <3>3. AnulacionAlDia(q)'
      BY <2>1, <3>1, <3>2 DEF CuentaBien, AnulacionAlDia
    <3>4. CaminoDeVenta(q)' /\ VentaAlDia(q)' /\ DesarmeAlDia(q)'
      BY <2>1, <3>1 DEF CuentaBien, CaminoDeVenta, VentaAlDia, DesarmeAlDia, EsVenta, SinDelta
    <3> QED
      BY <3>3, <3>4 DEF CuentaBien
  <2>3. StockConservado' /\ SucursalConservada'
    BY <2>1 DEF LibrosInv, StockConservado, SucursalConservada
  <2> QED
    BY <1>1, <2>1, <2>2, <2>3 DEF LibrosInv
<1>2. CASE CerrarSesion \/ UNCHANGED vars
  BY <1>1, <1>2 DEF CerrarSesion, vars, LibrosInv
<1>3. ASSUME NEW r \in Requests, Recibir(r) \/ DeadlockAbort(r) \/ Caida(r) PROVE LibrosInv'
  BY <1>3, RecibirLibros, ResponderLibros DEF DeadlockAbort, Caida
<1>4. ASSUME NEW r \in Requests, Paso(r) PROVE LibrosInv'
  BY <1>4, RevisionLibros, LineasLibros, BloqueoLibros, InsertarLibros, LeerLibros, UpdateLibros,
     ConfirmarVentaLibros, EncolarLibros, BuscarVentaLibros, ConfirmarAnulacionLibros,
     BuscarVinculoLibros, ConfirmarDesarmeLibros
  DEF Paso
<1> QED
  BY <1>2, <1>3, <1>4 DEF Next

(* Both books of stock balance for every catalogue, set of links, cart and  *)
(* number of concurrent requests: in any valuation that the links respect,  *)
(* stock_actual is what it was plus the movimientos_stock, and the branch's *)
(* stock_sucursal follows it, through UpdateStockTx, the three commits,     *)
(* rollbacks, deadlock aborts and dead goroutines.                          *)
THEOREM ExistenciasEnOrden == Spec => []ExistenciasCuadran
<1>1. IInv /\ LibrosInv => ExistenciasCuadran
  <2> SUFFICES ASSUME IInv, LibrosInv PROVE TypeOK
    BY DEF LibrosInv, ExistenciasCuadran
  <2>1. \A i \in DOMAIN ventas : ventas[i].estado \in {"completada", "anulada"}
    <3>1. TAKE i \in DOMAIN ventas
    <3>2. ventas[i] \in VentaFila
      BY DEF IInv, TiposInv
    <3> QED
      BY <3>2 DEF VentaFila
  <2>2. \A r \in Requests : op[r].tipo \in TiposDeRequest
    BY DEF IInv, TiposInv, Op
  <2> QED
    BY <2>1, <2>2 DEF IInv, TiposInv, LibrosInv, TypeOK
<1> QED
  BY <1>1, Invariante, InicioLibros, PasoLibros, PTL DEF Spec
=============================================================================
