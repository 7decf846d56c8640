--------------------------- MODULE Transferencias ---------------------------
(***************************************************************************)
(* Stock per branch and the transfers between branches                     *)
(* (transferencia_service.go, transferencia_repo.go,                       *)
(* stock_sucursal_repo.go).                                                *)
(*                                                                         *)
(* Completing a transfer is one transaction, but the estado that allows it *)
(* is read before it, and GetOrCreateStock runs outside it, on a second    *)
(* connection of the pool.  Its INSERT ... ON CONFLICT waits for whoever   *)
(* has an uncommitted update of the row, the request's own transaction     *)
(* included; PostgreSQL sees unrelated sessions and no deadlock, and only  *)
(* the deadline of the request ends it.  Every statement is an action.     *)
(***************************************************************************)
EXTENDS Integers, Sequences, FiniteSets, Functions

CONSTANTS
  Peticiones,    \* concurrent requests
  Articulos, Sucursales,
  Ausentes,      \* cells <<article, branch>> without a row of stock_sucursal yet
  Existencia,    \* stock of the others
  Surtidos,      \* lists of items [art, n] of a transfer
  Deltas,        \* manual adjustments
  Conexiones,    \* connections of the pool
  MaxPeticiones  \* bound: requests received

ASSUME TransferenciasAssumption ==
  /\ Conexiones \in Nat \ {0} /\ MaxPeticiones \in Nat /\ Existencia \in Nat
  /\ Deltas \subseteq Int \ {0}
  /\ Ausentes \subseteq Articulos \X Sucursales
  /\ IsFiniteSet(Sucursales)
  \* transferencia_dto.go: one item or more, each of one unit or more
  /\ \A l \in Surtidos :
       l # <<>> /\ l \in Seq([art : Articulos, n : Nat \ {0}])

VARIABLES
  existencias,  \* stock_actual per cell, committed
  filas,        \* cells that have a row
  traslados,    \* rows of transferencias_stock with their items
  enCurso,      \* the request of each caller
  peticiones,
  movidas,      \* ghost: times each transfer moved stock
  ajustes,      \* ghost: what the manual adjustments added
  solapadas     \* ghost: transfers that two requests decided on at once

trasVars == <<existencias, filas, traslados, enCurso, peticiones, movidas, ajustes, solapadas>>

Celdas == Articulos \X Sucursales
SinDif == [c \in {} |-> 0]
\* `i' and `k': the item and the statement of its turn; `dif': what the open
\* transaction has written, and so the rows it has locked.
Ociosa == [op |-> "", paso |-> "libre", t |-> 0, i |-> 1, k |-> 1, dif |-> SinDif,
           origen |-> "", destino |-> "", items |-> <<>>]

Inicial == [c \in Celdas |-> IF c \in Ausentes THEN 0 ELSE Existencia]

\* One transfer of every kind waits since earlier, in either direction.
TrasInit ==
  /\ existencias = Inicial
  /\ filas = Celdas \ Ausentes
  /\ \E o, d \in Sucursales, items \in Surtidos :
       /\ o # d
       /\ traslados = <<[estado |-> "pendiente", origen |-> o, destino |-> d, items |-> items]>>
  /\ enCurso = [q \in Peticiones |-> Ociosa]
  /\ peticiones = 0 /\ movidas = <<0>>
  /\ ajustes = [a \in Articulos |-> 0] /\ solapadas = {}

-----------------------------------------------------------------------------
EnTx(q) == enCurso[q].paso \in {"item", "cierra"}
HayConexion == Cardinality({q \in Peticiones : EnTx(q)}) < Conexiones
Bloquea(q) == DOMAIN enCurso[q].dif

Responde(q) == enCurso' = [enCurso EXCEPT ![q] = Ociosa]

Llega(q, e) ==
  /\ enCurso[q] = Ociosa /\ peticiones < MaxPeticiones
  /\ enCurso' = [enCurso EXCEPT ![q] = e]
  /\ peticiones' = peticiones + 1
  /\ UNCHANGED <<existencias, filas, traslados, movidas, ajustes, solapadas>>

\* handler/transferencias.go: the bodies that bind and pass the first checks.
PideCrear(o, d, l) ==
  [Ociosa EXCEPT !.op = "crear", !.paso = "asegura", !.origen = o, !.destino = d, !.items = l]
PideDecidir(op, j) == [Ociosa EXCEPT !.op = op, !.paso = "leer", !.t = j]
PideAjustar(a, s, n) ==
  [Ociosa EXCEPT !.op = "ajustar", !.paso = "asegura", !.origen = s, !.items = <<[art |-> a, n |-> n]>>]

Recibe(q) ==
  \/ \E o, d \in Sucursales, l \in Surtidos : o # d /\ Llega(q, PideCrear(o, d, l))
  \/ \E op \in {"completar", "rechazar", "cancelar"}, j \in DOMAIN traslados : Llega(q, PideDecidir(op, j))
  \/ \E a \in Articulos, s \in Sucursales, n \in Deltas : Llega(q, PideAjustar(a, s, n))

\* What the three decisions on a transfer start from.
Deciden(j) == {q \in Peticiones : enCurso[q].t = j /\ enCurso[q].paso \in {"item", "cierra", "estado"}}

\* Mutant: any estado will do.
AdmiteSiempre(e) == TRUE
Admite(e) == traslados[e.t].estado = "pendiente"

\* FindByID and the check of estado; completing then begins its transaction.
BuscarTransferencia(q) ==
  LET e == enCurso[q]
      tr == traslados[e.t]
  IN
  /\ e.paso = "leer" /\ HayConexion
  /\ IF ~Admite(e) THEN Responde(q)
     ELSE enCurso' = [enCurso EXCEPT ![q] = [e EXCEPT
            !.paso = IF e.op = "completar" THEN "item" ELSE "estado",
            !.origen = tr.origen, !.destino = tr.destino, !.items = tr.items]]
  /\ solapadas' = IF Deciden(e.t) # {} THEN solapadas \cup {e.t} ELSE solapadas
  /\ UNCHANGED <<existencias, filas, traslados, peticiones, movidas, ajustes>>

\* Mutant: a read instead of the upsert.
AsegurarFilaLeyendo(c) == UNCHANGED filas
\* GetOrCreateStock on a connection of its own: it waits for every open
\* transaction that has written the row.
AsegurarFila(c) == filas' = filas \cup {c}
Asegurable(c) == HayConexion /\ \A p \in Peticiones : c \notin Bloquea(p)

\* CrearTransferencia: the stock at the origin is enough, item by item.
AseguraAlCrear(q) ==
  LET e == enCurso[q]
      c == <<e.items[e.i].art, e.origen>>
  IN
  /\ e.op = "crear" /\ e.paso = "asegura" /\ Asegurable(c)
  /\ AsegurarFila(c)
  /\ IF existencias[c] < e.items[e.i].n THEN Responde(q)
     ELSE enCurso' = [enCurso EXCEPT ![q].i = IF e.i < Len(e.items) THEN @ + 1 ELSE @,
                                     ![q].paso = IF e.i < Len(e.items) THEN @ ELSE "crea"]
  /\ UNCHANGED <<existencias, traslados, peticiones, movidas, ajustes, solapadas>>

Crea(q) ==
  LET e == enCurso[q] IN
  /\ e.paso = "crea" /\ HayConexion
  /\ traslados' = Append(traslados, [estado |-> "pendiente", origen |-> e.origen,
                                     destino |-> e.destino, items |-> e.items])
  /\ movidas' = Append(movidas, 0)
  /\ Responde(q)
  /\ UNCHANGED <<existencias, filas, peticiones, ajustes, solapadas>>

\* The statements for one item, in order.
\* Mutant: the origin is written before its row is made sure of.
OrdenRestaAntes == <<"resta", "origen", "destino", "suma">>
Orden == <<"origen", "destino", "resta", "suma">>

Avanza(e) ==
  IF e.k < Len(Orden) THEN [e EXCEPT !.k = @ + 1]
  ELSE IF e.i < Len(e.items) THEN [e EXCEPT !.k = 1, !.i = @ + 1]
  ELSE [e EXCEPT !.paso = "cierra"]

CeldaDe(e) == <<e.items[e.i].art, IF Orden[e.k] \in {"origen", "resta"} THEN e.origen ELSE e.destino>>

AseguraAlCompletar(q) ==
  LET e == enCurso[q] IN
  /\ e.paso = "item" /\ Orden[e.k] \in {"origen", "destino"}
  /\ Asegurable(CeldaDe(e)) /\ AsegurarFila(CeldaDe(e))
  /\ enCurso' = [enCurso EXCEPT ![q] = Avanza(e)]
  /\ UNCHANGED <<existencias, traslados, peticiones, movidas, ajustes, solapadas>>

Ajena(q, c) == \E p \in Peticiones \ {q} : c \in Bloquea(p)

Escribe(d, c, delta) ==
  [x \in DOMAIN d \cup {c} |-> (IF x \in DOMAIN d THEN d[x] ELSE 0) + (IF x = c THEN delta ELSE 0)]

\* An UPDATE inside the transaction: it locks the row, if there is one.
AjustarStockSucursalTx(q) ==
  LET e == enCurso[q]
      c == CeldaDe(e)
      n == e.items[e.i].n
      delta == IF Orden[e.k] = "resta" THEN -n ELSE n
  IN
  /\ e.paso = "item" /\ Orden[e.k] \in {"resta", "suma"}
  /\ ~Ajena(q, c)
  /\ enCurso' = [enCurso EXCEPT ![q] =
                   Avanza([e EXCEPT !.dif = IF c \in filas THEN Escribe(@, c, delta) ELSE @])]
  /\ UNCHANGED <<existencias, filas, traslados, peticiones, movidas, ajustes, solapadas>>

\* UpdateEstadoTx and the commit.
CompletarTransferencia(q) ==
  LET e == enCurso[q] IN
  /\ e.paso = "cierra"
  /\ existencias' = [c \in Celdas |-> existencias[c] + IF c \in DOMAIN e.dif THEN e.dif[c] ELSE 0]
  /\ traslados' = [traslados EXCEPT ![e.t].estado = "completada"]
  /\ movidas' = [movidas EXCEPT ![e.t] = @ + 1]
  /\ Responde(q)
  /\ UNCHANGED <<filas, peticiones, ajustes, solapadas>>

\* RechazarTransferencia and CancelarTransferencia.
UpdateEstado(q) ==
  LET e == enCurso[q] IN
  /\ e.paso = "estado" /\ HayConexion
  /\ traslados' = [traslados EXCEPT ![e.t].estado =
                     IF e.op = "rechazar" THEN "rechazada" ELSE "cancelada"]
  /\ Responde(q)
  /\ UNCHANGED <<existencias, filas, peticiones, movidas, ajustes, solapadas>>

AseguraAlAjustar(q) ==
  LET e == enCurso[q]
      c == <<e.items[1].art, e.origen>>
  IN
  /\ e.op = "ajustar" /\ e.paso = "asegura" /\ Asegurable(c)
  /\ AsegurarFila(c)
  /\ enCurso' = [enCurso EXCEPT ![q].paso = "ajusta"]
  /\ UNCHANGED <<existencias, traslados, peticiones, movidas, ajustes, solapadas>>

AjustarStockSucursal(q) ==
  LET e == enCurso[q]
      c == <<e.items[1].art, e.origen>>
  IN
  /\ e.paso = "ajusta" /\ HayConexion /\ ~Ajena(q, c)
  /\ existencias' = IF c \in filas THEN [existencias EXCEPT ![c] = @ + e.items[1].n] ELSE existencias
  /\ ajustes' = [ajustes EXCEPT ![c[1]] = @ + e.items[1].n]
  /\ Responde(q)
  /\ UNCHANGED <<filas, traslados, peticiones, movidas, solapadas>>

\* Mutant: only the deadlocks that PostgreSQL sees, between two transactions,
\* are broken.
VenceSinPlazo(q) ==
  /\ enCurso[q].paso = "item" /\ Orden[enCurso[q].k] \in {"resta", "suma"}
  /\ \E p \in Peticiones \ {q} :
       /\ CeldaDe(enCurso[q]) \in Bloquea(p)
       /\ enCurso[p].paso = "item" /\ Orden[enCurso[p].k] \in {"resta", "suma"}
       /\ CeldaDe(enCurso[p]) \in Bloquea(q)
  /\ Responde(q)
  /\ UNCHANGED <<existencias, filas, traslados, peticiones, movidas, ajustes, solapadas>>

\* The deadline of 30 s that GlobalTimeout gives every request, a deadlock that
\* PostgreSQL does see, or a lost connection: the transaction is rolled back.
Vence(q) ==
  /\ enCurso[q] # Ociosa
  /\ Responde(q)
  /\ UNCHANGED <<existencias, filas, traslados, peticiones, movidas, ajustes, solapadas>>

Avance(q) ==
  \/ BuscarTransferencia(q)
  \/ AseguraAlCrear(q) \/ Crea(q)
  \/ AseguraAlCompletar(q) \/ AjustarStockSucursalTx(q) \/ CompletarTransferencia(q)
  \/ UpdateEstado(q)
  \/ AseguraAlAjustar(q) \/ AjustarStockSucursal(q)

TrasNext ==
  \E q \in Peticiones : Recibe(q) \/ Avance(q) \/ Vence(q)

-----------------------------------------------------------------------------
\* The variables have their types, estados are those of the table's CHECK, and
\* only an open transaction holds locks.
TrasTypeOK ==
  /\ existencias \in [Celdas -> Int] /\ filas \subseteq Celdas
  /\ \A j \in DOMAIN traslados :
       traslados[j].estado \in {"pendiente", "completada", "rechazada", "cancelada"}
  /\ \A q \in Peticiones : Bloquea(q) \subseteq filas /\ (Bloquea(q) # {} => EnTx(q))

\* What the branches have of an article together.
EnTotal(f, a) == SumFunction([s \in Sucursales |-> f[<<a, s>>]])

(* No unit is created or lost by a transfer, completed once, twice or cut  *)
(* short: the branches together hold what they held and what the manual    *)
(* adjustments added, also when a row was missing (GetOrCreateStock).      *)
TrasladosConservan ==
  \A a \in Articulos : EnTotal(existencias, a) = EnTotal(Inicial, a) + ajustes[a]

(* The stock of the branches is conserved, its rows and the transfers have *)
(* the values that the tables admit, and locks belong to transactions.     *)
TrasladosCuadran == TrasTypeOK /\ TrasladosConservan

(* A transfer is decided once: it has moved stock if and only if its       *)
(* estado says so, unless two requests decided on it at the same time, the *)
(* case the check of estado outside the transaction does not cover.        *)
UnaDecision ==
  \A j \in DOMAIN traslados : j \notin solapadas =>
    movidas[j] = IF traslados[j].estado = "completada" THEN 1 ELSE 0

(* A request that runs alone never waits, neither for its own locks nor    *)
(* for the pool, unless its transfer lists a product twice: the rows are   *)
(* made sure of before the transaction writes them.                        *)
SolaAvanza ==
  \A q \in Peticiones :
    /\ enCurso[q] # Ociosa /\ Conexiones > 1
    /\ \A p \in Peticiones \ {q} : enCurso[p] = Ociosa
    /\ \A i, j \in DOMAIN enCurso[q].items :
         enCurso[q].items[i].art = enCurso[q].items[j].art => i = j
    => ENABLED Avance(q)

(* Every request is answered, whichever waits for which: GlobalTimeout     *)
(* breaks the waits that the database cannot see.                          *)
TodaPeticionTermina ==
  \A q \in Peticiones : enCurso[q] # Ociosa ~> enCurso[q] = Ociosa

-----------------------------------------------------------------------------
(* Statements of the repository that the code does not keep. *)

(* transferencia_service.go:127 "solo se pueden completar transferencias en *)
(* estado 'pendiente'": each transfer moves its stock once.                 *)
MovidaUnaVez == \A j \in DOMAIN traslados : movidas[j] <= 1

(* transferencia_service.go:119 "Deduct from origin, add to destination —   *)
(* all in a single transaction.": a request does not wait for itself.       *)
NadieSeEspera ==
  \A q \in Peticiones : enCurso[q].paso = "item" /\ Orden[enCurso[q].k] \in {"origen", "destino"}
     => CeldaDe(enCurso[q]) \notin Bloquea(q)
=============================================================================
