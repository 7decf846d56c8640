------------------------------- MODULE Fiado -------------------------------
(***************************************************************************)
(* The credit account of a customer (cliente_service.go, cliente_repo.go): *)
(* the charge of a sale on credit, payments, and edits of the customer.    *)
(*                                                                         *)
(* FindByID reads the row outside any transaction; what is written later   *)
(* is the balance computed from that copy, as an absolute value.  A charge *)
(* runs after the sale has been committed.  One customer: no handler       *)
(* touches two.                                                            *)
(*                                                                         *)
(* The migrations of this commit do not list fiado among the methods that  *)
(* the payment tables admit, so the sale is rolled back and its charge is  *)
(* never asked for; the code of the services and model/venta.go:61 are     *)
(* written for tables that do.  `admiteFiado' is either.                   *)
(***************************************************************************)
EXTENDS Integers, Sequences, SequencesExt, Functions

CONSTANTS
  Operadores,      \* concurrent requests about the customer
  Importes,        \* amounts of charges and payments
  Limites,         \* credit limits; 0 means none
  Esquemas,        \* whether the CHECKs of the payment tables admit fiado
  MaxOperaciones   \* bound: requests received

ASSUME FiadoAssumption ==
  /\ Importes \subseteq Nat \ {0} /\ Limites \subseteq Nat /\ Limites # {}
  /\ Esquemas \subseteq BOOLEAN
  /\ MaxOperaciones \in Nat

VARIABLES
  admiteFiado,  \* the CHECKs of the payment tables admit fiado
  cliente,      \* row of clientes: saldo_deudor and limite_credito
  movimientos,  \* rows of movimientos_cuenta, in order
  tarea,        \* the request of each operator
  operaciones,
  fiadas,       \* ghost: sales on credit committed
  limites,      \* ghost: the limits the customer has had
  pisada,       \* ghost: a balance computed from a stale copy was written
  editada       \* ghost: an edit wrote back a stale balance

fiadoVars == <<admiteFiado, cliente, movimientos, tarea, operaciones, fiadas, limites, pisada, editada>>

SinTarea == [tipo |-> "", monto |-> 0, paso |-> "libre", fila |-> [saldo |-> 0, limite |-> 0]]

FiadoInit ==
  /\ admiteFiado \in Esquemas
  /\ cliente \in [saldo : {0}, limite : Limites]
  /\ movimientos = <<>>
  /\ tarea = [o \in Operadores |-> SinTarea]
  /\ operaciones = 0 /\ fiadas = 0 /\ limites = {cliente.limite}
  /\ pisada = FALSE /\ editada = FALSE

\* A request arrives.  A charge starts when its sale has been committed, which
\* the CHECKs may refuse.
Pedir(o, tipo, monto) ==
  /\ tarea[o] = SinTarea /\ operaciones < MaxOperaciones
  /\ tipo = "cargo" => admiteFiado
  /\ tarea' = [tarea EXCEPT ![o].tipo = tipo, ![o].monto = monto, ![o].paso = "leer"]
  /\ operaciones' = operaciones + 1
  /\ fiadas' = IF tipo = "cargo" THEN fiadas + 1 ELSE fiadas
  /\ UNCHANGED <<admiteFiado, cliente, movimientos, limites, pisada, editada>>

Acaba(o) == tarea' = [tarea EXCEPT ![o] = SinTarea]

\* Mutant: the payment is not compared with the balance.
ExcedeSoloCargos(t, c) == t.tipo = "cargo" /\ c.limite > 0 /\ c.saldo + t.monto > c.limite

\* What CargarFiado and RegistrarPago refuse, on the copy just read.
Excede(t, c) ==
  \/ t.tipo = "cargo" /\ c.limite > 0 /\ c.saldo + t.monto > c.limite
  \/ t.tipo = "pago" /\ t.monto > c.saldo

FindByID(o) ==
  /\ tarea[o].paso = "leer"
  /\ IF Excede(tarea[o], cliente) THEN Acaba(o)
     ELSE tarea' = [tarea EXCEPT ![o].paso = "guardar", ![o].fila = cliente]
  /\ UNCHANGED <<admiteFiado, cliente, movimientos, operaciones, fiadas, limites, pisada, editada>>

NuevoSaldo(t) == IF t.tipo = "cargo" THEN t.fila.saldo + t.monto ELSE t.fila.saldo - t.monto

\* The balance and its movement, in one transaction.
UpdateSaldoTx(o) ==
  LET t == tarea[o] IN
  /\ t.paso = "guardar" /\ t.tipo # "edicion"
  /\ cliente' = [cliente EXCEPT !.saldo = NuevoSaldo(t)]
  /\ movimientos' = Append(movimientos, [tipo |-> t.tipo, monto |-> t.monto, saldo |-> NuevoSaldo(t)])
  /\ pisada' = (pisada \/ t.fila.saldo # cliente.saldo)
  /\ Acaba(o)
  /\ UNCHANGED <<admiteFiado, operaciones, fiadas, limites, editada>>

\* Actualizar saves the whole row it read, saldo_deudor included.
Actualizar(o) ==
  LET t == tarea[o] IN
  /\ t.paso = "guardar" /\ t.tipo = "edicion"
  /\ cliente' = [t.fila EXCEPT !.limite = t.monto]
  /\ limites' = limites \cup {t.monto}
  /\ pisada' = (pisada \/ t.fila.saldo # cliente.saldo)
  /\ editada' = (editada \/ t.fila.saldo # cliente.saldo)
  /\ Acaba(o)
  /\ UNCHANGED <<admiteFiado, movimientos, operaciones, fiadas>>

\* The request dies or its transaction is rolled back: for a charge the sale
\* stays, and the failure is only logged.
Fallar(o) ==
  /\ tarea[o] # SinTarea
  /\ Acaba(o)
  /\ UNCHANGED <<admiteFiado, cliente, movimientos, operaciones, fiadas, limites, pisada, editada>>

FiadoNext ==
  \E o \in Operadores :
    \/ \E tipo \in {"cargo", "pago"}, m \in Importes : Pedir(o, tipo, m)
    \/ \E l \in Limites : Pedir(o, "edicion", l)
    \/ FindByID(o) \/ UpdateSaldoTx(o) \/ Actualizar(o) \/ Fallar(o)

FiadoSpec == FiadoInit /\ [][FiadoNext]_fiadoVars

-----------------------------------------------------------------------------
Firmado(m) == IF m.tipo = "cargo" THEN m.monto ELSE -m.monto
Deuda == SumFunction([i \in DOMAIN movimientos |-> Firmado(movimientos[i])])

(* When no balance was computed from a stale copy, saldo_deudor is what    *)
(* the customer was charged less what was paid, whatever failed between    *)
(* (CargarFiado, RegistrarPago, Actualizar).                               *)
SaldoCuadra == ~pisada => cliente.saldo = Deuda

(* The account statement ends in the balance of the row even when charges  *)
(* and payments overwrote each other: the row and the movement are written *)
(* together, with one value.  Only an edit that saves a stale row parts    *)
(* them (UpdateSaldoTx, Actualizar).                                       *)
SaldoDelExtracto ==
  ~editada => cliente.saldo = IF movimientos = <<>> THEN 0 ELSE Last(movimientos).saldo

(* The balance in the row is never negative and never above every limit    *)
(* the customer has had, in any interleaving, edits with stale copies      *)
(* included; what it should be may be either.                              *)
SaldoEnRango ==
  /\ cliente.saldo >= 0
  /\ 0 \notin limites => \E l \in limites : cliente.saldo <= l

(* The account as a whole: balance, statement and limits (CargarFiado,     *)
(* RegistrarPago, Actualizar).                                             *)
CuentaCuadra == SaldoCuadra /\ SaldoDelExtracto /\ SaldoEnRango

-----------------------------------------------------------------------------
(* Statements of the repository that the code does not keep. *)

(* cliente_repo.go:19 "UpdateSaldoTx atomically updates saldo_deudor and    *)
(* inserts a movimiento": the sum of the movements is the balance.          *)
SaldoEsSuma == cliente.saldo = Deuda

(* cliente_service.go:149 "Validates that the new saldo does not exceed     *)
(* limite_credito": a committed sale on credit is charged.                  *)
FiadoCargado ==
  (\A o \in Operadores : tarea[o].paso = "libre") =>
     fiadas = Len(SelectSeq(movimientos, LAMBDA m : m.tipo = "cargo"))
=============================================================================
