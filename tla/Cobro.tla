------------------------------- MODULE Cobro --------------------------------
(***************************************************************************)
(* The screen of the point of sale around its cart: the keys and modals of *)
(* PosTerminal, PaymentModal, confirmSale and the ticket numbers.          *)
(*                                                                         *)
(* The cart, its handlers in flight and the local stock are those of       *)
(* module Carrito; here they run only when the screen lets them.  What the *)
(* cashier types in the payment form is chosen when the sale is confirmed, *)
(* because nothing reads it before; only the customer of a sale on credit  *)
(* depends on answers of the server.  debito stands for the four ways to   *)
(* pay that are no cash; e-mail, addresses and document numbers are left   *)
(* out.  The initialisation, the cash session and the fiscal document of a *)
(* sale are in module Terminal: here AbrirCajaModal comes and goes.        *)
(***************************************************************************)
EXTENDS Carrito

CONSTANTS
  Recibidos,    \* amounts of cash the customer may hand over
  Otros,        \* amounts that may be paid by card in a mixed payment
  Clientes,     \* customers with a credit account
  Credito,      \* credit each of them has left, as the server reports it
  MaxVentas,    \* bound: sales
  MaxNumero     \* bound: ticket number the server reports

ASSUME CobroAssumption ==
  /\ Recibidos \subseteq Nat /\ Otros \subseteq Nat
  /\ Credito \in [Clientes -> Nat] /\ Nada \notin Clientes
  /\ MaxVentas \in Nat

VARIABLES
  abiertos,     \* modals open; WeightInputModal is pesando # Nada
  objetivo,     \* discountTargetItemId
  fiado,        \* customer chosen, customers listed, a search in flight
  venta,        \* lastSaleRecord
  ventas,       \* sales confirmed
  contador,     \* ticketCounter
  emitido,      \* history: the highest ticket number of a sale
  pideNumero    \* getLastTicketNumber in flight

pantalla == <<abiertos, objetivo, fiado>>
tickets == <<venta, ventas, contador, emitido, pideNumero>>
todo == <<vars, pantalla, tickets>>

SinFiado == [cliente |-> Nada, lista |-> {}, busca |-> FALSE]
SinVenta == [numero |-> 0]

CobroInit ==
  /\ Init
  /\ abiertos = {} /\ objetivo = <<Nada, 0>>
  /\ fiado = SinFiado
  /\ venta = SinVenta /\ ventas = 0 /\ contador = 0 /\ emitido = 0
  /\ pideNumero = TRUE

-----------------------------------------------------------------------------
(* The screen: modals and keys *)

\* anyModalOpen: AbrirCajaModal and PostSaleModal are not in it.
AnyModalOpen == abiertos \cap {"pago", "precio", "descuento", "historial", "busqueda"} # {}
                  \/ pesando # Nada

\* Nothing covers the page, so its buttons and the scanner can be used.
Despejado == abiertos = {} /\ pesando = Nada

\* F2, F5, F7, F8, F10 and the buttons of TotalPanel and of the touch bar.
Abre(modal) ==
  /\ ~ AnyModalOpen
  /\ modal \in {"descuento", "pago"} => Lineas # {}
  /\ abiertos' = abiertos \cup {modal}
  /\ objetivo' = <<Nada, 0>>
  /\ fiado' = IF modal = "pago" THEN [SinFiado EXCEPT !.busca = fiado.busca] ELSE fiado
  /\ UNCHANGED <<vars, tickets>>

\* F3: a discount for the selected line, the first one if none is selected.
AbreDescuentoDeLinea ==
  /\ ~ AnyModalOpen /\ Lineas # {}
  /\ LET i == IF carrito.sel + 1 \in Lineas THEN carrito.sel + 1 ELSE 1
     IN objetivo' = <<carrito.lineas[i].prod, carrito.lineas[i].w>>
  /\ abiertos' = abiertos \cup {"descuento"}
  /\ UNCHANGED <<vars, fiado, tickets>>

\* Escape, or the button of the modal: one of them closes.
Cierra(modal) ==
  /\ modal \in abiertos \ {"caja", "postventa"}
  /\ abiertos' = abiertos \ {modal}
  /\ objetivo' = IF modal = "descuento" THEN <<Nada, 0>> ELSE objetivo
  /\ UNCHANGED <<vars, fiado, tickets>>

\* DiscountModal applies to its line, and to the whole sale when that is gone.
Aplica(desc) ==
  /\ "descuento" \in abiertos
  /\ Descontar(Indice(carrito.lineas, objetivo[1], objetivo[2]), desc)
  /\ abiertos' = abiertos \ {"descuento"}
  /\ objetivo' = <<Nada, 0>>
  /\ UNCHANGED <<gestos, fiado, tickets>>

Elige(p) ==
  /\ "busqueda" \in abiertos
  /\ ElegirDeBusqueda(p)
  /\ abiertos' = abiertos \ {"busqueda"}
  /\ UNCHANGED <<objetivo, fiado, tickets>>

\* The keys of the window act while no modal of anyModalOpen is open; the
\* scanner and the buttons of the rows, while nothing covers them.
Teclas ==
  /\ \/ Despejado /\ \E p \in Productos : Escanear(p)
     \/ pesando # Nada /\ \E peso \in Pesos : PesoConfirmado(peso)
     \/ PesoCancelado
     \/ ~ AnyModalOpen /\ \E i \in Lineas : Quitar(i)
     \/ \E i \in Lineas : \E cant \in Pedibles(i) :
          /\ ~ AnyModalOpen
          /\ Despejado \/ cant \in {carrito.lineas[i].cant - 1, carrito.lineas[i].cant + 1}
          /\ UpdateQuantity(i, cant)
  /\ UNCHANGED <<pantalla, tickets>>

\* CANCELAR of TotalPanel.
Cancelar ==
  /\ Despejado /\ Lineas # {}
  /\ carrito' = Vacio
  /\ UNCHANGED <<promociones, stock, tareas, pesando, catalogo, excusados, gestos, syncs,
                 pantalla, tickets>>

\* A look-up that will ask for a weight.
PediriaPeso(ta) == ta.prod \in Pesables /\ ta.pc \in {"precio", "busca"}

\* Leaving PosTerminal and coming back: the modals it keeps itself go, and a
\* look-up that would ask for a weight asks nobody; the stores stay, the cart
\* among them, and the ticket counter is compared with the server again.
SalirYVolver ==
  /\ Despejado
  /\ tareas' = [t \in 1 .. MaxTareas |-> IF PediriaPeso(tareas[t]) THEN Libre ELSE tareas[t]]
  /\ pideNumero' = TRUE
  /\ UNCHANGED <<carrito, promociones, stock, pesando, catalogo, excusados, gestos, syncs,
                 pantalla, venta, ventas, contador, emitido>>

\* The page is loaded again: localStorage keeps the ticket counter, IndexedDB
\* the stock.
Recargar ==
  /\ abiertos' = {} /\ objetivo' = <<Nada, 0>> /\ fiado' = SinFiado
  /\ carrito' = Vacio /\ pesando' = Nada
  /\ tareas' = [t \in 1 .. MaxTareas |-> Libre]
  /\ venta' = SinVenta
  /\ pideNumero' = TRUE
  /\ UNCHANGED <<promociones, stock, catalogo, excusados, gestos, syncs, ventas, contador,
                 emitido>>

\* AbrirCajaModal shows or goes, PostSaleModal is closed.
ModalDeCaja ==
  /\ abiertos' = IF "caja" \in abiertos THEN abiertos \ {"caja"} ELSE abiertos \cup {"caja"}
  /\ UNCHANGED <<vars, objetivo, fiado, tickets>>
CierraPostVenta ==
  /\ "postventa" \in abiertos
  /\ abiertos' = abiertos \ {"postventa"}
  /\ venta' = SinVenta
  /\ UNCHANGED <<vars, objetivo, fiado, ventas, contador, emitido, pideNumero>>

-----------------------------------------------------------------------------
(* PaymentModal and confirmSale *)

FinalTotal == IF carrito.global > 0 THEN carrito.conDescuento ELSE carrito.total

\* The form as the cashier leaves it; -1 is cash left empty: the exact amount.
Formas == [metodo : {"efectivo", "debito", "mixto", "fiado"},
           recibido : Recibidos \cup {-1}, otros : Otros]

CashDue(f) == CASE f.metodo = "efectivo" -> FinalTotal
                [] f.metodo = "mixto" -> FinalTotal - f.otros
                [] OTHER -> 0
EfectivoRecibido(f) == IF CashDue(f) <= 0 THEN 0
                       ELSE IF f.recibido = -1 THEN CashDue(f) ELSE f.recibido

\* Mutant: cards may pay more than the sale.
CanConfirmConExceso(f) ==
  CASE f.metodo = "fiado" -> fiado.cliente # Nada
    [] f.metodo = "debito" -> TRUE
    [] OTHER -> EfectivoRecibido(f) >= CashDue(f)

\* The credit is compared when the customer is in the list on the screen.
CanConfirm(f) ==
  CASE f.metodo = "fiado" ->
         /\ fiado.cliente # Nada
         /\ fiado.cliente \in fiado.lista => FinalTotal <= Credito[fiado.cliente]
    [] f.metodo = "debito" -> TRUE
    [] f.metodo = "mixto" -> CashDue(f) >= 0 /\ EfectivoRecibido(f) >= CashDue(f)
    [] OTHER -> EfectivoRecibido(f) >= CashDue(f)

\* The record of confirmSale, with the payments handleConfirmPayment made.
Registro(f) ==
  [numero |-> contador + 1, lineas |-> Len(carrito.lineas), total |-> FinalTotal,
   efectivo |-> IF CashDue(f) > 0 THEN CashDue(f) ELSE 0,
   otros |-> IF f.metodo = "mixto" THEN f.otros
             ELSE IF f.metodo = "efectivo" THEN 0 ELSE FinalTotal,
   recibido |-> EfectivoRecibido(f), vuelto |-> EfectivoRecibido(f) - CashDue(f),
   cliente |-> IF f.metodo = "fiado" THEN fiado.cliente ELSE Nada]

\* handleConfirmPayment, by its button or by Enter: the sale is recorded and
\* queued, the stock deducted, the cart emptied, and PostSaleModal opens.
Confirmar(f) ==
  /\ "pago" \in abiertos /\ ventas < MaxVentas
  /\ CanConfirm(f)
  /\ venta' = Registro(f)
  /\ ventas' = ventas + 1
  /\ contador' = contador + 1
  /\ emitido' = Max({emitido, contador + 1})
  /\ VaciarVendido
  /\ abiertos' = (abiertos \ {"pago"}) \cup {"postventa"}
  /\ UNCHANGED <<gestos, objetivo, fiado, pideNumero>>

\* The customer of a sale on credit; Select reports the label it shows as a new
\* search.  Answers replace the list, whichever search they are of.
EligeCliente(c) ==
  /\ "pago" \in abiertos /\ c \in fiado.lista
  /\ fiado' = [fiado EXCEPT !.cliente = c, !.busca = TRUE]
  /\ UNCHANGED <<vars, abiertos, objetivo, tickets>>
BuscaCliente ==
  /\ "pago" \in abiertos
  /\ fiado' = [fiado EXCEPT !.busca = TRUE]
  /\ UNCHANGED <<vars, abiertos, objetivo, tickets>>
ClientesLlegan ==
  /\ fiado.busca
  /\ \E l \in SUBSET Clientes : fiado' = [fiado EXCEPT !.lista = l, !.busca = FALSE]
  /\ UNCHANGED <<vars, abiertos, objetivo, tickets>>

\* Mutant: the server's number is taken as it comes.
SyncTicketCounterTal(n) == n

\* syncTicketCounter compares after its await.
SyncTicketCounter(n) == IF n > contador THEN n ELSE contador

NumeroLlega ==
  /\ pideNumero
  /\ pideNumero' = FALSE
  /\ contador' \in {contador} \cup {SyncTicketCounter(n) : n \in 0 .. MaxNumero}
  /\ UNCHANGED <<vars, pantalla, venta, ventas, emitido>>

-----------------------------------------------------------------------------
(* The whole *)

Fuera == <<pantalla, tickets>>

CobroNext ==
  \/ \E modal \in {"pago", "precio", "descuento", "historial", "busqueda"} :
       Abre(modal) \/ Cierra(modal)
  \/ AbreDescuentoDeLinea
  \/ \E desc \in Descuentos : Aplica(desc)
  \/ Gesto /\ \E p \in Productos : Elige(p)
  \/ Gesto /\ Teclas
  \/ Cancelar \/ SalirYVolver \/ Recargar \/ ModalDeCaja \/ CierraPostVenta
  \/ \E f \in Formas : Confirmar(f)
  \/ \E c \in Clientes : EligeCliente(c)
  \/ BuscaCliente \/ ClientesLlegan \/ NumeroLlega
  \/ (\E t \in 1 .. MaxTareas : Sigue(t)) /\ UNCHANGED Fuera
  \/ Servidor /\ UNCHANGED Fuera

CobroSpec == CobroInit /\ [][CobroNext]_todo

-----------------------------------------------------------------------------
(* Properties *)

\* Type invariant of the screen around the cart.
CobroTypeOK ==
  /\ abiertos \subseteq {"pago", "precio", "descuento", "historial", "busqueda",
                         "postventa", "caja"}
  /\ "descuento" \notin abiertos => objetivo = <<Nada, 0>>
  /\ fiado.cliente \in Clientes \cup {Nada} /\ fiado.lista \subseteq Clientes
  /\ contador \in Nat /\ ventas <= MaxVentas
  /\ "postventa" \in abiertos <=> venta # SinVenta

\* The payments of a sale add up to what it costs and the change is what the
\* customer gave too much, although lines may still arrive in the cart, and
\* discounts change, while the payment form is open.
PagosCuadran ==
  venta # SinVenta =>
    /\ venta.efectivo + venta.otros = venta.total
    /\ venta.vuelto >= 0 /\ venta.recibido - venta.vuelto = venta.efectivo

\* A payment form is never open over an empty cart, so that no sale without
\* lines is recorded: whatever the keys and the handlers in flight do meanwhile.
PagoConCarrito ==
  /\ "pago" \in abiertos => Lineas # {}
  /\ venta # SinVenta => venta.lineas > 0

\* A sale is what was on the screen when it was confirmed: paid in full, with lines.
VentaCuadra == CobroTypeOK /\ PagosCuadran /\ PagoConCarrito

\* Action property: ticket numbers of a terminal only grow, over reloads, and
\* with an answer of getLastTicketNumber that arrives after a sale.
NumerosCrecen == [][ventas' = ventas + 1 => venta'.numero > emitido]_todo

\* What PaymentModal says of a sale on credit: "require client selected and
\* credit not exceeded".
FiadoConCredito ==
  venta # SinVenta /\ venta.cliente # Nada => venta.total <= Credito[venta.cliente]
=============================================================================
