---------------------------- MODULE NuevaCompra ----------------------------
(***************************************************************************)
(* NuevaCompraPage, the form of a purchase, and with it the panel of       *)
(* module Paginas as a whole: the page is one of those a behaviour may     *)
(* visit, and it leads to the list of purchases.                           *)
(*                                                                         *)
(* The form keeps rows of products and payments that are addressed by a    *)
(* key, computes the totals of the summary apart from the totals of the    *)
(* rows, and sends what is left after dropping the empty ones.  Nothing is *)
(* disabled while it is being saved but the button.  Amounts are integers  *)
(* scaled by 10^5 (percentages of prices), so the rounding of doubles is   *)
(* left out; texts are abstracted to whether they are empty, and the date, *)
(* which starts as today, is taken as given.                               *)
(***************************************************************************)
EXTENDS Paginas

CONSTANTS
  Precios,      \* prices typed
  Descuentos,   \* discounts typed, in percent; the field clamps on leaving it
  Impuestos,    \* IMPUESTO_OPTIONS, per mille
  Cantidades,   \* quantities typed
  MaxRenglones  \* bound: rows

ASSUME CompraAssumption ==
  /\ \A S \in {Precios, Descuentos, Impuestos, Cantidades} : S \subseteq Nat
  /\ MaxRenglones \in Nat \ {0}

VARIABLES
  items,       \* the rows
  nextKey,     \* key of the next row
  pagos,       \* the payments
  nextPagoKey,
  proveedores, \* the suppliers have arrived
  proveedorId, \* one is chosen
  tecleando,   \* key of the row whose discount field has the focus, 0 for none
  enviada      \* ghost: what the last click on "Guardar" sent, and the screen then

form == <<items, nextKey, pagos, nextPagoKey, proveedores, proveedorId, tecleando>>
panelVars == <<vars, form, enviada>>

Renglon(k) ==
  [key |-> k, nombre |-> FALSE, precio |-> 0, descuento |-> 0, impuesto |-> 210, cantidad |-> 1]

NadaEnviado == [items |-> <<>>, pagos |-> <<>>, total |-> 0, totalPagado |-> 0]

PanelInit ==
  /\ Init
  /\ items = <<Renglon(1)>> /\ nextKey = 2 /\ pagos = <<>> /\ nextPagoKey = 1
  /\ proveedores = FALSE /\ proveedorId = FALSE /\ tecleando = 0
  /\ enviada = NadaEnviado
-----------------------------------------------------------------------------
(***************************************************************************)
(* The amounts.                                                            *)
(***************************************************************************)
Suma(f(_), s) == SumFunction([j \in DOMAIN s |-> f(s[j])])

Base(r) == r.precio * r.cantidad
DescMon(r) == Base(r) * r.descuento * 1000
\* A plausible bug: the tax of the price before the discount.
ImpMonBruto(r) == Base(r) * 100 * r.impuesto
ImpMon(r) == Base(r) * (100 - r.descuento) * r.impuesto

\* The total of a row, as the row shows it.
CalcLineTotal(r) ==
  LET base == Base(r) * 100000
      desc == Base(r) * r.descuento * 1000
      t == base - desc + ((base - desc) \div 1000) * r.impuesto
  IN IF t < 0 THEN 0 ELSE t

\* The summary: subtotal with taxes, less the discounts.
Total(s) == Suma(LAMBDA r : Base(r) * 100000 + ImpMon(r), s) - Suma(DescMon, s)
TotalPagado(p) == Suma(LAMBDA x : x.monto, p)
-----------------------------------------------------------------------------
(***************************************************************************)
(* Editing.  Leaving the discount field clamps it, before any other click. *)
(***************************************************************************)
Edita == En("nueva") /\ Gesto /\ UNCHANGED <<pantalla, vuelo, enviada>>

\* Array.filter.
Filtra(s, Vale(_)) == FoldLeft(LAMBDA a, r : IF Vale(r) THEN Append(a, r) ELSE a, <<>>, s)

SinClave(s, k) == Filtra(s, LAMBDA r : r.key # k)

ConClave(s, k, f, v) ==
  [j \in DOMAIN s |-> IF s[j].key = k THEN [s[j] EXCEPT ![f] = v] ELSE s[j]]

AddRow ==
  /\ Edita /\ tecleando = 0 /\ Len(items) < MaxRenglones
  /\ items' = Append(items, Renglon(nextKey)) /\ nextKey' = nextKey + 1
  /\ UNCHANGED <<pagos, nextPagoKey, proveedores, proveedorId, tecleando>>

\* The last row has no button.
RemoveRow(k) ==
  /\ Edita /\ tecleando = 0 /\ Len(items) > 1
  /\ items' = SinClave(items, k)
  /\ UNCHANGED <<nextKey, pagos, nextPagoKey, proveedores, proveedorId, tecleando>>

\* What a field passes on: a quantity is at least one.
Campos ==
  {<<"nombre", TRUE>>} \cup ({"precio"} \X Precios) \cup ({"impuesto"} \X Impuestos)
  \cup ({"cantidad"} \X {IF c < 1 THEN 1 ELSE c : c \in Cantidades})

UpdateRow(k, f, v) ==
  /\ Edita /\ tecleando = 0
  /\ items' = ConClave(items, k, f, v)
  /\ UNCHANGED <<nextKey, pagos, nextPagoKey, proveedores, proveedorId, tecleando>>

\* The discount reaches the row at every key, as typed.
TecleaDescuento(k, d) ==
  /\ Edita /\ tecleando \in {0, k}
  /\ items' = ConClave(items, k, "descuento", d) /\ tecleando' = k
  /\ UNCHANGED <<nextKey, pagos, nextPagoKey, proveedores, proveedorId>>

DejaDescuento ==
  /\ En("nueva") /\ tecleando # 0 /\ tecleando' = 0
  /\ items' = [j \in DOMAIN items |->
                 [items[j] EXCEPT !.descuento = IF @ > 100 THEN 100 ELSE @]]
  /\ UNCHANGED <<vars, nextKey, pagos, nextPagoKey, proveedores, proveedorId, enviada>>

AddPago ==
  /\ Edita /\ tecleando = 0 /\ Len(pagos) < MaxRenglones
  /\ pagos' = Append(pagos, [key |-> nextPagoKey, monto |-> 0])
  /\ nextPagoKey' = nextPagoKey + 1
  /\ UNCHANGED <<items, nextKey, proveedores, proveedorId, tecleando>>

RemovePago(k) ==
  /\ Edita /\ tecleando = 0
  /\ pagos' = SinClave(pagos, k)
  /\ UNCHANGED <<items, nextKey, nextPagoKey, proveedores, proveedorId, tecleando>>

UpdatePago(k, v) ==
  /\ Edita /\ tecleando = 0
  /\ pagos' = ConClave(pagos, k, "monto", v)
  /\ UNCHANGED <<items, nextKey, nextPagoKey, proveedores, proveedorId, tecleando>>

\* The suppliers, asked for when the page is mounted; an error is swallowed.
ProveedoresLlegan ==
  /\ En("nueva") /\ ~proveedores /\ proveedores' = TRUE
  /\ UNCHANGED <<vars, items, nextKey, pagos, nextPagoKey, proveedorId, tecleando, enviada>>

EligeProveedor ==
  /\ Edita /\ tecleando = 0 /\ proveedores
  /\ proveedorId' = ~proveedorId
  /\ UNCHANGED <<items, nextKey, pagos, nextPagoKey, proveedores, tecleando>>
-----------------------------------------------------------------------------
(***************************************************************************)
(* Saving and leaving.                                                     *)
(***************************************************************************)
\* A plausible bug: a row without a name is an empty one.
ValidItemsConNombre(s) == Filtra(s, LAMBDA r : r.nombre)

ValidItems(s) == Filtra(s, LAMBDA r : r.nombre \/ r.precio > 0)

HandleGuardar ==
  /\ En("nueva") /\ tecleando = 0 /\ proveedorId /\ ValidItems(items) # <<>>
  /\ Presenta(Nadie, [Llamada("alta", Nadie) EXCEPT !.flag = "saving", !.local = "navega"])
  /\ enviada' = [items |-> ValidItems(items), pagos |-> Filtra(pagos, LAMBDA p : p.monto > 0),
                 total |-> Total(items), totalPagado |-> TotalPagado(pagos)]
  /\ UNCHANGED form

ACompras(calls) ==
  /\ pagina' = "compras" /\ cargando' = TRUE /\ ocupado' = {} /\ filtro' = Completo
  /\ vuelo' = Append(calls, [Listar EXCEPT !.q = Completo])
  /\ items' = <<Renglon(1)>> /\ nextKey' = 2 /\ pagos' = <<>> /\ nextPagoKey' = 1
  /\ proveedores' = FALSE /\ proveedorId' = FALSE /\ tecleando' = 0
  /\ UNCHANGED <<srv, lista, dialogo, hoja, panel, marcas, paso, relojes, fallas, hechas,
                 doble, anuladas, carrera, averia, enviada>>

\* A saved purchase leaves the form for the list of purchases.
Navega(k) ==
  /\ ~vuelo[k].ida /\ vuelo[k].local = "navega"
  /\ ACompras(<<>>) /\ UNCHANGED gestos

\* The callbacks of a call whose page is gone do nothing.
SinPantalla(c) == [c EXCEPT !.flag = Vacio, !.local = Vacio]

\* "Cancelar" leaves the form; a purchase being saved is saved all the same.
Cancela ==
  /\ En("nueva") /\ gestos < MaxGestos /\ Len(vuelo) < MaxVuelo
  /\ gestos' = gestos + 1
  /\ ACompras([k \in DOMAIN vuelo |-> SinPantalla(vuelo[k])])
-----------------------------------------------------------------------------
Claves(s) == {s[j].key : j \in DOMAIN s}

Compra ==
  \/ AddRow \/ DejaDescuento \/ AddPago \/ ProveedoresLlegan \/ EligeProveedor
  \/ \E k \in Claves(items) : RemoveRow(k) \/ (\E c \in Campos : UpdateRow(k, c[1], c[2]))
                               \/ \E d \in Descuentos : TecleaDescuento(k, d)
  \/ \E k \in Claves(pagos) : RemovePago(k) \/ \E v \in Precios : UpdatePago(k, v)
  \/ HandleGuardar \/ Cancela
  \/ \E k \in DOMAIN vuelo : Navega(k)

PanelNext == Compra \/ (Next /\ UNCHANGED <<form, enviada>>)

Quieto(A) == A /\ UNCHANGED <<form, enviada>>

\* The oldest fetch settles, the browser's interval and timers fire.
PanelSpec ==
  /\ PanelInit /\ [][PanelNext]_panelVars
  /\ WF_panelVars(vuelo # <<>> /\ (Quieto(Red(1)) \/ Navega(1)))
  /\ WF_panelVars(Quieto(DashboardTic)) /\ WF_panelVars(Quieto(OnboardingAvanza))
-----------------------------------------------------------------------------
\* Rows and payments are told apart by their keys, whatever was added and removed:
\* updateRow changes the row that was edited and no other.
ClavesUnicas ==
  /\ Cardinality(Claves(items)) = Len(items) /\ items # <<>>
  /\ Cardinality(Claves(pagos)) = Len(pagos)

\* The total of the summary, computed from subtotals and discounts, is the sum of
\* the totals of the rows, which calcLineTotal computes its own way and cuts at
\* zero; while a discount is being typed it may exceed 100.
TotalEsSuma == tecleando = 0 => Total(items) = Suma(CalcLineTotal, items)

\* What is sent adds up to the total and the payments that were on the screen when
\* the button was pressed, though rows and payments that look empty are left out.
SeGuardaLoMostrado ==
  /\ Total(enviada.items) = enviada.total
  /\ TotalPagado(enviada.pagos) = enviada.totalPagado

\* The form keeps its rows apart, shows one total, and sends what it shows
\* (updateRow, calcLineTotal, handleGuardar).
CompraCuadra == ClavesUnicas /\ TotalEsSuma /\ SeGuardaLoMostrado
=============================================================================
