------------------------------ MODULE Carrito -------------------------------
(***************************************************************************)
(* The cart of the point of sale: useCartStore, the promotions that are    *)
(* applied to it, the rows SalesTable shows, the local catalogue in        *)
(* IndexedDB and the handlers of PosTerminal that fill the cart.           *)
(*                                                                         *)
(* A handler runs to its next await; there any other handler, a catalogue  *)
(* download or a confirmed sale may run.  IndexedDB runs transactions in   *)
(* the order of their creation, so what a handler reads is the stock at    *)
(* the moment it asked, however late it goes on.  React renders, and runs  *)
(* the promotions effect, before the next event is handled.                *)
(*                                                                         *)
(* A product has one price; names, bar codes and lastAdded are left out.   *)
(* Discounts by promotion are amounts instead of percentages of the line.  *)
(***************************************************************************)
EXTENDS Integers, Sequences, FiniteSets, SequencesExt

CONSTANTS
  Unidades,     \* products sold by unit
  Pesables,     \* products sold by weight
  Precio,       \* price of each product, per unit or unit of weight
  Pesos,        \* weights the cashier may enter
  Descuentos,   \* percentages the cashier may enter
  Listas,       \* lists of active promotions the server may answer
  StockInicial, \* the catalogue the terminal starts with
  MaxStock,     \* bound: stock the server reports
  MaxTareas,    \* bound: handlers in flight at once
  MaxGestos,    \* bound: what the cashier does
  MaxSyncs      \* bound: catalogue downloads

Productos == Unidades \cup Pesables
Nada == "nada"

ASSUME CarritoAssumption ==
  /\ Unidades \cap Pesables = {} /\ Nada \notin Productos /\ IsFiniteSet(Productos)
  /\ Precio \in [Productos -> Nat \ {0}]
  /\ StockInicial \in [Productos -> 0 .. MaxStock]
  /\ Pesos \subseteq Nat \ {0} /\ Descuentos \subseteq 0 .. 100
  /\ Listas \subseteq Seq([prods : (SUBSET Productos) \ {{}}, n : Nat \ {0}, valor : Nat,
                          tipo : {"porcentaje", "monto_fijo"}])
  /\ MaxStock \in Nat /\ MaxTareas \in Nat

VARIABLES
  carrito,     \* useCartStore
  promociones, \* usePromocionesStore
  stock,       \* stock of each product in IndexedDB
  tareas,      \* handlers waiting at an await
  pesando,     \* the product WeightInputModal asks the weight of
  catalogo,    \* the download of the catalogue: "no", "pedido", "borrado"
  excusados,   \* history: products whose stock changed behind the cart
  gestos, syncs

vars == <<carrito, promociones, stock, tareas, pesando, catalogo, excusados,
          gestos, syncs>>

Libre == [pc |-> "libre", prod |-> Nada, w |-> 0, cant |-> 0, leido |-> 0]
Vacio == [lineas |-> <<>>, global |-> 0, total |-> 0, conDescuento |-> 0, sel |-> -1]

Init ==
  /\ carrito = Vacio
  /\ promociones = <<>>
  /\ stock = StockInicial
  /\ tareas = [t \in 1 .. MaxTareas |-> Libre]
  /\ pesando = Nada
  /\ catalogo = "no"
  /\ excusados = {}
  /\ gestos = 0
  /\ syncs = 0

-----------------------------------------------------------------------------
(* computePromoDescuentos *)

Pct(x, porcentaje) == (x * porcentaje) \div 100

\* A line by weight has an id of its own, so no promotion finds it.
DeUnidad(l) == l.w = 0
Indice(lineas, p, w) == SelectInSeq(lineas, LAMBDA l : l.prod = p /\ l.w = w)
CantidadDe(lineas, p) ==
  IF Indice(lineas, p, 0) = 0 THEN 0 ELSE lineas[Indice(lineas, p, 0)].cant

Cuenta(lineas) == [p \in Productos |-> CantidadDe(lineas, p)]

\* How many times a promotion is complete, given the units of each product.
Juegos(promo, unidades) ==
  Min({unidades[p] \div promo.n : p \in promo.prods})

\* What a complete promotion takes off product p: a percentage of the units in
\* it, or p's share of a fixed amount; never more than the line costs.
Rebaja(promo, unidades, p) ==
  LET juegos == Juegos(promo, unidades)
      monto == IF promo.tipo = "porcentaje"
                 THEN Pct(juegos * promo.n * Precio[p], promo.valor)
                 ELSE (juegos * promo.valor * Precio[p])
                        \div SumFunction([q \in promo.prods |-> Precio[q]])
  IN Min({monto, unidades[p] * Precio[p]})

\* Promotions do not add up: the best one of each product counts.
RebajaPromo(lista, unidades, p) ==
  LET activas == {i \in 1 .. Len(lista) : p \in lista[i].prods}
  IN Max({0} \cup {Rebaja(lista[i], unidades, p) : i \in activas})

-----------------------------------------------------------------------------
(* useCartStore *)

Base(l) == IF DeUnidad(l) THEN l.cant * Precio[l.prod] ELSE l.peso * Precio[l.prod]

\* A manual discount and a promotion do not add up either.
Subtotal(l, base, rebaja) == base - Max({Pct(base, l.desc), rebaja})
Debido(lista, lineas, l) ==
  Subtotal(l, Base(l), IF DeUnidad(l) THEN RebajaPromo(lista, Cuenta(lineas), l.prod) ELSE 0)

ComputeTotal(lineas) == SumFunction([i \in DOMAIN lineas |-> lineas[i].sub])
ComputeTotalConDescuento(total, global) == total - Pct(total, global)

Con(c, lineas) ==
  [c EXCEPT !.lineas = lineas, !.total = ComputeTotal(lineas),
            !.conDescuento = ComputeTotalConDescuento(ComputeTotal(lineas), c.global)]

\* The effect on cartKey and promociones: setPromoDiscounts.  It rewrites the
\* lines whose promotion changed; for the others it would write what is there.
SetPromoDiscounts(lista, c) ==
  Con(c, [i \in DOMAIN c.lineas |->
            IF DeUnidad(c.lineas[i])
              THEN [c.lineas[i] EXCEPT !.sub = Debido(lista, c.lineas, c.lineas[i])]
              ELSE c.lineas[i]])
EfectoPromos(c) == SetPromoDiscounts(promociones, c)

Linea(p, w, peso) ==
  [prod |-> p, w |-> w, cant |-> 1, peso |-> peso, desc |-> 0,
   sub |-> Precio[p] * (IF w = 0 THEN 1 ELSE peso)]

\* addItem once the stock is verified; sel is an index from 0.
AddUnit(c, p) ==
  LET i == Indice(c.lineas, p, 0)
  IN IF i > 0
       THEN EfectoPromos([c EXCEPT !.lineas[i].cant = @ + 1, !.sel = i - 1])
       ELSE EfectoPromos([c EXCEPT !.lineas = Append(@, Linea(p, 0, 0)),
                                   !.sel = Len(c.lineas)])

AddWeightItem(c, p, w, peso) ==
  EfectoPromos([c EXCEPT !.lineas = Append(@, Linea(p, w, peso)), !.sel = Len(c.lineas)])

\* One line at most has the id.
RemoveItem(c, p, w) ==
  LET i == Indice(c.lineas, p, w)
      lineas == IF i = 0 THEN c.lineas ELSE RemoveAt(c.lineas, i)
  IN EfectoPromos([c EXCEPT !.lineas = lineas,
                            !.sel = Max({0, Min({@, Len(lineas) - 1})})])

\* Mutant: a quantity for a line that is gone puts it back.
SetQuantityUpsert(c, p, w, cant) ==
  IF Indice(c.lineas, p, w) = 0
    THEN EfectoPromos([c EXCEPT !.lineas = Append(@, [Linea(p, w, 1) EXCEPT !.cant = cant])])
    ELSE EfectoPromos([c EXCEPT !.lineas[Indice(c.lineas, p, w)].cant = cant])

\* Mutant: the promotions of the cart are not looked at again.
SetQuantitySinEfecto(c, p, w, cant) ==
  LET i == Indice(c.lineas, p, w)
  IN IF i = 0 THEN c
     ELSE Con(c, [c.lineas EXCEPT ![i].cant = cant,
                                  ![i].sub = Subtotal(c.lineas[i], cant * Precio[p], 0)])

\* updateQuantity once the stock is verified; a line by weight is charged by
\* its quantity here, whatever it weighs.
SetQuantity(c, p, w, cant) ==
  LET i == Indice(c.lineas, p, w)
  IN IF i = 0 THEN c
     ELSE EfectoPromos([c EXCEPT !.lineas[i].cant = cant,
                                 !.lineas[i].sub = Subtotal(c.lineas[i], cant * Precio[p], 0)])

SetItemDiscount(c, i, desc) ==
  LET l == [c.lineas[i] EXCEPT !.desc = desc]
  IN Con(c, [c.lineas EXCEPT ![i] = [l EXCEPT !.sub = Debido(promociones, c.lineas, l)]])

SetGlobalDiscount(c, desc) ==
  [c EXCEPT !.global = desc, !.conDescuento = ComputeTotalConDescuento(c.total, desc)]

Move(c, paso) ==
  LET n == Len(c.lineas)
      to == c.sel + paso
  IN IF n = 0 THEN c
     ELSE [c EXCEPT !.sel = IF to < 0 THEN n - 1 ELSE IF to > n - 1 THEN 0 ELSE to]

-----------------------------------------------------------------------------
(* SalesTable: the rows, and the total they show *)

\* A row of single units: the discount of a promotion is the one of the whole
\* line, in proportion to the units shown.
FilaSuelta(l, resto, enCombo) ==
  LET pleno == resto * Precio[l.prod]
      promo == IF enCombo \/ ~ DeUnidad(l) THEN 0
               ELSE (RebajaPromo(promociones, Cuenta(carrito.lineas), l.prod) * resto) \div l.cant
  IN pleno - Max({Pct(pleno, l.desc), promo})

\* Combos take their units in the order of the list; a row each.
ConCombo(acc, promo) ==
  LET juegos == Juegos(promo, acc.resto)
      pleno == SumFunction([p \in promo.prods |-> Precio[p] * juegos * promo.n])
  IN IF Cardinality(promo.prods) = 1 \/ juegos = 0 THEN acc
     ELSE [resto |-> [p \in Productos |-> IF p \in promo.prods
                                            THEN acc.resto[p] - juegos * promo.n
                                            ELSE acc.resto[p]],
           combo |-> acc.combo \cup promo.prods,
           filas |-> acc.filas \cup {[promo |-> promo, juegos |-> juegos]},
           suma |-> acc.suma + (IF promo.tipo = "porcentaje"
                                  THEN pleno - Pct(pleno, promo.valor)
                                  ELSE Max({0, pleno - juegos * promo.valor}))]

BuildDisplayRows(lineas) ==
  FoldLeft(ConCombo,
           [resto |-> Cuenta(lineas), combo |-> {}, filas |-> {}, suma |-> 0], promociones)

\* What the rows add up to on the screen.
SumaFilas(lineas) ==
  LET combos == BuildDisplayRows(lineas)
      suelta(l) == FilaSuelta(l, IF DeUnidad(l) THEN combos.resto[l.prod] ELSE l.cant,
                              l.prod \in combos.combo)
  IN combos.suma + FoldSeq(LAMBDA l, s : suelta(l) + s, 0, lineas)

-----------------------------------------------------------------------------
(* The handlers: what the cashier does *)

Gesto == gestos < MaxGestos /\ gestos' = gestos + 1

HayLugar == \E t \in 1 .. MaxTareas : tareas[t] = Libre
Primera == Min({t \in 1 .. MaxTareas : tareas[t] = Libre})
Tarea(pc, p, w, cant) ==
  [pc |-> pc, prod |-> p, w |-> w, cant |-> cant, leido |-> IF w = 0 THEN stock[p] ELSE 0]

\* Enter in the scanner: handleAddProduct, with the price of the server first
\* when the browser is online.
Escanear(p) ==
  /\ HayLugar
  /\ \E pc \in {"precio", "busca"} : tareas' = [tareas EXCEPT ![Primera] = Tarea(pc, p, 0, 1)]
  /\ UNCHANGED <<carrito, promociones, stock, pesando, catalogo, excusados, syncs>>

\* addItem begins, for handler t: it asks for the stock.
AddItem(t, p) ==
  /\ tareas' = [tareas EXCEPT ![t] = Tarea("agrega", p, 0, 1)]
  /\ UNCHANGED pesando

\* addOrPromptWeight, for handler t.
AddOrPromptWeight(t, p) ==
  \/ /\ p \in Pesables
     /\ pesando' = p
     /\ tareas' = [tareas EXCEPT ![t] = Libre]
  \/ p \notin Pesables /\ AddItem(t, p)

\* A product of ProductSearch is chosen; the list may be older than the stock.
\* What the server answered when the local search found nothing carries no
\* unidadMedida: then a product by weight goes to the cart as a unit.
ElegirDeBusqueda(p) ==
  /\ HayLugar
  /\ AddOrPromptWeight(Primera, p) \/ (p \in Pesables /\ AddItem(Primera, p))
  /\ UNCHANGED <<carrito, promociones, stock, catalogo, excusados, syncs>>

\* The id of a new line is one that no line has and no handler in flight uses.
SinUso(p, w) ==
  /\ Indice(carrito.lineas, p, w) = 0
  /\ \A t \in 1 .. MaxTareas : tareas[t].prod # p \/ tareas[t].w # w
LineaNueva(p, w) == SinUso(p, w) /\ \A v \in 1 .. w - 1 : ~ SinUso(p, v)

PesoConfirmado(peso) ==
  /\ pesando # Nada
  /\ \E w \in 1 .. MaxGestos + 1 :
       LineaNueva(pesando, w) /\ carrito' = AddWeightItem(carrito, pesando, w, peso)
  /\ pesando' = Nada
  /\ UNCHANGED <<promociones, stock, tareas, catalogo, excusados, syncs>>

PesoCancelado ==
  /\ pesando # Nada
  /\ pesando' = Nada
  /\ UNCHANGED <<carrito, promociones, stock, tareas, catalogo, excusados, syncs>>

\* Units of line i that are in no combo: the row that SalesTable offers buttons in.
Resto(i) ==
  LET l == carrito.lineas[i]
  IN IF DeUnidad(l) THEN BuildDisplayRows(carrito.lineas).resto[l.prod] ELSE l.cant

\* Delete, the bin of a row without combo, or the minus of its last unit.
Quitar(i) ==
  /\ carrito.sel = i - 1 \/ Resto(i) = carrito.lineas[i].cant
  /\ carrito' = RemoveItem(carrito, carrito.lineas[i].prod, carrito.lineas[i].w)
  /\ UNCHANGED <<promociones, stock, tareas, pesando, catalogo, excusados, syncs>>

\* + and - of the keyboard and of the row, and a quantity typed in a row, which
\* replaces what is in no combo: numbers taken from the cart on the screen.
Pedibles(i) ==
  LET l == carrito.lineas[i]
      mano == {c \in {l.cant - 1, l.cant + 1} : carrito.sel = i - 1}
  IN IF DeUnidad(l) /\ Resto(i) > 0 THEN mano \cup (l.cant - Resto(i) .. MaxStock + 1) ELSE mano

UpdateQuantity(i, cant) ==
  /\ HayLugar
  /\ cant > 0
  /\ tareas' = [tareas EXCEPT ![Primera] = Tarea("cantidad", carrito.lineas[i].prod,
                                                 carrito.lineas[i].w, cant)]
  /\ UNCHANGED <<carrito, promociones, stock, pesando, catalogo, excusados, syncs>>

\* Units of p that stay when the combo of a row goes.
Queda(fila, p) == CantidadDe(carrito.lineas, p) - fila.juegos * fila.promo.n

\* The handlers once each product of turno has started its own.
ConTurnos(fila, turno) ==
  [t \in 1 .. MaxTareas |->
     IF \E p \in DOMAIN turno : turno[p] = t
       THEN LET p == CHOOSE p \in DOMAIN turno : turno[p] = t
            IN Tarea("cantidad", p, 0, Queda(fila, p))
       ELSE tareas[t]]

SinLineas(prods) == FoldSet(LAMBDA p, c : RemoveItem(c, p, 0), carrito, prods)

\* handleDeleteCombo: lines that are all in the combo go, the others wait for
\* their stock.
DeleteCombo(fila) ==
  LET esperan == {p \in fila.promo.prods : Queda(fila, p) > 0}
      libres == {t \in 1 .. MaxTareas : tareas[t] = Libre}
  IN /\ Cardinality(esperan) <= Cardinality(libres)
     /\ \E turno \in [esperan -> libres] :
          /\ \A p, q \in esperan : p # q => turno[p] # turno[q]
          /\ tareas' = ConTurnos(fila, turno)
     /\ carrito' = SinLineas(fila.promo.prods \ esperan)
     /\ UNCHANGED <<promociones, stock, pesando, catalogo, excusados, syncs>>

\* DiscountModal: the target is a line, or the whole sale.
Descontar(i, desc) ==
  /\ carrito' = IF i = 0 THEN SetGlobalDiscount(carrito, desc)
                ELSE SetItemDiscount(carrito, i, desc)
  /\ UNCHANGED <<promociones, stock, tareas, pesando, catalogo, excusados, syncs>>

\* The arrows, or a click on a row.
Seleccionar ==
  /\ carrito' \in {Move(carrito, -1), Move(carrito, 1)}
                    \cup {[carrito EXCEPT !.sel = i - 1] : i \in 1 .. Len(carrito.lineas)}
  /\ UNCHANGED <<promociones, stock, tareas, pesando, catalogo, excusados, syncs>>

\* deductLocalStock: a line by weight counts as one.
DeductLocalStock(lineas) ==
  [p \in Productos |->
     stock[p] - SumFunction([i \in {j \in DOMAIN lineas : lineas[j].prod = p} |->
                               lineas[i].cant])]

\* What confirmSale does to the cart and to the catalogue.
VaciarVendido ==
  /\ stock' = DeductLocalStock(carrito.lineas)
  /\ carrito' = Vacio
  /\ excusados' = excusados \cup {tareas[t].prod : t \in {u \in 1 .. MaxTareas :
                                  tareas[u].pc \in {"agrega", "cantidad"}}}
  /\ UNCHANGED <<promociones, tareas, pesando, catalogo, syncs>>

-----------------------------------------------------------------------------
(* The handlers go on *)

Termina(t) == tareas' = [tareas EXCEPT ![t] = Libre]

\* getPrecioPorBarcode answers: no stock, or go on with the local catalogue,
\* which is also what an error does.
PrecioResponde(t) ==
  /\ tareas[t].pc = "precio"
  /\ \/ Termina(t)
     \/ tareas' = [tareas EXCEPT ![t] = Tarea("busca", tareas[t].prod, 0, 1)]
  /\ UNCHANGED <<carrito, promociones, stock, pesando, catalogo, excusados, gestos, syncs>>

\* The look-ups of the catalogue, by bar code and by name, skip what has no stock.
Encontrado(t) == tareas[t].leido > 0

\* The local catalogue by bar code, then by name.
BuscaResponde(t) ==
  /\ tareas[t].pc = "busca"
  /\ IF Encontrado(t)
       THEN AddOrPromptWeight(t, tareas[t].prod)
       ELSE Termina(t) /\ UNCHANGED pesando
  /\ UNCHANGED <<carrito, promociones, stock, catalogo, excusados, gestos, syncs>>

\* Mutant: what is in the cart already is not counted.
CabeSinContar(t) == tareas[t].leido > 0

\* The stock read, against the cart as it is now.
Cabe(t) ==
  /\ tareas[t].leido > 0
  /\ CantidadDe(carrito.lineas, tareas[t].prod) + 1 <= tareas[t].leido

\* addItem after its await; a catalogue that cannot be read lets the sale go on.
AgregaResponde(t) ==
  LET p == tareas[t].prod
  IN /\ tareas[t].pc = "agrega"
     /\ \/ Cabe(t) /\ carrito' = AddUnit(carrito, p) /\ UNCHANGED excusados
        \/ ~ Cabe(t) /\ UNCHANGED <<carrito, excusados>>
        \/ carrito' = AddUnit(carrito, p) /\ excusados' = excusados \cup {p}
     /\ Termina(t)
     /\ UNCHANGED <<promociones, stock, pesando, catalogo, gestos, syncs>>

\* updateQuantity after its await.
CantidadResponde(t) ==
  LET ta == tareas[t]
  IN /\ ta.pc = "cantidad"
     /\ \/ /\ ta.cant <= ta.leido
           /\ carrito' = SetQuantity(carrito, ta.prod, ta.w, ta.cant)
           /\ UNCHANGED excusados
        \/ ta.cant > ta.leido /\ UNCHANGED <<carrito, excusados>>
        \/ /\ carrito' = SetQuantity(carrito, ta.prod, ta.w, ta.cant)
           /\ excusados' = excusados \cup {ta.prod}
     /\ Termina(t)
     /\ UNCHANGED <<promociones, stock, pesando, catalogo, gestos, syncs>>

-----------------------------------------------------------------------------
(* The server answers: promotions and catalogue *)

\* fetchActivePromociones, followed by the effect.
PromocionesLlegan ==
  /\ promociones = <<>>
  /\ \E l \in Listas : promociones' = l /\ carrito' = SetPromoDiscounts(l, carrito)
  /\ UNCHANGED <<stock, tareas, pesando, catalogo, excusados, gestos, syncs>>

DeltaSyncCatalog ==
  /\ catalogo = "no" /\ syncs < MaxSyncs
  /\ catalogo' = "pedido"
  /\ syncs' = syncs + 1
  /\ UNCHANGED <<carrito, promociones, stock, tareas, pesando, excusados, gestos>>

\* Without a previous synchronisation the table is emptied first.
SeedBorra ==
  /\ catalogo = "pedido"
  /\ catalogo' = "borrado"
  /\ stock' = [p \in Productos |-> 0]
  /\ excusados' = Productos
  /\ UNCHANGED <<carrito, promociones, tareas, pesando, gestos, syncs>>

\* The stock of the server replaces the local one, sales it has not seen
\* included.  A download that fails, or says nothing changed, writes nothing.
CatalogoLlega ==
  /\ catalogo # "no"
  /\ catalogo' = "no"
  /\ \/ UNCHANGED <<stock, excusados>>
     \/ \E p \in Productos, n \in 0 .. MaxStock :
          /\ stock' = [stock EXCEPT ![p] = n]
          /\ excusados' = excusados \cup {p}
  /\ UNCHANGED <<carrito, promociones, tareas, pesando, gestos, syncs>>

-----------------------------------------------------------------------------
(* The whole *)

Lineas == 1 .. Len(carrito.lineas)

Cajero ==
  \/ \E p \in Productos : Escanear(p)
  \/ \E p \in Productos : ElegirDeBusqueda(p)
  \/ \E peso \in Pesos : PesoConfirmado(peso)
  \/ PesoCancelado
  \/ \E i \in Lineas : Quitar(i)
  \/ \E i \in Lineas : \E cant \in Pedibles(i) : UpdateQuantity(i, cant)
  \/ \E fila \in BuildDisplayRows(carrito.lineas).filas : DeleteCombo(fila)
  \/ \E i \in Lineas \cup {0}, desc \in Descuentos : Lineas # {} /\ Descontar(i, desc)
  \/ Seleccionar

Sigue(t) == PrecioResponde(t) \/ BuscaResponde(t) \/ AgregaResponde(t) \/ CantidadResponde(t)

Servidor == PromocionesLlegan \/ DeltaSyncCatalog \/ SeedBorra \/ CatalogoLlega

Vender == Lineas # {} /\ VaciarVendido

Next ==
  \/ Gesto /\ Cajero
  \/ Gesto /\ Vender
  \/ \E t \in 1 .. MaxTareas : Sigue(t)
  \/ Servidor

Spec == Init /\ [][Next]_vars

-----------------------------------------------------------------------------
(* Properties *)

\* Type invariant: every variable has a value the stores can hold, and the
\* selected row is none, the first of an empty cart, or a line.
TypeOK ==
  /\ promociones \in Listas \cup {<<>>}
  /\ stock \in [Productos -> Int]
  /\ pesando \in Pesables \cup {Nada}
  /\ catalogo \in {"no", "pedido", "borrado"}
  /\ excusados \subseteq Productos
  /\ carrito.sel \in -1 .. Max({0, Len(carrito.lineas) - 1})
  /\ \A t \in 1 .. MaxTareas :
       tareas[t].pc \in {"libre", "precio", "busca", "agrega", "cantidad"}
  /\ \A i \in Lineas : carrito.lineas[i].cant > 0

\* However many scans of a product are in flight when it is not in the cart
\* yet, addItem leaves it in one line: it looks at the cart after its await.
UnaLineaPorProducto ==
  \A i, j \in Lineas :
    carrito.lineas[i].prod = carrito.lineas[j].prod /\ carrito.lineas[i].w = carrito.lineas[j].w
      => i = j

\* The total charged is the one the cart on the screen, its discounts and the
\* promotions in force give, after any order of scans, changes of quantity,
\* discounts, removals and arriving promotions.  (The stock of a line by weight
\* reads as 0, so its quantity stays 1 unless the catalogue cannot be read.)
TotalAlDia ==
  (\A i \in Lineas : DeUnidad(carrito.lineas[i]) \/ carrito.lineas[i].prod \notin excusados)
    => /\ carrito.total =
            SumFunction([i \in Lineas |-> Debido(promociones, carrito.lineas, carrito.lineas[i])])
       /\ carrito.conDescuento = ComputeTotalConDescuento(carrito.total, carrito.global)

\* The cart never holds more units of a product than IndexedDB has, although
\* addItem and updateQuantity verify the stock before an await, unless the
\* catalogue could not be read, was written from the server, or was reduced by
\* a sale confirmed while the handler was waiting.
CantidadConStock ==
  \A i \in Lineas :
    LET l == carrito.lineas[i]
    IN DeUnidad(l) /\ l.prod \notin excusados => l.cant <= stock[l.prod]

\* The rows SalesTable shows, built by an algorithm of its own, add up to the
\* total of the cart, when nothing is sold by weight, no line has a manual
\* discount and no product is in two promotions.
FilasCuadran ==
  /\ \A i \in Lineas : DeUnidad(carrito.lineas[i]) /\ carrito.lineas[i].desc = 0
  /\ \A i, j \in 1 .. Len(promociones) :
       i # j => promociones[i].prods \cap promociones[j].prods = {}
  => SumaFilas(carrito.lineas) = carrito.total

\* The cart on the screen is one cart: a line per product, the total that is due
\* and rows that add up to it (useCartStore, SalesTable).
CarritoCuadra == TypeOK /\ UnaLineaPorProducto /\ TotalAlDia /\ FilasCuadran

\* Action property: a handler that goes on after its await puts at most its own
\* product in the cart, and a change of quantity no line at all: a line removed
\* or sold in the meantime stays away.
CantidadNoRevive ==
  [][\A t \in 1 .. MaxTareas :
       tareas[t].pc = "cantidad" /\ tareas'[t] = Libre
         => \A i \in 1 .. Len(carrito'.lineas) :
              Indice(carrito.lineas, carrito'.lineas[i].prod, carrito'.lineas[i].w) > 0]_vars
=============================================================================
