------------------------------ MODULE Paginas ------------------------------
(***************************************************************************)
(* The pages of the administration panel, seen as what they have in        *)
(* common: a page shows a copy of rows the server keeps, and every handler *)
(* is an async function whose awaits interleave with the user's clicks and *)
(* with the other handlers in flight.  A behaviour is one visit to one     *)
(* page; leaving a page discards its state.                                *)
(*                                                                         *)
(* A handler is a chain of calls.  `vuelo' holds the calls in flight in    *)
(* the order they were sent; the server attends them in any order and the  *)
(* answers arrive in any order.  A call carries what its closure captured: *)
(* the row, the filter of the render it was created in, the busy flag that *)
(* its `finally' releases, the calls that follow, what a success does to   *)
(* the copy (`local') and which dialog it closes.  Each page's handlers    *)
(* are the definitions named after the page; the rows stand for products,  *)
(* customers, purchases, ... whichever the page shows.                     *)
(***************************************************************************)
EXTENDS Naturals, Sequences, SequencesExt, FiniteSets, TLC

CONSTANTS
  Filas,      \* rows the server can hold
  Primera,    \* the row that exists at the start
  Filtros,    \* what the list request depends on: branch, period, state
  Completo,   \* the filter that lists every row, with its stock in all branches
  Visitadas,  \* the pages this instance visits
  MaxGestos,  \* bound: clicks of the user
  MaxVuelo,   \* bound: calls in flight
  MaxFallas   \* bound: calls that fail

VARIABLES
  pagina,    \* the page
  srv,       \* the server's rows
  filtro,    \* the filter chosen on the page
  lista,     \* the page's copy and the filter it was asked with
  cargando,  \* `loading': the table shows skeletons
  dialogo,   \* the open dialog, the row it is about
  hoja,      \* number of the form being filled in: opening and reset turn it
  ocupado,   \* busy flags set: saving, deleting, pagoLoading, ...
  panel,     \* lots, variants or account: whose title is shown, whose rows
  marcas,    \* rows selected (productos) or remembered as annulled (facturacion)
  paso,      \* step of the onboarding wizard
  relojes,   \* auto-advance timers running in the wizard
  vuelo,     \* calls in flight
  gestos, fallas,
  hechas,    \* ghost: the forms that had an effect on the server
  doble,     \* ghost: one of them had two
  anuladas,  \* ghost: rows whose annulment was answered
  carrera,   \* ghost: calls overtook each other, or a handler outlived its filter or
             \* row, or a switch was pressed while its row was being changed, or an
             \* answer goes into a list whose filter it does not speak for
  averia     \* ghost: a read failed or was answered with a kept body, or an answer was lost

vars == <<pagina, srv, filtro, lista, cargando, dialogo, hoja, ocupado, panel,
          marcas, paso, relojes, vuelo, gestos, fallas, hechas, doble, anuladas,
          carrera, averia>>

pantalla == <<pagina, filtro, lista, cargando, dialogo, hoja, ocupado, panel,
              marcas, paso, relojes>>

Nadie == "nadie"
Vacio == ""    \* no flag, no dialog, no change of the copy
\* A row: what it contains, seen with each filter; n[Completo] is the stock in all
\* the branches.  A new one has stock, but none of it in a branch.
EnNinguna == [q \in Filtros |-> IF q = Completo THEN 1 ELSE 0]
No == [existe |-> FALSE, activa |-> FALSE, n |-> EnNinguna]
Nueva == [existe |-> TRUE, activa |-> TRUE, n |-> EnNinguna]
\* A row as an answer shows it has one number.
NoVista == [No EXCEPT !.n = 0]
Nada == [de |-> Nadie, filas |-> <<>>]
Cerrado == [tipo |-> Vacio, sobre |-> Nadie]

Paginas == {"productos", "promociones", "categorias", "inventario", "clientes",
            "proveedores", "usuarios", "sucursales", "transferencias", "stock",
            "vencimientos", "compras", "compra", "nueva", "facturacion",
            "reportes", "dashboard", "fiscal", "ai", "onboarding", "consulta",
            "precio", "cierre", "historial"}

ASSUME PaginasAssumption ==
  /\ Primera \in Filas /\ Nadie \notin Filas \cup Filtros
  /\ Completo \in Filtros /\ Visitadas \subseteq Paginas
  /\ {MaxGestos, MaxFallas} \subseteq Nat /\ MaxVuelo \in Nat \ {0}

\* Pages that load nothing when they are mounted.
SinLista == {"nueva", "ai", "onboarding", "consulta", "precio"}
\* Pages that may start with any filter: the branch of the header bar, the users
\* without the inactive ones.
ConFiltro == {"productos", "inventario", "usuarios"}
\* Pages with filters that list only the rows in one state.
PorEstado == {"compras", "usuarios", "transferencias"}
\* Pages whose rows stay on screen, and clickable, while they reload.
SinEsqueleto == {"usuarios", "facturacion"}
\* Steps of the wizard; the fiscal form is the second.
Pasos == 4
Fiscal == 1
(***************************************************************************)
(* Calls.                                                                  *)
(***************************************************************************)
Llamada(op, i) ==
  [op |-> op, sobre |-> i, q |-> filtro, flag |-> Vacio, luego |-> <<>>,
   local |-> Vacio, cierra |-> Vacio, vale |-> TRUE, vio |-> NoVista, resto |-> {}, hoja |-> hoja,
   ida |-> TRUE, res |-> NoVista]

Listar == Llamada("lista", Nadie)

Lecturas == {"lista", "movs", "lotes", "variantes", "cliente", "chat", "metricas",
             "comprobante", "pdf"}
\* Reads that catch their own error: the chain that awaits them goes on.
Tragan == {"lista", "movs"}

Paneles == {"movs", "lotes", "variantes"}

\* The rows before anything is written.
Iniciales == [i \in Filas |-> IF i = Primera THEN Nueva ELSE No]

Init ==
  /\ pagina \in Visitadas
  /\ srv = Iniciales
  /\ filtro \in IF pagina \in SinLista THEN {Nadie}
                ELSE IF pagina \in ConFiltro THEN Filtros ELSE {Completo}
  /\ lista = Nada
  /\ cargando = (pagina \notin SinLista)
  /\ dialogo = Cerrado /\ hoja = 0 /\ ocupado = {} /\ marcas = {}
  /\ panel = [p \in Paneles |-> [de |-> Nadie, filas |-> Nadie]]
  /\ paso = 0 /\ relojes = 0
  /\ vuelo = IF pagina \in SinLista THEN <<>> ELSE <<Listar>>
  /\ gestos = 0 /\ fallas = 0 /\ hechas = {} /\ doble = FALSE /\ anuladas = {}
  /\ carrera = FALSE /\ averia = FALSE

\* The rows the server holds, those it lists for a filter and how it shows them.
Presentes(s) == {i \in Filas : s[i].existe}
Parcial(q) == q \notin {Completo, Nadie}
Visibles(s, q) ==
  {i \in Presentes(s) : pagina \in PorEstado /\ Parcial(q) => s[i].activa}
Vista(f, q) == [f EXCEPT !.n = @[IF Parcial(q) THEN q ELSE Completo]]
Listadas(s, q) == [i \in Visibles(s, q) |-> Vista(s[i], q)]

\* The row a call is about: a new one takes a free place.
Destino(c) ==
  IF c.op = "alta" /\ Presentes(srv) # Filas THEN CHOOSE j \in Filas : ~srv[j].existe ELSE c.sobre

\* What a write leaves of row f.  An adjustment of the stock changes the total and
\* the branch it is made in.
Tocados(c) == IF c.local = "stock" THEN {Completo, c.q} ELSE Filtros
Contada(c, n) == [q \in Filtros |-> IF q \in Tocados(c) THEN n[q] + 1 ELSE n[q]]
Escrita(c, f) ==
  CASE c.op = "alta"    -> Nueva
    [] c.op = "guardar" -> [f EXCEPT !.n = Contada(c, @)]
    [] c.op = "estado"  -> [f EXCEPT !.activa = c.vale]
    [] c.op = "borrar"  -> No

Efecto(c) ==
  LET i == Destino(c)
  IN IF c.op \in Lecturas \cup {"sub"} \/ i \notin Filas \/ (c.op # "alta" /\ ~srv[i].existe)
     THEN srv ELSE [srv EXCEPT ![i] = Escrita(c, @)]

Escritura(c) == c.op \notin Lecturas

\* Writes behind a button that is disabled while they are in flight.
\* Closing the import dialog forgets its flag: it protects one opening only.
Protegida(c) == Escritura(c) /\ c.flag \notin {Vacio, "importing"} /\ c.local # "todas"

\* A handler that puts the answer of its write in the list, although the list shows
\* the stock of one branch and the answer is the total, or shows the rows in one
\* state and the write takes the row out of it.
Parche(c) ==
  /\ Parcial(c.q)
  /\ \/ c.local = "stock"
     \/ c.local \in {"voltea", "estado"} /\ pagina \in PorEstado

Atiende(k) ==
  LET c == vuelo[k] IN
  /\ c.ida
  /\ srv' = Efecto(c)
  /\ vuelo' = [vuelo EXCEPT ![k].ida = FALSE, ![k].res =
                IF c.op = "lista" THEN Listadas(srv, c.q)
                ELSE IF c.sobre \in Filas THEN Vista(srv'[c.sobre], Completo) ELSE NoVista]
  /\ doble' = (doble \/ (Protegida(c) /\ <<c.hoja, c.flag>> \in hechas))
  /\ hechas' = IF Protegida(c) THEN hechas \cup {<<c.hoja, c.flag>>} ELSE hechas
  /\ carrera' = (carrera \/ Parche(c) \/ \E j \in 1..(k - 1) : vuelo[j].ida)
  /\ UNCHANGED <<pantalla, gestos, fallas, anuladas, averia>>

\* The service worker answers a list request that fails or is slow with the body it
\* kept for the URL.  A state is part of the URL, the branch is a header: the body
\* kept, here the one of the first visit, may be another branch's.
Guardada(c) == Listadas(Iniciales, IF pagina \in PorEstado THEN c.q ELSE Completo)

DeCache(k) ==
  LET c == vuelo[k] IN
  /\ c.op = "lista" /\ c.ida
  /\ fallas < MaxFallas /\ fallas' = fallas + 1
  /\ vuelo' = [vuelo EXCEPT ![k].ida = FALSE, ![k].res = Guardada(c)]
  /\ averia' = TRUE
  /\ UNCHANGED <<pantalla, srv, gestos, hechas, doble, anuladas, carrera>>
-----------------------------------------------------------------------------
(***************************************************************************)
(* What an answer does.                                                    *)
(***************************************************************************)
\* The call that the handler awaits next.
Proxima(c) ==
  IF c.resto # {} THEN LET i == CHOOSE j \in c.resto : TRUE
                       IN <<[c EXCEPT !.sobre = i, !.resto = @ \ {i}, !.ida = TRUE]>>
  ELSE IF c.luego = <<>> THEN <<>>
  ELSE <<[c EXCEPT !.op = Head(c.luego), !.luego = Tail(c.luego), !.ida = TRUE,
                   !.flag = IF c.flag = "importing" THEN Vacio ELSE @,
                   !.local = Vacio, !.cierra = IF c.local = "todas" THEN "lote" ELSE Vacio]>>

\* Each visit to the fiscal step of the wizard mounts a form of its own.
Montado(c) == pagina = "onboarding" => c.hoja = hoja

\* A plausible bug: the flag is released after the await, not in `finally'.
ContinuaSinFinally(k, prox) ==
  LET c == vuelo[k] IN
  /\ vuelo' = RemoveAt(vuelo, k) \o prox
  /\ ocupado' = IF prox = <<>> /\ ~c.ida THEN ocupado \ {c.flag, "refreshing"} ELSE ocupado
  /\ cargando' = IF prox # <<>> /\ prox[1].op = "lista" THEN TRUE
                 ELSE IF c.op = "lista" THEN FALSE ELSE cargando

Continua(k, prox) ==
  LET c == vuelo[k] IN
  /\ vuelo' = RemoveAt(vuelo, k) \o prox
  /\ ocupado' = ocupado \ ((IF Montado(c) /\ (prox = <<>> \/ prox[1].flag # c.flag)
                               THEN {c.flag} ELSE {})
                            \cup (IF c.op = "lista" THEN {"refreshing"} ELSE {}))
  /\ cargando' = IF prox # <<>> /\ prox[1].op = "lista" THEN TRUE
                 ELSE IF c.op = "lista" THEN FALSE ELSE cargando

Mostrada(i) == i \in DOMAIN lista.filas

\* A copy of the list once the answer of c is applied to it.
Aplicada(copia, c) ==
  LET f == copia.filas
      Esta == c.sobre \in DOMAIN f
  IN CASE c.op = "lista" -> [de |-> c.q, filas |-> c.res]
       [] c.op # "lista" /\ c.local = "voltea" /\ Esta ->
            [copia EXCEPT !.filas[c.sobre].activa = ~@]
       [] c.op # "lista" /\ c.local = "stock" /\ Esta /\ c.res.existe ->
            [copia EXCEPT !.filas[c.sobre].n = c.res.n]
       [] c.op # "lista" /\ c.local = "estado" /\ Esta /\ c.res.existe ->
            [copia EXCEPT !.filas[c.sobre].activa = c.res.activa]
       [] c.op # "lista" /\ c.local = "quita" ->
            [copia EXCEPT !.filas = [i \in DOMAIN f \ {c.sobre} |-> f[i]]]
       [] OTHER -> copia

EnLaLista(c) == lista' = Aplicada(lista, c)

EnElPanel(c) ==
  panel' = IF c.op \in Paneles THEN [panel EXCEPT ![c.op].filas = c.sobre]
           ELSE IF c.op = "cliente" THEN [panel EXCEPT !["movs"].de = c.sobre]
           ELSE panel

Cerrando(c) == dialogo' = IF c.cierra # Vacio /\ dialogo.tipo = c.cierra THEN Cerrado ELSE dialogo

Marcadas(c) ==
  IF c.local = "marca" THEN marcas \cup {c.sobre}
  ELSE IF c.cierra = "lote" THEN {} ELSE marcas

Vuelve(k) ==
  LET c == vuelo[k] IN
  /\ ~c.ida
  /\ c.local # "navega" /\ c.local # "fiscal"
  /\ Continua(k, Proxima(c))
  /\ EnLaLista(c) /\ EnElPanel(c) /\ Cerrando(c)
  /\ marcas' = Marcadas(c)
  /\ anuladas' = IF c.local = "marca" THEN anuladas \cup {c.sobre} ELSE anuladas
  /\ hoja' = IF c.local = "reset" THEN gestos + 1 ELSE hoja
  /\ carrera' = (carrera \/ k # 1)
  /\ UNCHANGED <<pagina, srv, filtro, paso, relojes, gestos, fallas, hechas, doble, averia>>

\* A request that did not arrive, or whose answer was lost or was an error.
Falla(k) ==
  LET c == vuelo[k]
      sigue == IF c.op \in Tragan \/ c.resto # {} \/ c.local = "todas" THEN Proxima(c) ELSE <<>>
      estima == pagina = "inventario" /\ c.local = "stock" /\ Mostrada(c.sobre)
  IN
  /\ fallas < MaxFallas /\ fallas' = fallas + 1
  /\ Continua(k, sigue)
  /\ IF c.local = "marca" \/ c.cierra = "lote" THEN Cerrando(c) ELSE UNCHANGED dialogo
  /\ marcas' = IF c.cierra = "lote" THEN {} ELSE marcas
  /\ lista' = IF estima THEN [lista EXCEPT !.filas[c.sobre].n = c.vio.n + 1]
              ELSE IF pagina \in {"reportes", "consulta"} THEN Nada ELSE lista
  /\ averia' = (averia \/ ~Escritura(c) \/ ~c.ida \/ estima)
  /\ UNCHANGED <<pagina, srv, filtro, hoja, panel, paso, relojes, gestos, hechas,
                 doble, anuladas, carrera>>
-----------------------------------------------------------------------------
(***************************************************************************)
(* What a click does.                                                      *)
(***************************************************************************)
En(p) == pagina = p

GestoEn(riesgo) ==
  /\ gestos < MaxGestos
  /\ gestos' = gestos + 1
  /\ carrera' = (carrera \/ riesgo)
  /\ UNCHANGED <<pagina, srv, fallas, hechas, doble, anuladas, averia>>

Gesto == GestoEn(FALSE)

\* A handler in flight goes on with the filter it captured.
CambiaFiltro == GestoEn(vuelo # <<>>)

Manda(c) ==
  /\ Len(vuelo) < MaxVuelo
  /\ vuelo' = Append(vuelo, c)
  /\ ocupado' = ocupado \cup ({c.flag} \ {Vacio})

Clicable(i) == Mostrada(i) /\ (cargando => pagina \in SinEsqueleto)
Libre == dialogo = Cerrado /\ \A p \in Paneles \ {"movs"} : panel[p].de = Nadie

Abre(tipo, i) ==
  /\ Gesto /\ Libre
  /\ i = Nadie \/ Clicable(i)
  /\ dialogo' = [tipo |-> tipo, sobre |-> i] /\ hoja' = gestos + 1
  /\ UNCHANGED <<filtro, lista, cargando, ocupado, panel, marcas, paso, relojes, vuelo>>

\* The account of a customer, when it is shown, hides the customer's form.
Titular == panel["movs"].de

Cierra ==
  /\ Gesto /\ dialogo # Cerrado /\ dialogo.tipo # "precio"
  /\ dialogo.tipo = "form" => Titular = Nadie
  /\ dialogo' = Cerrado
  /\ ocupado' = IF dialogo.tipo = "importar" THEN ocupado \ {"importing"} ELSE ocupado
  /\ UNCHANGED <<filtro, lista, cargando, hoja, panel, marcas, paso, relojes, vuelo>>

\* The filter changes and the effect that depends on it asks for the list.
Refiltra(q) ==
  /\ CambiaFiltro /\ Libre
  /\ filtro' = q /\ cargando' = TRUE
  /\ Manda([Listar EXCEPT !.q = q])
  /\ UNCHANGED <<lista, dialogo, hoja, panel, marcas, paso, relojes>>

\* A plausible bug: the button does not look at its flag.
ConfirmaSiempre(tipo, c) ==
  /\ Gesto /\ dialogo.tipo = tipo
  /\ Manda([c EXCEPT !.sobre = dialogo.sobre])
  /\ UNCHANGED <<filtro, lista, cargando, dialogo, hoja, panel, marcas, paso, relojes>>

\* A button of the open dialog; with a flag, one that is disabled while set.
Confirma(tipo, c) ==
  /\ Gesto /\ dialogo.tipo = tipo
  /\ c.flag \notin ocupado
  /\ Manda([c EXCEPT !.sobre = dialogo.sobre])
  /\ UNCHANGED <<filtro, lista, cargando, dialogo, hoja, panel, marcas, paso, relojes>>

\* A call in flight that changes the row behind its switch, or the deletion of
\* the selected rows up to its reload.
Cambia(c, i) ==
  (c.local = "voltea" /\ c.sobre = i) \/ c.local = "todas" \/ c.cierra = "lote"

\* A control of the page itself: each press is a form of its own.
Pulsa(i, c) ==
  /\ GestoEn(c.local = "voltea" /\ \E k \in 1..Len(vuelo) : Cambia(vuelo[k], i))
  /\ Libre
  /\ c.flag \notin ocupado
  /\ hoja' = gestos + 1
  /\ Manda([c EXCEPT !.sobre = i, !.hoja = hoja'])
  /\ UNCHANGED <<filtro, lista, cargando, dialogo, panel, marcas, paso, relojes>>

\* A form that is always on the page, or in an open panel.
Presenta(i, c) ==
  /\ Gesto /\ dialogo = Cerrado
  /\ c.flag \notin ocupado
  /\ Manda([c EXCEPT !.sobre = i])
  /\ UNCHANGED <<filtro, lista, cargando, dialogo, hoja, panel, marcas, paso, relojes>>

\* A plausible bug: the list is not asked for again after saving.
FormularioSinRecarga(flag, luego) ==
  LET c == Llamada(IF dialogo.sobre = Nadie THEN "alta" ELSE "guardar", Nadie)
  IN Confirma("form", [c EXCEPT !.flag = flag, !.cierra = "form"])

\* The form: a new row or an edited one, then the dialog closes and the list
\* is asked for again with the filter of the render that submitted it.
Formulario(flag, luego) ==
  LET c == Llamada(IF dialogo.sobre = Nadie THEN "alta" ELSE "guardar", Nadie)
  IN Confirma("form", [c EXCEPT !.flag = flag, !.luego = luego, !.cierra = "form"])

Baja(op, flag) ==
  Confirma("baja", [Llamada(op, Nadie) EXCEPT !.vale = FALSE, !.flag = flag,
                      !.luego = <<"lista">>, !.cierra = "baja"])

AbreFila(tipos) == \E t \in tipos, i \in Filas : Abre(t, i)
AbreNueva == Abre("form", Nadie)

\* The refresh button, with the table's flag or with one of its own.
RefrescaAparte ==
  /\ Gesto /\ Libre /\ "refreshing" \notin ocupado
  /\ Manda([Listar EXCEPT !.flag = "refreshing"])
  /\ UNCHANGED <<filtro, lista, cargando, dialogo, hoja, panel, marcas, paso, relojes>>

Refresca ==
  /\ Gesto /\ Libre /\ ~cargando
  /\ cargando' = TRUE /\ Manda(Listar)
  /\ UNCHANGED <<filtro, lista, dialogo, hoja, panel, marcas, paso, relojes>>

\* A switch of a row: the request is for the opposite of what is shown.
Conmuta(i, local, luego) ==
  /\ Clicable(i)
  /\ Pulsa(i, [Llamada("estado", i) EXCEPT !.vale = ~lista.filas[i].activa,
                  !.local = local, !.luego = luego])
-----------------------------------------------------------------------------
(***************************************************************************)
(* GestionProductosPage and PromocionesTab.                                *)
(***************************************************************************)
ProductosSucursal == En("productos") /\ \E q \in Filtros \ {filtro} : Refiltra(q)
ProductosAbre == En("productos") /\ (AbreNueva \/ AbreFila({"form", "stock"}))
ProductosGuarda == En("productos") /\ Formulario(Vacio, <<"lista">>)
ProductosToggle == En("productos") /\ \E i \in Filas : Conmuta(i, "voltea", <<>>)

ProductosAjusta ==
  En("productos") /\ Confirma("stock", [Llamada("guardar", Nadie) EXCEPT
                                          !.local = "stock", !.cierra = "stock"])

\* One row, or all the rows shown.
ProductosElige(F) ==
  /\ En("productos") /\ Gesto /\ Libre /\ F # {} /\ \A i \in F : Clicable(i)
  /\ marcas' = IF F \subseteq marcas THEN marcas \ F ELSE marcas \cup F
  /\ UNCHANGED <<filtro, lista, cargando, dialogo, hoja, ocupado, panel, paso, relojes, vuelo>>

ProductosAbreBaja == En("productos") /\ marcas # {} /\ Abre("lote", Nadie)

\* One request per selected row, a failed one does not stop the others, then
\* the list; only then the selection is emptied and the dialog closes.
ProductosElimina ==
  LET i == CHOOSE j \in marcas : TRUE IN
  /\ En("productos") /\ Gesto /\ dialogo.tipo = "lote" /\ marcas # {}
  /\ "deleting" \notin ocupado
  /\ Manda([Llamada("estado", i) EXCEPT !.vale = FALSE, !.resto = marcas \ {i},
               !.flag = "deleting", !.local = "todas", !.luego = <<"lista">>])
  /\ UNCHANGED <<filtro, lista, cargando, dialogo, hoja, panel, marcas, paso, relojes>>

\* The import of a CSV; the list is asked for without waiting for it.
ProductosAbreImportar == En("productos") /\ Abre("importar", Nadie)
ProductosImporta ==
  En("productos") /\ Confirma("importar", [Llamada("alta", Nadie) EXCEPT !.flag = "importing",
                                             !.luego = <<"lista">>, !.cierra = "importar"])

\* Lots and variants: the title changes at once, the rows when they arrive.
\* They open from the table or from the product's form.  A form of the panel of
\* another product still reads that product's rows again when it is answered.
AbrePanel(p, i) ==
  /\ GestoEn(\E k \in 1..Len(vuelo) :
               Contains(vuelo[k].luego, p) /\ vuelo[k].sobre # i)
  /\ (Libre /\ Clicable(i)) \/ dialogo = [tipo |-> "form", sobre |-> i]
  /\ dialogo' = Cerrado
  /\ panel' = [panel EXCEPT ![p].de = i] /\ hoja' = gestos + 1
  /\ Manda([Llamada(p, i) EXCEPT !.flag = p])
  /\ UNCHANGED <<filtro, lista, cargando, marcas, paso, relojes>>

ProductosCierraPanel ==
  /\ En("productos") /\ Gesto
  /\ \E p \in {"lotes", "variantes"} :
       panel[p].de # Nadie /\ panel' = [panel EXCEPT ![p].de = Nadie]
  /\ UNCHANGED <<filtro, lista, cargando, dialogo, hoja, ocupado, marcas, paso, relojes, vuelo>>

ProductosLotes == En("productos") /\ \E i \in Filas : AbrePanel("lotes", i)

ProductosCreaLote ==
  /\ En("productos") /\ panel["lotes"].de # Nadie
  /\ Presenta(panel["lotes"].de, [Llamada("sub", Nadie) EXCEPT !.flag = "creandoLote",
                                    !.local = "reset", !.luego = <<"lotes">>])

ProductosBajaLote ==
  /\ En("productos") /\ panel["lotes"].de # Nadie /\ panel["lotes"].filas # Nadie
  /\ "lotes" \notin ocupado
  /\ Presenta(panel["lotes"].de, [Llamada("sub", Nadie) EXCEPT !.luego = <<"lotes">>])

ProductosVariantes == En("productos") /\ \E i \in Filas : AbrePanel("variantes", i)

ProductosCreaVariante ==
  /\ En("productos") /\ panel["variantes"].de # Nadie
  /\ Presenta(panel["variantes"].de, [Llamada("sub", Nadie) EXCEPT !.flag = "creandoVariante",
                                    !.local = "reset", !.luego = <<"variantes", "lista">>])

PromocionesAbre == En("promociones") /\ (AbreNueva \/ AbreFila({"form", "baja"}))
PromocionesGuarda == En("promociones") /\ Formulario("saving", <<"lista">>)
PromocionesElimina == En("promociones") /\ Baja("borrar", "deleting")
-----------------------------------------------------------------------------
(***************************************************************************)
(* Pages of rows with a form.                                              *)
(***************************************************************************)
CategoriasAbre == En("categorias") /\ (AbreNueva \/ AbreFila({"form", "baja"}))
CategoriasGuarda == En("categorias") /\ Formulario("saving", <<"lista">>)
CategoriasDesactiva == En("categorias") /\ Baja("estado", Vacio)
CategoriasReactiva ==
  En("categorias") /\ \E i \in Filas : Mostrada(i) /\ ~lista.filas[i].activa
                                         /\ Conmuta(i, Vacio, <<"lista">>)

InventarioSucursal == En("inventario") /\ \E q \in Filtros \ {filtro} : Refiltra(q)
InventarioAbreCrear == En("inventario") /\ AbreNueva
InventarioAbreEditar == En("inventario") /\ AbreFila({"form"})
InventarioAbreBaja == En("inventario") /\ AbreFila({"baja"})
InventarioAbreDesarme == En("inventario") /\ AbreFila({"desarme"})
InventarioCrea == En("inventario") /\ dialogo.sobre = Nadie /\ Formulario("savingVinculo", <<"lista">>)
InventarioEdita == En("inventario") /\ dialogo.sobre # Nadie /\ Formulario("savingEditVinculo", <<"lista">>)
InventarioElimina == En("inventario") /\ Baja("borrar", "deletingVinculo")
InventarioDesarma ==
  En("inventario") /\ Confirma("desarme", [Llamada("guardar", Nadie) EXCEPT
                                             !.luego = <<"lista">>, !.cierra = "desarme"])
\* The manual adjustment; Falla shows an estimate of its own.  The list is that of
\* the products: the movements of the other tab are not read again.
InventarioAjusta ==
  En("inventario") /\ \E i \in Filas : Mostrada(i)
     /\ Presenta(i, [Llamada("guardar", i) EXCEPT !.local = "stock", !.vio = lista.filas[i]])

UsuariosFiltra == En("usuarios") /\ \E q \in Filtros \ {filtro} : Refiltra(q)
UsuariosAbre == En("usuarios") /\ (AbreNueva \/ AbreFila({"form"}))
UsuariosGuarda == En("usuarios") /\ Formulario(Vacio, <<"lista">>)
UsuariosToggle == En("usuarios") /\ \E i \in Filas : Conmuta(i, "voltea", <<>>)

SucursalesAbre == En("sucursales") /\ (AbreNueva \/ AbreFila({"form"}))
SucursalesGuarda == En("sucursales") /\ Formulario(Vacio, <<"lista">>)
SucursalesToggle == En("sucursales") /\ \E i \in Filas : Conmuta(i, "voltea", <<>>)

ProveedoresAbreNuevo == En("proveedores") /\ AbreNueva
ProveedoresAbreEditar == En("proveedores") /\ AbreFila({"form"})
ProveedoresGuarda == En("proveedores") /\ Formulario(Vacio, <<"lista">>)
\* The price list of a supplier: one file, then another one has to be dropped.
ProveedoresAplicaCSV ==
  En("proveedores") /\ \E i \in Filas : Mostrada(i)
     /\ Presenta(i, [Llamada("sub", i) EXCEPT !.flag = "csvLoading", !.local = "reset"])

TransferenciasFiltra == En("transferencias") /\ \E q \in Filtros \ {filtro} : Refiltra(q)
TransferenciasAbre == En("transferencias") /\ (AbreNueva \/ AbreFila({"baja"}))
TransferenciasCrea == En("transferencias") /\ Formulario(Vacio, <<"lista">>)
TransferenciasResuelve == En("transferencias") /\ Baja("estado", Vacio)

StockSucursal == En("stock") /\ \E q \in Filtros \ {filtro} : Refiltra(q)
\* "Todas": no branch, no request, and the copy is dropped.
StockSinSucursal ==
  /\ En("stock") /\ filtro # Nadie /\ CambiaFiltro /\ Libre
  /\ filtro' = Nadie /\ lista' = Nada
  /\ UNCHANGED <<cargando, dialogo, hoja, ocupado, panel, marcas, paso, relojes, vuelo>>
StockAbre == En("stock") /\ AbreFila({"stock"})
StockAjusta ==
  En("stock") /\ Confirma("stock", [Llamada("guardar", Nadie) EXCEPT
                                      !.luego = <<"lista">>, !.cierra = "stock"])

VencimientosFiltra == En("vencimientos") /\ \E q \in Filtros \ {filtro} : Refiltra(q)
VencimientosAbre == En("vencimientos") /\ AbreFila({"baja"})
VencimientosElimina == En("vencimientos") /\ Baja("borrar", "deleting")
-----------------------------------------------------------------------------
(***************************************************************************)
(* ClientesPage: the account of a customer replaces the list, and the      *)
(* customer's form is rendered only with the list.                         *)
(***************************************************************************)
ClientesAbreNuevo == En("clientes") /\ Titular = Nadie /\ AbreNueva
ClientesAbreEditar == En("clientes") /\ Titular = Nadie /\ AbreFila({"form"})
ClientesGuarda == En("clientes") /\ Titular = Nadie /\ Formulario(Vacio, <<"lista">>)
\* "Editar" in the account: the form appears only back in the list.
ClientesEditaDetalle ==
  /\ En("clientes") /\ Titular # Nadie /\ dialogo = Cerrado /\ Gesto
  /\ dialogo' = [tipo |-> "form", sobre |-> Titular] /\ hoja' = gestos + 1
  /\ UNCHANGED <<filtro, lista, cargando, ocupado, panel, marcas, paso, relojes, vuelo>>
ClientesDetalle ==
  En("clientes") /\ Titular = Nadie /\ \E i \in Filas : Clicable(i)
     /\ Pulsa(i, [Llamada("cliente", i) EXCEPT !.luego = <<"movs">>])
\* The tab of debtors shows its rows while they reload.
ClientesDeudor ==
  En("clientes") /\ Titular = Nadie /\ \E i \in Filas : Mostrada(i)
     /\ Pulsa(i, [Llamada("cliente", i) EXCEPT !.luego = <<"movs">>])
ClientesVolver ==
  /\ En("clientes") /\ Titular # Nadie /\ Gesto /\ dialogo.tipo # "pago"
  /\ panel' = [panel EXCEPT !["movs"] = [de |-> Nadie, filas |-> Nadie]]
  /\ UNCHANGED <<filtro, lista, cargando, dialogo, hoja, ocupado, marcas, paso, relojes, vuelo>>
ClientesPagina ==
  En("clientes") /\ Titular # Nadie /\ Pulsa(Titular, Llamada("movs", Titular))
ClientesAbrePago == En("clientes") /\ Titular # Nadie /\ Abre("pago", Nadie)
\* The payment goes to the customer on the screen when it is confirmed.
ClientesPago ==
  /\ En("clientes") /\ Titular # Nadie /\ Gesto /\ dialogo.tipo = "pago"
  /\ "pagoLoading" \notin ocupado
  /\ Manda([Llamada("guardar", Titular) EXCEPT !.flag = "pagoLoading", !.cierra = "pago",
               !.luego = <<"cliente", "movs", "lista">>])
  /\ UNCHANGED <<filtro, lista, cargando, dialogo, hoja, panel, marcas, paso, relojes>>
-----------------------------------------------------------------------------
(***************************************************************************)
(* Purchases, invoices, reports and the dashboard.                         *)
(***************************************************************************)
ComprasFiltra == En("compras") /\ (Refresca \/ \E q \in Filtros \ {filtro} : Refiltra(q))
ComprasEstado == En("compras") /\ \E i \in Filas : Conmuta(i, "estado", <<>>)
ComprasAbre == En("compras") /\ AbreFila({"baja"})
ComprasElimina ==
  En("compras") /\ Confirma("baja", [Llamada("borrar", Nadie) EXCEPT !.flag = "deleting",
                                       !.local = "quita", !.cierra = "baja"])

CompraEstado ==
  En("compra") /\ \E i \in Filas : Clicable(i)
     /\ Pulsa(i, [Llamada("estado", i) EXCEPT !.vale = ~lista.filas[i].activa,
                     !.flag = "savingEstado", !.local = "estado"])

FacturacionFiltra == En("facturacion") /\ (Refresca \/ \E q \in Filtros \ {filtro} : Refiltra(q))
FacturacionAbre ==
  En("facturacion") /\ \E i \in Filas : Mostrada(i) /\ lista.filas[i].activa
                                          /\ i \notin marcas /\ Abre("anular", i)
\* The document of a sale is looked up, then downloaded, shown or printed.
FacturacionDocumento ==
  En("facturacion") /\ \E i \in Filas : Mostrada(i)
     /\ Pulsa(i, [Llamada("comprobante", i) EXCEPT !.luego = <<"pdf">>])
\* Annulled on the server first, then remembered apart from the list.
FacturacionAnula ==
  En("facturacion") /\ Confirma("anular", [Llamada("estado", Nadie) EXCEPT !.vale = FALSE,
                        !.local = "marca", !.luego = <<"lista">>, !.cierra = "anular"])

ReportesFiltra == En("reportes") /\ (RefrescaAparte \/ \E q \in Filtros \ {filtro} : Refiltra(q))

DashboardFiltra == En("dashboard") /\ (RefrescaAparte \/ \E q \in Filtros \ {filtro} : Refiltra(q))

\* The interval of 60 s, created again whenever the period or the branch changes.
DashboardTic ==
  /\ En("dashboard") /\ Manda(Listar)
  /\ UNCHANGED <<pagina, srv, filtro, lista, cargando, dialogo, hoja, panel, marcas, paso,
                 relojes, gestos, fallas, hechas, doble, anuladas, carrera, averia>>
-----------------------------------------------------------------------------
(***************************************************************************)
(* The fiscal form, the assistant and the wizard after registration.       *)
(***************************************************************************)
FiscalGuarda ==
  En("fiscal") /\ ~cargando /\ \E i \in Filas : i = Primera
     /\ Pulsa(i, [Llamada("guardar", i) EXCEPT !.flag = "saving", !.local = "stock"])

AIEnvia == En("ai") /\ Pulsa(Nadie, [Llamada("chat", Nadie) EXCEPT !.flag = "chatLoading"])
AIMetricas ==
  En("ai") /\ Pulsa(Nadie, [Llamada("metricas", Nadie) EXCEPT !.flag = "metricasLoading"])

\* The price check: typing drops the answer on the screen, Enter asks, Escape clears.
ConsultaBusca(q) ==
  /\ En("consulta") /\ CambiaFiltro
  /\ filtro' = q /\ lista' = Nada /\ cargando' = TRUE
  /\ Manda([Listar EXCEPT !.q = q])
  /\ UNCHANGED <<dialogo, hoja, panel, marcas, paso, relojes>>
ConsultaLimpia ==
  /\ En("consulta") /\ CambiaFiltro
  /\ filtro' = Nadie /\ lista' = Nada
  /\ UNCHANGED <<cargando, dialogo, hoja, ocupado, panel, marcas, paso, relojes, vuelo>>

\* The price check of the terminal asks at every key and keeps the answer shown
\* until the next one; one call stands for the look-ups by code and by name.
PrecioAbre == En("precio") /\ Abre("precio", Nadie)
PrecioBusca(q) ==
  /\ En("precio") /\ dialogo.tipo = "precio" /\ CambiaFiltro
  /\ filtro' = q /\ Manda([Listar EXCEPT !.q = q])
  /\ UNCHANGED <<lista, cargando, dialogo, hoja, panel, marcas, paso, relojes>>
\* The query is emptied, with the dialog left open or closed with it.
PrecioLimpia ==
  /\ En("precio") /\ dialogo.tipo = "precio" /\ CambiaFiltro
  /\ filtro' = Nadie /\ lista' = Nada /\ dialogo' \in {dialogo, Cerrado}
  /\ UNCHANGED <<cargando, hoja, ocupado, panel, marcas, paso, relojes, vuelo>>

\* CierreCajaPage: the report of the session, and its arqueo, which no flag
\* guards.  An answered one takes sesionId out of the store, not the report.
CierreActualiza == En("cierre") /\ Primera \notin marcas /\ Refresca
CierreEnvia ==
  En("cierre") /\ Primera \notin marcas
     /\ Pulsa(Primera, [Llamada("estado", Primera) EXCEPT !.vale = FALSE, !.local = "marca"])
\* Its other tab asks for the closings whenever it is shown and for each branch.
HistorialVuelve ==
  /\ En("historial") /\ Gesto /\ cargando' = TRUE /\ Manda(Listar)
  /\ UNCHANGED <<filtro, lista, dialogo, hoja, panel, marcas, paso, relojes>>
HistorialSucursal(q) == En("historial") /\ Refiltra(q)

\* "Siguiente", "Saltear por ahora" and "Anterior"; a saved form shows neither
\* of its buttons.  The button of the last step leaves the page.
OnboardingPasa(d) ==
  /\ En("onboarding") /\ Gesto /\ "saved" \notin ocupado
  /\ \/ d = 1 /\ paso < Pasos - 1 /\ paso' = paso + 1
     \/ d = 0 /\ paso > 0 /\ paso # Fiscal /\ paso' = paso - 1
  /\ ocupado' = {} /\ hoja' = gestos + 1
  /\ UNCHANGED <<filtro, lista, cargando, dialogo, panel, marcas, relojes, vuelo>>

OnboardingGuarda ==
  /\ En("onboarding") /\ paso = Fiscal /\ "saved" \notin ocupado
  /\ Presenta(Nadie, [Llamada("sub", Nadie) EXCEPT !.flag = "loading", !.local = "fiscal"])

\* The saved form starts the timer that advances, mounted or not.
OnboardingGuardado(k) ==
  /\ ~vuelo[k].ida /\ vuelo[k].local = "fiscal"
  /\ vuelo' = RemoveAt(vuelo, k) /\ relojes' = relojes + 1
  /\ ocupado' = IF Montado(vuelo[k]) THEN {"saved"} ELSE ocupado
  /\ UNCHANGED <<pagina, srv, filtro, lista, cargando, dialogo, hoja, panel, marcas, paso,
                 gestos, fallas, hechas, doble, anuladas, carrera, averia>>

\* handleNext of the render of the fiscal step: isLast is FALSE there.
OnboardingAvanza ==
  /\ relojes > 0 /\ paso < Pasos
  /\ relojes' = relojes - 1 /\ paso' = paso + 1
  /\ ocupado' = {} /\ hoja' = MaxGestos + relojes
  /\ UNCHANGED <<pagina, srv, filtro, lista, cargando, dialogo, panel, marcas,
                 vuelo, gestos, fallas, hechas, doble, anuladas, carrera, averia>>
-----------------------------------------------------------------------------
Usuario ==
  \/ Cierra
  \/ ProductosSucursal \/ ProductosAbre \/ ProductosGuarda \/ ProductosToggle \/ ProductosAjusta
  \/ \E F \in {{i} : i \in Filas} \cup {DOMAIN lista.filas} : ProductosElige(F)
  \/ ProductosAbreImportar \/ ProductosImporta
  \/ ProductosAbreBaja \/ ProductosElimina \/ ProductosCierraPanel
  \/ ProductosLotes \/ ProductosCreaLote \/ ProductosBajaLote
  \/ ProductosVariantes \/ ProductosCreaVariante
  \/ PromocionesAbre \/ PromocionesGuarda \/ PromocionesElimina
  \/ CategoriasAbre \/ CategoriasGuarda \/ CategoriasDesactiva \/ CategoriasReactiva
  \/ InventarioSucursal \/ InventarioAbreCrear \/ InventarioAbreEditar
  \/ InventarioAbreBaja \/ InventarioAbreDesarme \/ InventarioCrea \/ InventarioEdita
  \/ InventarioElimina \/ InventarioDesarma \/ InventarioAjusta
  \/ UsuariosFiltra \/ UsuariosAbre \/ UsuariosGuarda \/ UsuariosToggle
  \/ SucursalesAbre \/ SucursalesGuarda \/ SucursalesToggle
  \/ ProveedoresAbreNuevo \/ ProveedoresAbreEditar \/ ProveedoresGuarda \/ ProveedoresAplicaCSV
  \/ TransferenciasFiltra \/ TransferenciasAbre \/ TransferenciasCrea \/ TransferenciasResuelve
  \/ StockSucursal \/ StockSinSucursal \/ StockAbre \/ StockAjusta
  \/ VencimientosFiltra \/ VencimientosAbre \/ VencimientosElimina
  \/ ClientesAbreNuevo \/ ClientesAbreEditar \/ ClientesGuarda \/ ClientesEditaDetalle
  \/ ClientesDetalle \/ ClientesDeudor \/ ClientesVolver \/ ClientesPagina
  \/ ClientesAbrePago \/ ClientesPago
  \/ ComprasFiltra \/ ComprasEstado \/ ComprasAbre \/ ComprasElimina
  \/ CompraEstado
  \/ FacturacionFiltra \/ FacturacionAbre \/ FacturacionAnula \/ FacturacionDocumento
  \/ ReportesFiltra \/ DashboardFiltra \/ FiscalGuarda \/ AIEnvia \/ AIMetricas
  \/ (\E q \in Filtros : ConsultaBusca(q)) \/ ConsultaLimpia
  \/ PrecioAbre \/ PrecioLimpia \/ \E q \in Filtros : PrecioBusca(q)
  \/ CierreActualiza \/ CierreEnvia \/ HistorialVuelve
  \/ (\E q \in Filtros \ {filtro} : HistorialSucursal(q))
  \/ \E d \in {0, 1} : OnboardingPasa(d)
  \/ OnboardingGuarda

Red(k) == Atiende(k) \/ Vuelve(k) \/ OnboardingGuardado(k)

Next ==
  \/ Usuario
  \/ \E k \in 1..Len(vuelo) : Red(k) \/ Falla(k) \/ DeCache(k)
  \/ DashboardTic
  \/ OnboardingAvanza

-----------------------------------------------------------------------------
\* The variables have their types, and a busy flag that is set belongs to a call
\* in flight: no button is left disabled by nobody.
TypeOK ==
  /\ pagina \in Paginas /\ filtro \in Filtros \cup {Nadie}
  /\ lista.de \in Filtros \cup {Nadie} /\ DOMAIN lista.filas \subseteq Filas
  /\ \A i \in DOMAIN lista.filas : lista.filas[i] \in [existe : {TRUE}, activa : BOOLEAN, n : Nat]
  /\ dialogo.sobre \in Filas \cup {Nadie} /\ marcas \subseteq Filas
  /\ Len(vuelo) <= MaxVuelo
  /\ \A f \in ocupado \ {"saved"} : \E k \in 1..Len(vuelo) : vuelo[k].flag = f

Calma == vuelo = <<>>

\* The copy on the screen is what the server holds for the filter on the screen.
Coincide ==
  /\ lista.de = filtro
  /\ \A i \in DOMAIN lista.filas :
       srv[i].existe /\ [lista.filas[i] EXCEPT !.activa = @ /\ i \notin marcas]
                        = [Vista(srv[i], filtro) EXCEPT !.activa = @ /\ i \notin marcas]
  /\ filtro # Nadie => DOMAIN lista.filas = Visibles(srv, filtro)

\* Once no call is in flight, the page shows what the server holds for the filter
\* on the screen, whatever forms, switches, bulk deletions, imports and reloads
\* overlapped, as long as calls did not overtake each other, no handler outlived
\* its filter or its row, and no read failed.  Each save reloads or applies its
\* answer; the ghosts `carrera' and `averia' name the cases where it is not enough.
FielEnCalma ==
  Calma /\ ~carrera /\ ~averia => Coincide

\* A form whose button is disabled while it is in flight has at most one effect on
\* the server, also when the dialog is closed, reopened or outlived by its call;
\* unless an answer was lost and the user tried again.
UnaVez == ~averia => ~doble

\* A sale whose annulment was answered is shown annulled from then on, even when
\* a list requested before the annulment arrives after it (FacturacionPage, B-02).
AnuladaNoRevive ==
  pagina = "facturacion" =>
    \A i \in anuladas : Mostrada(i) => ~lista.filas[i].activa \/ i \in marcas

\* The lots, the variants and the account movements on the screen are those of the
\* product or customer named in the title, once nothing is in flight.
PanelDelTitulo ==
  Calma /\ ~carrera /\ ~averia =>
    \A p \in Paneles : panel[p].de # Nadie => panel[p].filas = panel[p].de

\* A page at rest is faithful: its list, its panels and the sales it knows annulled
\* (every page; FacturacionPage keeps its own marks).
PantallaFiel == TypeOK /\ FielEnCalma /\ PanelDelTitulo /\ AnuladaNoRevive

\* Every `loading' and every busy flag is released again, whatever fails.
SeLibera == []<>(ocupado = {} /\ ~cargando)

\* The dashboard ends up showing the period and branch chosen last, even when an
\* older answer arrived after a newer one: the interval asks again.
TableroSeCura == <>[](pagina = "dashboard" /\ lista.de # Nadie => lista.de = filtro)

\* A page recovers by itself from failures and from answers that crossed.
PaginaSeRecupera == SeLibera /\ TableroSeCura
=============================================================================
