---------------------------- MODULE AdminShell -----------------------------
(***************************************************************************)
(* The shell around the pages: the routes (App.tsx, ProtectedRoute), the   *)
(* plan's features (useFeature, FeatureGate), the menu and the branch      *)
(* selector of the panel (AdminLayout), and what login and logout do to    *)
(* the selected branch and to the plan's name.  Several users, perhaps of  *)
(* different tenants, use one tab one after the other.                     *)
(*                                                                         *)
(* Three reads outlive the render that asked for them: the features (a     *)
(* cache of the module, tagged with a tenant), the plan's name and the     *)
(* list of branches.  Their answers arrive in any order, perhaps in the    *)
(* session of somebody else.  Where the network fails or is slow, the      *)
(* service worker (sw.ts) answers them with what it kept for the same URL, *)
(* for whatever tenant.  Tokens are in module AuthSession; here a session  *)
(* is valid until it is closed or expires.                                 *)
(***************************************************************************)
EXTENDS Naturals, FiniteSets

CONSTANTS
  Usuarios,     \* [tenant, rol, suc]; suc is the assigned branch or Todas
  Tenants,
  Sucs,         \* branches of each tenant
  PlanDe,       \* plan of each tenant
  Destinos,     \* routes of the panel this instance goes to
  MaxSesiones,  \* bound: logins
  MaxPasos,     \* bound: clicks
  MaxRecargas,  \* bound: page loads after the first
  MaxFallas     \* bound: reads that the network fails

VARIABLES
  tab,      \* what the tab holds: user, number of the session, route, the route
            \* to return to, cache of features, plan, branch, list of branches,
            \* open dialog, calls in flight
  pasos, recargas, fallas,
  tarde,    \* ghost: an answer was applied after its session had ended
  ajenas,   \* ghost: the reads whose last answer was for another tenant than
            \* the one that asked
  expiro    \* ghost: a session ended without logout

shellVars == <<tab, pasos, recargas, fallas, tarde, ajenas, expiro>>
cuentas == <<pasos, recargas, fallas>>

Nadie == [tenant |-> "", rol |-> "", suc |-> "todas"]
Todas == "todas"
Ninguno == ""

-----------------------------------------------------------------------------
(* Routes, roles and features *)

Roles == {"admin", "supervisor", "cajero", "superadmin"}
Publicas == {"login", "register", "consulta"}

\* Features of the pages that App.tsx wraps in a FeatureGate.
Puertas ==
  [proveedores |-> "proveedores", compras |-> "compras",
   facturacion |-> "facturacion_afip", vencimientos |-> "vencimientos",
   clientes |-> "clientes_management", apariencia |-> "apariencia",
   transferencias |-> "transferencias", stock_sucursal |-> "stock_sucursal",
   ai |-> "ai_assistant"]

RutasPanel ==
  DOMAIN Puertas \cup
  {"dashboard", "productos", "inventario", "categorias", "nueva", "compra", "cierre",
   "guia", "reportes", "fiscal", "usuarios", "sucursales", "superadmin"}

\* The guards that a route of the panel is nested in.
Permite(r, rol) ==
  /\ rol \in {"admin", "supervisor"}
  /\ r \in {"sucursales", "ai"} => rol = "admin"
  /\ r = "superadmin" => rol = "superadmin"

ASSUME AdminShellAssumption ==
  /\ Usuarios \subseteq [tenant : Tenants, rol : Roles, suc : UNION {Sucs[t] : t \in Tenants} \cup {Todas}]
  /\ \A u \in Usuarios : u.suc \in Sucs[u.tenant] \cup {Todas}
  /\ {"", "nulo", "nada"} \cap Tenants = {}
  /\ \A t \in Tenants : IsFiniteSet(Sucs[t]) /\ PlanDe[t] \in {"basico", "profesional", "enterprise"}
  /\ Destinos \subseteq RutasPanel
  /\ {MaxSesiones, MaxPasos, MaxRecargas, MaxFallas} \subseteq Nat

\* Menu items that NAV_ITEMS offers to a role.
Ofrece(r, rol) ==
  /\ r \in RutasPanel \ {"nueva", "compra", "guia"}
  /\ r \notin {"cierre", "superadmin"} => rol \in {"admin", "supervisor"}
  /\ r \in {"ai", "fiscal", "apariencia", "sucursales"} => rol = "admin"
  /\ r = "superadmin" => rol = "superadmin"

\* Features of the plans, those that no page asks for left out.
Profesional ==
  {"transferencias", "stock_sucursal", "vencimientos", "proveedores", "compras",
   "facturacion_afip", "apariencia", "clientes_management"}
Incluye(plan) ==
  CASE plan = "basico" -> {}
    [] plan = "profesional" -> Profesional
    [] plan = "enterprise" -> Profesional \cup {"ai_assistant"}

\* What the cache answers to useFeature for the tenant of the session.
Cargado(t) == t.rasgos.fuente # "nulo" /\ t.rasgos.tag = t.usuario.tenant
Habilita(t, f) ==
  /\ t.usuario # Nadie /\ Cargado(t)
  /\ t.rasgos.fuente \in Tenants /\ f \in Incluye(PlanDe[t.rasgos.fuente])
Abierta(t, r) == r \in DOMAIN Puertas => Habilita(t, Puertas[r])

-----------------------------------------------------------------------------
(* Calls and rendering *)

\* A call goes out with the token of the session; equal calls are told apart.
Pide(t, op) ==
  LET c(n) == [op |-> op, sesion |-> t.sesion, de |-> t.usuario.tenant, n |-> n]
      libre == CHOOSE n \in 0..Cardinality(t.vuelo) : c(n) \notin t.vuelo
  IN [t EXCEPT !.vuelo = @ \cup {c(libre)}]

\* ensureFeatures, called by every render of a gate or of a menu item.
Asegura(t) ==
  LET igual == t.rasgos.tag = t.usuario.tenant IN
  IF igual /\ (t.rasgos.fuente # "nulo" \/ t.rasgos.promesa) THEN t
  ELSE Pide([t EXCEPT !.rasgos = [tag |-> t.usuario.tenant, promesa |-> TRUE,
                                  fuente |-> IF igual THEN @.fuente ELSE "nulo"]],
            "rasgos")

Inicio(rol) == IF rol \in {"admin", "supervisor"} THEN "dashboard" ELSE "pos"

\* Where the router ends up when the tab is sent to r.
Destino(t, r) ==
  LET u == t.usuario
      s == IF u # Nadie /\ r = "login"
           THEN IF t.desde \in {"pos", "login"} THEN Inicio(u.rol) ELSE t.desde
           ELSE r
  IN IF u = Nadie THEN IF r \in Publicas THEN r ELSE "login"
     ELSE IF s \in RutasPanel /\ ~Permite(s, u.rol) THEN "pos" ELSE s

\* The tab renders route r: the guards redirect, the layout asks for the branches
\* when it is mounted, gates and menu make sure of the features, and the terminal
\* selects the assigned branch when it is mounted.
Pinta(t, r) ==
  LET d == Destino(t, r)
      p == d \in RutasPanel
      t1 == [t EXCEPT !.ruta = d,
                      !.desde = IF d # "login" THEN "pos" ELSE IF r # "login" THEN r ELSE @,
                      !.modal = IF p THEN @ ELSE Ninguno,
                      !.sucursal = IF d = "pos" /\ (t.ruta # "pos" \/ r # "pos") /\ t.usuario.suc # Todas
                                   THEN t.usuario.suc ELSE @]
      t2 == IF p THEN Asegura(t1) ELSE t1
  IN IF p /\ t.ruta \notin RutasPanel THEN Pide(t2, "sucursales") ELSE t2

-----------------------------------------------------------------------------
(* Sessions *)

SinMemoria == [tag |-> "", fuente |-> "nulo", promesa |-> FALSE]

ShellInit ==
  /\ tab = [usuario |-> Nadie, sesion |-> 0, ruta |-> "login", desde |-> "pos",
            rasgos |-> SinMemoria, plan |-> Ninguno, sucursal |-> Todas,
            sucursales |-> {}, modal |-> Ninguno, vuelo |-> {}]
  /\ pasos = 0 /\ recargas = 0 /\ fallas = 0
  /\ tarde = FALSE /\ ajenas = {} /\ expiro = FALSE

\* What login and refresh set once the server accepted the user.
ConUsuario(t, u) ==
  Pide([t EXCEPT !.usuario = u, !.sucursal = IF u.suc # Todas THEN u.suc ELSE @], "nombre")

Entrar(u) ==
  /\ tab.ruta = "login" /\ tab.sesion < MaxSesiones
  /\ tab' = Pinta(ConUsuario([tab EXCEPT !.sesion = @ + 1], u), "login")
  /\ UNCHANGED <<cuentas, tarde, ajenas, expiro>>

Sale(t) == [t EXCEPT !.usuario = Nadie]

\* The session expired: a 401 that a refresh could not repair.  The branch and
\* the plan's name stay.
Expirar ==
  /\ tab.usuario # Nadie
  /\ tab' = Pinta(Sale(tab), tab.ruta)
  /\ expiro' = TRUE
  /\ UNCHANGED <<cuentas, tarde, ajenas>>

\* The page is loaded again, at the same route or at one typed in: the memory is
\* gone, the stores come back from localStorage and the session is restored or
\* closed before anything is rendered.
Recargar(r) ==
  /\ recargas < MaxRecargas
  /\ recargas' = recargas + 1
  /\ LET t == [tab EXCEPT !.rasgos = SinMemoria, !.sucursales = {}, !.vuelo = {},
                          !.modal = Ninguno, !.ruta = "",
                          !.desde = IF r = tab.ruta THEN @ ELSE "pos"]
     IN IF tab.usuario = Nadie THEN tab' = Pinta(t, r) /\ UNCHANGED expiro
        ELSE \/ tab' = Pinta(ConUsuario(t, tab.usuario), r) /\ UNCHANGED expiro
             \/ tab' = Pinta([Sale(t) EXCEPT !.plan = Ninguno], r) /\ expiro' = TRUE
  /\ UNCHANGED <<pasos, fallas, tarde, ajenas>>

-----------------------------------------------------------------------------
(* The user *)

Clic ==
  /\ tab.usuario # Nadie /\ tab.modal = Ninguno
  /\ pasos < MaxPasos /\ pasos' = pasos + 1
  /\ UNCHANGED <<recargas, fallas, tarde, ajenas, expiro>>

EnPanel == tab.ruta \in RutasPanel

\* A menu item: its page, or the dialog that offers a larger plan.
MenuPanel(r) ==
  /\ Clic /\ EnPanel /\ Ofrece(r, tab.usuario.rol)
  /\ tab' = IF Abierta(tab, r) THEN Pinta(tab, r) ELSE [tab EXCEPT !.modal = r]

CierraModal ==
  /\ tab.modal # Ninguno
  /\ tab' = [tab EXCEPT !.modal = Ninguno]
  /\ UNCHANGED <<cuentas, tarde, ajenas, expiro>>

VolverAlPos == Clic /\ EnPanel /\ tab' = Pinta(tab, "pos")

\* The buttons of the terminal's header.
DelPosAlPanel(r) ==
  /\ Clic /\ tab.ruta = "pos"
  /\ r = "cierre" \/ (r = "dashboard" /\ tab.usuario.rol \in {"admin", "supervisor"})
  /\ tab' = Pinta(tab, r)

\* The selector of the panel's header, drawn when there are branches.
EligeSucursal(s) ==
  /\ Clic /\ EnPanel /\ s \in tab.sucursales \cup {Todas} /\ tab.sucursales # {}
  /\ tab' = [tab EXCEPT !.sucursal = s]

PideSalir ==
  /\ Clic /\ tab' = Pide(tab, "logout")

-----------------------------------------------------------------------------
(* Answers *)

\* Plausible bug: the branch stays selected.
SalidoConSucursal(t) == [Sale(t) EXCEPT !.plan = Ninguno, !.desde = "pos"]
\* logout, after the server answered or failed to.
Salido(t) == [Sale(t) EXCEPT !.plan = Ninguno, !.desde = "pos", !.sucursal = Todas]

\* Plausible bug: a branch that is not in the list stays selected.
RecibeSucursalesTalCual(t, lista) ==
  [t EXCEPT !.sucursales = lista,
            !.sucursal = IF @ = Todas /\ Cardinality(lista) = 1
                         THEN CHOOSE s \in lista : TRUE ELSE @]
\* fetchSucursales: the only branch is selected, a branch that is not in the list
\* is left.
RecibeSucursales(t, lista) ==
  [t EXCEPT !.sucursales = lista,
            !.sucursal = IF @ \in lista THEN @
                         ELSE IF Cardinality(lista) = 1 THEN CHOOSE s \in lista : TRUE
                         ELSE Todas]

\* Plausible bug: tagged with the tenant of the session that is open.
RecibeRasgosDelActual(t, c, x) ==
  [t EXCEPT !.rasgos = [tag |-> t.usuario.tenant, fuente |-> x, promesa |-> FALSE]]
\* The answer of obtenerPlanActual, tagged with the tenant that asked.
RecibeRasgos(t, c, x) ==
  [t EXCEPT !.rasgos = [tag |-> c.de, fuente |-> x, promesa |-> FALSE]]

\* Call c was answered for tenant x; logout goes on when it failed as well.
Aplica(t, c, x) ==
  CASE c.op = "rasgos"     -> Pinta(RecibeRasgos(t, c, x), t.ruta)
    [] c.op = "nombre"     -> [t EXCEPT !.plan = PlanDe[x]]
    [] c.op = "sucursales" -> RecibeSucursales(t, Sucs[x])
    [] c.op = "logout"     -> Pinta(Salido(t), "login")

\* Call c failed: nothing is included, the plan is the smallest, there are no
\* branches.
Malogra(t, c) ==
  CASE c.op = "rasgos"     -> Pinta(RecibeRasgos(t, c, "nada"), t.ruta)
    [] c.op = "nombre"     -> [t EXCEPT !.plan = "basico"]
    [] c.op = "sucursales" -> [t EXCEPT !.sucursales = {}]

Sin(c) == [tab EXCEPT !.vuelo = @ \ {c}]

\* Call c settled, with an answer for x or none.
Llega(c, x) ==
  /\ tarde' = (tarde \/ tab.usuario = Nadie \/ c.sesion # tab.sesion)
  /\ ajenas' = IF x \in {c.de, "nada"} \/ c.op = "logout" THEN ajenas \ {c.op}
               ELSE ajenas \cup {c.op}
  /\ UNCHANGED <<pasos, recargas, expiro>>

Responde(c) ==
  /\ tab' = Aplica(Sin(c), c, c.de)
  /\ Llega(c, c.de) /\ UNCHANGED fallas

\* The token was refused, the refresh used the token of the session that is open
\* now, and the call was repeated in its name.
Cruza(c) ==
  /\ c.sesion # tab.sesion /\ tab.usuario # Nadie
  /\ tab' = Aplica(Sin(c), c, tab.usuario.tenant)
  /\ Llega(c, tab.usuario.tenant) /\ UNCHANGED fallas

\* The network fails a read.
SinRed(c) == c.op # "logout" /\ fallas < MaxFallas /\ fallas' = fallas + 1

\* It fails, or takes more than five seconds, and the service worker answers with
\* the body it kept for the URL in the last hour.  Logout keeps them, all tabs of
\* the browser share them, and no header tells them apart: x is any tenant.  With a
\* body of its own tenant the read is as good as answered (Responde).
DeCache(c, x) ==
  /\ SinRed(c)
  /\ tab' = Aplica(Sin(c), c, x)
  /\ Llega(c, x)

\* It fails, and there is no such body.
Fracasa(c) ==
  /\ SinRed(c)
  /\ tab' = Malogra(Sin(c), c)
  /\ Llega(c, "nada")

Red == \E c \in tab.vuelo :
         Responde(c) \/ Cruza(c) \/ Fracasa(c) \/ \E x \in Tenants \ {c.de} : DeCache(c, x)

ShellNext ==
  \/ \E u \in Usuarios : Entrar(u)
  \/ Expirar
  \/ \E r \in Destinos \cup {tab.ruta} : Recargar(r)
  \/ \E r \in Destinos : MenuPanel(r) \/ DelPosAlPanel(r)
  \/ CierraModal \/ VolverAlPos \/ PideSalir
  \/ \E t \in Tenants : \E s \in Sucs[t] \cup {Todas} : EligeSucursal(s)
  \/ Red

ShellSpec == ShellInit /\ [][ShellNext]_shellVars

-----------------------------------------------------------------------------
(* Properties *)

EnVuelo(op) == \E c \in tab.vuelo : c.op = op

\* The tab's state has its types, and whoever waits for `fetchPromise' waits for a
\* call that is in flight.
TabTypeOK ==
  /\ tab.usuario \in Usuarios \cup {Nadie}
  /\ tab.ruta \in RutasPanel \cup Publicas \cup {"pos"}
  /\ tab.rasgos.tag \in Tenants \cup {""} /\ tab.rasgos.fuente \in Tenants \cup {"nulo", "nada"}
  /\ tab.plan \in {"basico", "profesional", "enterprise", Ninguno}
  /\ tab.rasgos.promesa => EnVuelo("rasgos")

\* A page behind a gate is shown, and a menu item unlocked, by the features the
\* server gave to the tenant of the session: an answer that arrives in the session
\* of another tenant never opens a gate (useFeature's tag), unless that answer was
\* for another tenant than had asked: the client had repeated the call with the
\* token of a new session, or the service worker had kept the body.
RasgosDelTenant ==
  EnPanel /\ Cargado(tab) /\ "rasgos" \notin ajenas =>
    tab.rasgos.fuente \in {tab.usuario.tenant, "nada"}

\* "useFeature -- checks if a plan feature flag is enabled for the current tenant"
\* (hooks/useFeature.ts:53).  The service worker's cache refutes it: the tag says
\* who asked, not whose answer came.
RasgosDelActual ==
  EnPanel /\ Cargado(tab) => tab.rasgos.fuente \in {tab.usuario.tenant, "nada"}

\* A gate that shows its spinner has a call for its tenant in flight, whatever
\* answers of other sessions took the cache and the promise away: every answer that
\* leaves the cache with another tag makes the panel ask again (useFeature).
EsperaConLlamada ==
  EnPanel /\ ~Cargado(tab) =>
    \E c \in tab.vuelo : c.op = "rasgos" /\ c.de = tab.usuario.tenant

\* The gates: they open by the plan of the tenant, and while they do not know it
\* somebody is asking (useFeature, FeatureGate).
RasgosFieles == TabTypeOK /\ RasgosDelTenant /\ EsperaConLlamada

\* Every page that the menu offers to the user, unlocked, is one that the guards
\* of its route let the user see (NAV_ITEMS against App.tsx).
MenuLleva ==
  EnPanel => \A r \in RutasPanel :
    Ofrece(r, tab.usuario.rol) /\ Abierta(tab, r) => Destino(tab, r) = r

\* In the panel, once the list of branches is there, it is the tenant's and the
\* branch selected is one of it: one left by a session that expired is dropped
\* (fetchSucursales); unless the answer of an earlier session came late, or the
\* list is one that the service worker had kept for another tenant.
SucursalDeLaLista ==
  EnPanel /\ ~EnVuelo("sucursales") /\ tab.sucursales # {} /\ ~tarde /\ "sucursales" \notin ajenas =>
    /\ tab.sucursales \subseteq Sucs[tab.usuario.tenant]
    /\ tab.sucursal \in tab.sucursales \cup {Todas}

\* A session starts with no branch of another tenant selected, as long as the one
\* before ended with a logout and none of its answers comes late, whatever branch
\* had been chosen, stored and restored by a reload.
SesionSinSucursalAjena ==
  [][tab'.sesion # tab.sesion /\ ~expiro /\ ~tarde =>
       tab'.sucursal \in Sucs[tab'.usuario.tenant] \cup {Todas}]_shellVars

\* On every screen the branch sent with each request is of the tenant of the
\* session, as long as sessions end with a logout and no answer comes late
\* (useAuthStore.logout: "Clear sucursal selection to prevent multi-tenant data
\* leak").  The list of branches is not cleared with the selection, and the next
\* user chooses from it until the new list arrives.
SucursalPropia ==
  tab.usuario # Nadie /\ ~expiro /\ ~tarde =>
    tab.sucursal \in Sucs[tab.usuario.tenant] \cup {Todas}

\* Once its name was answered, the plan on the badge is the tenant's, or the
\* smallest when the read failed, also after a session that expired and left the
\* name of its own plan; unless the answer of an earlier session came late, or the
\* name is one that the service worker had kept for another tenant.
PlanPropio ==
  tab.usuario # Nadie /\ ~EnVuelo("nombre") /\ ~tarde /\ "nombre" \notin ajenas =>
    tab.plan \in {PlanDe[tab.usuario.tenant], "basico"}

\* The panel is the user's: its menu leads where it says, its plan and its branches
\* are those of the tenant (AdminLayout, App.tsx, useSucursalStore, useAuthStore).
PanelDelUsuario == MenuLleva /\ SucursalDeLaLista /\ PlanPropio
=============================================================================
