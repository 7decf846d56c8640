----------------------------- MODULE Impresora -----------------------------
(***************************************************************************)
(* The thermal printer of the point of sale: the one ThermalPrinterService *)
(* of the page, the badge of PosHeader that connects and disconnects it,   *)
(* the effect that reconnects it when the header is mounted, and the       *)
(* button of PrinterSettingsModal that opens the cash drawer.              *)
(*                                                                         *)
(* The service keeps a port, a writer and `isConnected'; the browser keeps *)
(* the state of every serial port and refuses to open one that is not      *)
(* closed and to close one that is not open.  Handlers interleave at the   *)
(* awaits of the Web Serial calls.  What is printed, the options of the    *)
(* ticket and a device that is unplugged (a port whose writes fail) are    *)
(* left out.  Nothing at this commit calls printAll.                       *)
(***************************************************************************)
EXTENDS FiniteSets

CONSTANTS
  Puertos,   \* serial ports of the machine
  Tareas,    \* bound: handlers in flight
  Ninguno    \* null

ASSUME ImpresoraAssumption ==
  IsFiniteSet(Puertos) /\ IsFiniteSet(Tareas) /\ Ninguno \notin Puertos

VARIABLES
  puertos,      \* the browser's state of each port
  autorizados,  \* what getPorts answers
  guardado,     \* lastPortInfo of localStorage
  port, writer, isConnected,   \* the service
  encabezado,   \* PosHeader is mounted
  insignia,     \* printerConnected of PosHeader
  tarea         \* handlers in flight: which, where, on which port, for this header

servicioImp == <<port, writer, isConnected>>
impresoraVars == <<puertos, autorizados, guardado, servicioImp, encabezado, insignia, tarea>>

Libre == [op |-> "no", pc |-> "no", p |-> Ninguno, vivo |-> FALSE]

\* localStorage and the permissions of the browser outlive the page.
ImpresoraInit ==
  /\ puertos = [p \in Puertos |-> "cerrado"]
  /\ autorizados \in SUBSET Puertos
  /\ guardado \in autorizados \cup {Ninguno}
  /\ port = Ninguno /\ writer = Ninguno /\ isConnected = FALSE
  /\ encabezado = FALSE /\ insignia = FALSE
  /\ tarea = [t \in Tareas |-> Libre]

-----------------------------------------------------------------------------
(* Parts of the handlers *)

\* The browser's chooser, which is modal, is open.
Eligiendo == \E t \in Tareas : tarea[t].pc = "elige"

Empieza(t, op, pc, p) == tarea' = [tarea EXCEPT ![t] = [op |-> op, pc |-> pc, p |-> p, vivo |-> TRUE]]

\* A handler ends.  Those of the badge set it if their header is still there.
Acaba(t, ok) ==
  /\ tarea' = [tarea EXCEPT ![t] = Libre]
  /\ insignia' = IF tarea[t].vivo /\ tarea[t].op # "cajon" THEN ok ELSE insignia

\* The catch of openPort forgets whichever port the service held.
Olvida == port' = Ninguno /\ writer' = Ninguno /\ isConnected' = FALSE

\* openPort, up to the await of port.open.
AbrePuerto(t, p) ==
  IF puertos[p] = "cerrado"
  THEN /\ puertos' = [puertos EXCEPT ![p] = "abriendo"]
       /\ tarea' = [tarea EXCEPT ![t].pc = "abre", ![t].p = p]
       /\ UNCHANGED <<servicioImp, insignia>>
  ELSE Olvida /\ Acaba(t, FALSE) /\ UNCHANGED puertos

\* autoConnectIfPossible: the port of the last time, otherwise the only one.
Candidatos ==
  IF guardado \in autorizados THEN {guardado}
  ELSE IF Cardinality(autorizados) = 1 THEN autorizados ELSE {}

\* A plausible bug: isConnected is cleared with the port, not in `finally'.
DesconectadaSinFinally(cerro) ==
  /\ port' = IF cerro THEN Ninguno ELSE port
  /\ isConnected' = IF cerro THEN FALSE ELSE isConnected

\* What ends a disconnection: the port is dropped if it could be closed, and the
\* service is disconnected either way.
Desconectada(cerro) ==
  /\ port' = IF cerro THEN Ninguno ELSE port
  /\ isConnected' = FALSE

\* The button of the drawer is disabled while its test waits.
Probando == \E t \in Tareas : tarea[t].op = "cajon" /\ tarea[t].vivo

-----------------------------------------------------------------------------
(* The header, its badge and the settings *)

\* The header appears and its effect reconnects.
Monta(t) ==
  /\ ~encabezado /\ tarea[t] = Libre
  /\ encabezado' = TRUE /\ insignia' = isConnected
  /\ IF isConnected /\ writer # Ninguno THEN UNCHANGED tarea
     ELSE Empieza(t, "monta", "lista", Ninguno)
  /\ UNCHANGED <<puertos, autorizados, guardado, servicioImp>>

\* The cashier leaves the point of sale; the service and its handlers stay.
Desmonta ==
  /\ encabezado /\ ~Eligiendo
  /\ encabezado' = FALSE
  /\ tarea' = [t \in Tareas |-> [tarea[t] EXCEPT !.vivo = FALSE]]
  /\ UNCHANGED <<puertos, autorizados, guardado, servicioImp, insignia>>

\* handlePrinterToggle without connection on the badge: the user is asked for a port.
Conecta(t) ==
  /\ encabezado /\ ~Eligiendo /\ ~insignia /\ tarea[t] = Libre
  /\ Empieza(t, "boton", "elige", Ninguno)
  /\ UNCHANGED <<puertos, autorizados, guardado, servicioImp, encabezado, insignia>>

\* handlePrinterToggle with it: disconnect releases the writer and closes the port.
Desconecta(t) ==
  /\ encabezado /\ ~Eligiendo /\ insignia /\ tarea[t] = Libre
  /\ writer' = Ninguno
  /\ IF port # Ninguno /\ puertos[port] = "abierto"
     THEN /\ puertos' = [puertos EXCEPT ![port] = "cerrando"]
          /\ Empieza(t, "boton", "cierra", port)
          /\ UNCHANGED <<port, isConnected, insignia>>
     ELSE /\ Desconectada(port = Ninguno)
          /\ insignia' = FALSE
          /\ UNCHANGED <<puertos, tarea>>
  /\ UNCHANGED <<autorizados, guardado, encabezado>>

\* openCashDrawer reconnects first when there is no connection; a write changes
\* nothing here.
PruebaCajon(t) ==
  /\ encabezado /\ ~Eligiendo /\ tarea[t] = Libre
  /\ ~Probando
  /\ ~(isConnected /\ writer # Ninguno)
  /\ Empieza(t, "cajon", "lista", Ninguno)
  /\ UNCHANGED <<puertos, autorizados, guardado, servicioImp, encabezado, insignia>>

-----------------------------------------------------------------------------
(* Answers of the browser *)

\* getPorts answers autoConnectIfPossible.
ListaPuertos(t) ==
  /\ tarea[t].pc = "lista"
  /\ \/ Candidatos = {} /\ Acaba(t, FALSE) /\ UNCHANGED <<puertos, servicioImp>>
     \/ \E p \in Candidatos : AbrePuerto(t, p)
  /\ UNCHANGED <<autorizados, guardado, encabezado>>

\* requestPort: the user chooses a port or closes the dialog.
EligePuerto(t, p) ==
  /\ tarea[t].pc = "elige"
  /\ autorizados' = autorizados \cup {p}
  /\ AbrePuerto(t, p)
  /\ UNCHANGED <<guardado, encabezado>>
CancelaEleccion(t) ==
  /\ tarea[t].pc = "elige"
  /\ isConnected' = FALSE
  /\ Acaba(t, FALSE)
  /\ UNCHANGED <<puertos, autorizados, guardado, port, writer, encabezado>>

\* port.open succeeds or fails; connect stores which device it was.
Abierto(t) ==
  LET p == tarea[t].p IN
  /\ tarea[t].pc = "abre"
  /\ puertos' = [puertos EXCEPT ![p] = "abierto"]
  /\ port' = p /\ writer' = p /\ isConnected' = TRUE
  /\ guardado' = IF tarea[t].op = "boton" THEN p ELSE guardado
  /\ Acaba(t, TRUE)
  /\ UNCHANGED <<autorizados, encabezado>>
NoAbre(t) ==
  /\ tarea[t].pc = "abre"
  /\ puertos' = [puertos EXCEPT ![tarea[t].p] = "cerrado"]
  /\ Olvida /\ Acaba(t, FALSE)
  /\ UNCHANGED <<autorizados, guardado, encabezado>>

\* port.close ends, with an error if the device went away.
Cerrado(t) ==
  /\ tarea[t].pc = "cierra"
  /\ puertos' = [puertos EXCEPT ![tarea[t].p] = "cerrado"]
  /\ \E cerro \in BOOLEAN : Desconectada(cerro)
  /\ Acaba(t, FALSE)
  /\ UNCHANGED <<autorizados, guardado, writer, encabezado>>

\* Reloading the page closes its ports.
RecargaPagina ==
  /\ puertos' = [p \in Puertos |-> "cerrado"]
  /\ Olvida
  /\ encabezado' = FALSE /\ insignia' = FALSE
  /\ tarea' = [t \in Tareas |-> Libre]
  /\ UNCHANGED <<autorizados, guardado>>

ImpresoraNext ==
  \/ \E t \in Tareas :
       \/ Monta(t) \/ Conecta(t) \/ Desconecta(t) \/ PruebaCajon(t)
       \/ ListaPuertos(t) \/ (\E p \in Puertos : EligePuerto(t, p)) \/ CancelaEleccion(t)
       \/ Abierto(t) \/ NoAbre(t) \/ Cerrado(t)
  \/ Desmonta \/ RecargaPagina

-----------------------------------------------------------------------------
(* Properties *)

ImpresoraTypeOK ==
  /\ puertos \in [Puertos -> {"cerrado", "abriendo", "abierto", "cerrando"}]
  /\ autorizados \subseteq Puertos /\ {guardado, port, writer} \subseteq Puertos \cup {Ninguno}
  /\ {isConnected, encabezado, insignia} \subseteq BOOLEAN
  /\ \A t \in Tareas : tarea[t].pc \in {"no", "lista", "elige", "abre", "cierra"}

\* A service that says it is connected has a writer, on the port it would close, and
\* the browser holds that port open; whatever the mount effect, the badge and the
\* drawer button open and close across each other's awaits, except while a
\* disconnection waits for its port.
ConectadaEscribe ==
  /\ ImpresoraTypeOK
  /\ isConnected /\ (\A t \in Tareas : tarea[t].pc # "cierra") =>
       writer # Ninguno /\ port = writer /\ puertos[writer] = "abierto"

\* With nothing in flight, an open port is the one the service can write to and
\* close ("Cierra el puerto serie activo", ThermalPrinterService.ts).
PuertoEnMano ==
  (\A t \in Tareas : tarea[t] = Libre) =>
    \A p \in Puertos : puertos[p] = "abierto" => port = p /\ isConnected
=============================================================================
