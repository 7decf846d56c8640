------------------------------- MODULE Puesto -------------------------------
(***************************************************************************)
(* The screen of the point of sale around the cart: its cash session and   *)
(* its receipts (Terminal), and the printer in its header (Impresora).     *)
(* They share no state, so each behaviour exercises one of them.           *)
(***************************************************************************)
EXTENDS Terminal, Impresora

VARIABLE parte   \* the part this behaviour is about

puestoVars == <<vars, impresoraVars, parte>>

PuestoInit ==
  /\ parte \in {"terminal", "impresora"}
  /\ Init /\ ImpresoraInit
  \* the other one rests in one state
  /\ parte # "terminal" => ultima = 0
  /\ parte # "impresora" => autorizados = {}

EnTerminal(A) == parte = "terminal" /\ A /\ UNCHANGED <<impresoraVars, parte>>

PuestoNext ==
  \/ parte = "terminal" /\ Next /\ UNCHANGED <<impresoraVars, parte>>
  \/ parte = "impresora" /\ ImpresoraNext /\ UNCHANGED <<vars, parte>>

\* The fairness of Terminal.
PuestoFairness ==
  /\ WF_puestoVars(EnTerminal(RestaurarResponde)) /\ WF_puestoVars(EnTerminal(RevisarCaja))
  /\ WF_puestoVars(EnTerminal(AbrirResponde)) /\ WF_puestoVars(EnTerminal(PollArranca))
  /\ WF_puestoVars(EnTerminal(PollResponde)) /\ WF_puestoVars(EnTerminal(PollSigue))
  /\ \A v \in 1 .. MaxVentas : WF_puestoVars(EnTerminal(RefrescaResponde(v)))

PuestoSpec == PuestoInit /\ [][PuestoNext]_puestoVars /\ PuestoFairness
=============================================================================
