----------------------------- MODULE Servicios -----------------------------
(***************************************************************************)
(* Three services of the back end whose handlers check outside the         *)
(* transaction that writes: cash sessions, credit accounts and transfers.  *)
(* They share no table, so each behaviour exercises one of them.           *)
(***************************************************************************)
EXTENDS Caja, Fiado, Transferencias

VARIABLE servicio   \* the service this behaviour is about

serviciosVars == <<vars, fiadoVars, trasVars, servicio>>

ServiciosInit ==
  /\ servicio \in {"caja", "fiado", "transferencias"}
  /\ Init /\ FiadoInit /\ TrasInit
  \* the other two rest in one state
  /\ servicio # "fiado" =>
       /\ cliente.limite = CHOOSE l \in Limites : TRUE
       /\ admiteFiado = CHOOSE b \in Esquemas : TRUE
  /\ servicio # "transferencias" =>
       /\ traslados[1].items = CHOOSE l \in Surtidos : TRUE
       /\ traslados[1].origen = CHOOSE s \in Sucursales : TRUE

\* Two lists that lock their rows in opposite orders, and one with an article
\* twice, which the form of the panel allows.
Listas ==
  LET una(a) == [art |-> a, n |-> 1]
  IN {<<una(1)>>, <<una(1), una(2)>>, <<una(2), una(1)>>, <<una(1), una(1)>>}

\* The second branch has never had the first article.
CeldaNueva == {<<1, "norte">>}

ServiciosNext ==
  \/ servicio = "caja" /\ Next /\ UNCHANGED <<fiadoVars, trasVars, servicio>>
  \/ servicio = "fiado" /\ FiadoNext /\ UNCHANGED <<vars, trasVars, servicio>>
  \/ servicio = "transferencias" /\ TrasNext /\ UNCHANGED <<vars, fiadoVars, servicio>>

EnTransferencias(A) == servicio = "transferencias" /\ A /\ UNCHANGED <<vars, fiadoVars, servicio>>

\* The server goes on with the requests it has, and their deadlines run.
ServiciosFairness ==
  \A q \in Peticiones :
    /\ WF_serviciosVars(EnTransferencias(Avance(q)))
    /\ WF_serviciosVars(EnTransferencias(Vence(q)))

ServiciosSpec == ServiciosInit /\ [][ServiciosNext]_serviciosVars /\ ServiciosFairness
=============================================================================
