------------------------------ MODULE MCVentas ------------------------------
(* A small catalogue for Ventas: a pack of two cans, the can and a product  *)
(* sold by weight.  The carts open a pack, sell can and pack in the order   *)
(* opposite to that, and mix a weighed line in.                             *)
EXTENDS Ventas, TLC

CONSTANTS r1, r2, pack, lata, fiambre, o1

L(p, c) == [p |-> p, c |-> c]

MCVinculo == lata :> [padre |-> pack, unidades |-> 2]
MCPeso == [p \in Productos |-> IF p = pack THEN 2 ELSE 1]
MCStock0 == [p \in Productos |-> 1]
MCSucursal0 == [p \in Productos |-> 1]
MCCarritos == {<<L(lata, 2)>>, <<L(lata, 1), L(pack, 1)>>, <<L(fiambre, 1), L(lata, 1)>>}
=============================================================================
