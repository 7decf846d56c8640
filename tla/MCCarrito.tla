------------------------------ MODULE MCCarrito ------------------------------
(* Two products by unit, one by weight; a combo and a promotion by quantity. *)
EXTENDS Carrito

MCPrecio == [p \in Productos |-> IF p = "a" THEN 200 ELSE 100]
MCStock == [p \in Productos |-> IF p = "w" THEN 1 ELSE 2]
MCCombo == [prods |-> {"a", "b"}, n |-> 1, tipo |-> "monto_fijo", valor |-> 60]
MCDosPorUno == [prods |-> {"a"}, n |-> 2, tipo |-> "porcentaje", valor |-> 50]
MCListas == {<<MCCombo>>, <<MCDosPorUno>>}
==============================================================================
