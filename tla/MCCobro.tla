------------------------------- MODULE MCCobro -------------------------------
(* One product by unit, one by weight that the catalogue has no stock of, a  *)
(* promotion, and a customer who owes something.                             *)
EXTENDS Cobro

MCPrecio == [p \in Productos |-> 100]
MCStock == [p \in Productos |-> IF p = "a" THEN 2 ELSE 0]
MCDosPorUno == [prods |-> {"a"}, n |-> 2, tipo |-> "porcentaje", valor |-> 50]
MCListas == {<<MCDosPorUno>>}
MCCredito == [c \in Clientes |-> 50]
==============================================================================
