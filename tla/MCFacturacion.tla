---------------------------- MODULE MCFacturacion ----------------------------
(* Instances of Facturacion. *)
EXTENDS Facturacion
CONSTANTS v1, w1, a1
=============================================================================
