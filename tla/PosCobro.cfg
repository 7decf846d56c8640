\* Two things the cashier does to the cart, two handlers in flight, two sales.
CONSTANTS
  Unidades = {"a"}
  Pesables = {"w"}
  Pesos = {1}
  Descuentos = {50}
  Listas <- MCListas
  MaxStock = 2
  MaxTareas = 2
  MaxGestos = 2
  MaxSyncs = 0
  Recibidos = {100}
  Otros = {50, 150}
  Clientes = {"c"}
  MaxVentas = 2
  MaxNumero = 1
  Precio <- MCPrecio
  StockInicial <- MCStock
  Credito <- MCCredito
SPECIFICATION CobroSpec
INVARIANTS VentaCuadra
PROPERTIES NumerosCrecen
CHECK_DEADLOCK FALSE
