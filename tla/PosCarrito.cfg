\* Four things the cashier does, two handlers in flight, one download.
CONSTANTS
  Unidades = {"a", "b"}
  Pesables = {"w"}
  Pesos = {2}
  Descuentos = {10}
  MaxStock = 2
  MaxTareas = 2
  MaxGestos = 4
  MaxSyncs = 1
  Precio <- MCPrecio
  Listas <- MCListas
  StockInicial <- MCStock
SPECIFICATION Spec
INVARIANTS CarritoCuadra CantidadConStock
PROPERTIES CantidadNoRevive
CHECK_DEADLOCK FALSE
