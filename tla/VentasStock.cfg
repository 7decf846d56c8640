SPECIFICATION FairSpec
CONSTANTS
  r1 = r1  r2 = r2
  pack = pack  lata = lata  fiambre = fiambre  o1 = o1 
  Requests = {r1, r2}
  Productos = {pack, lata, fiambre}
  Stock0 <- MCStock0
  Sucursal0 <- MCSucursal0
  Vinculo <- MCVinculo
  Peso <- MCPeso
  PorPeso = {fiambre}
  Carritos <- MCCarritos
  OfflineIds = {o1}
  SinId = SinId
  Nadie = Nadie
  Tipos = {"online", "sync", "anular", "desarme"}
  MaxRequests = 3
INVARIANTS
  OfflineUnico
  ExistenciasCuadran
PROPERTIES
  OnlineNoSobrevende
  TodaRequestTermina
CHECK_DEADLOCK FALSE
