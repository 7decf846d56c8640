SPECIFICATION ServiciosSpec
CONSTANTS
  Requests = {r1, r2}
  Puntos = {1, 2}
  Iniciales = {2000}
  Montos = {200}
  Declaraciones = {2000, 2100, 2101, 2200}
  Tipos = {"abrir", "ingreso_manual", "egreso_manual", "venta", "anulacion", "arqueo"}
  MaxSesiones = 2
  MaxRequests = 4
  Operadores = {o1, o2}
  Importes = {1, 2}
  Limites = {0, 2, 3}
  Esquemas = {TRUE, FALSE}
  MaxOperaciones = 4
  Peticiones = {q1, q2}
  Articulos = {1, 2}
  Sucursales = {"centro", "norte"}
  Ausentes <- CeldaNueva
  Existencia = 1
  Surtidos <- Listas
  Deltas = {1}
  Conexiones = 2
  MaxPeticiones = 3
INVARIANTS
  UnaAbiertaPorPunto
  ClasificacionFiel
  CuentaCuadra
  TrasladosCuadran
  SolaAvanza
PROPERTIES
  CerradaNoReabre
  TodaPeticionTermina
CHECK_DEADLOCK FALSE
