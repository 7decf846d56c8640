\* Two sales, two cash sessions, two polls; two serial ports, two handlers at once.
CONSTANTS
  MaxVentas = 2
  MaxSesiones = 2
  MaxPolls = 2
  Puertos = {p1, p2}
  Tareas = {t1, t2}
  Ninguno = Ninguno
SPECIFICATION PuestoSpec
INVARIANTS ConectadaEscribe
PROPERTIES CajaResuelta SondeoTermina
CHECK_DEADLOCK FALSE
