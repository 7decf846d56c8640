SPECIFICATION FairSpec
CONSTANTS
  v1 = v1
  w1 = w1
  a1 = a1
  Ventas = {v1}
  Workers = {w1}
  Admins = {a1}
  Contextos = {TRUE, FALSE}
  MaxRetries = 2
  RetryBatch = 1
  MaxAdmin = 1
  MaxPdf = 1
  MaxCaidas = 1
  MaxFallas = 1
  MaxLlamadas = 14
  MaxCAEs = 1
INVARIANTS FilasFieles PendienteTieneTurno IntentosAcotados
PROPERTIES PendienteSeResuelve
CHECK_DEADLOCK FALSE
