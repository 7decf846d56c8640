SPECIFICATION FairSpec
CONSTANTS
  v1 = v1
  w1 = w1
  a1 = a1
  Ventas = {v1}
  Workers = {w1}
  Admins = {a1}
  Contextos = {FALSE}
  MaxRetries = 2
  RetryBatch = 1
  MaxAdmin = 0
  MaxPdf = 0
  MaxCaidas = 0
  MaxFallas = 0
  MaxLlamadas = 10
  MaxCAEs = 2
PROPERTIES PendienteAlCiclo
CHECK_DEADLOCK FALSE
