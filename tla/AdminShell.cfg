SPECIFICATION ShellSpec
CONSTANTS
  Tenants <- MCTenants
  Sucs <- MCSucs
  PlanDe <- MCPlanDe
  Usuarios <- MCUsuarios
  Destinos = {"dashboard", "compras", "cierre"}
  MaxSesiones = 2
  MaxPasos = 2
  MaxRecargas = 1
  MaxFallas = 1
INVARIANTS RasgosFieles PanelDelUsuario
PROPERTY SesionSinSucursalAjena
CHECK_DEADLOCK FALSE
