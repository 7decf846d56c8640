SPECIFICATION PanelSpec
CONSTANTS
  Filas = {f1, f2}
  Primera = f1
  Filtros = {q1, q2}
  Completo = q1
  Visitadas = {"productos", "promociones", "categorias", "inventario", "clientes", "proveedores", "usuarios", "sucursales", "transferencias", "stock", "vencimientos", "compras", "compra", "nueva", "facturacion", "reportes", "dashboard", "fiscal", "ai", "onboarding", "consulta", "precio", "cierre", "historial"}
  MaxGestos = 5
  MaxVuelo = 2
  MaxFallas = 1
  Precios = {10}
  Descuentos = {50, 150}
  Impuestos = {0, 105}
  Cantidades = {0, 2}
  MaxRenglones = 2
INVARIANTS  UnaVez CompraCuadra
PROPERTIES PaginaSeRecupera
CHECK_DEADLOCK FALSE
