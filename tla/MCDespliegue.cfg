SPECIFICATION Spec
CONSTANTS
  Nada = Nada
  Promotores = {"base", "candidata"}
  MaxCorridas = 2
  MaxAjenos = 1
  MaxSaltos = 1
  MaxImprevistos = 1
  VISIBILIDAD = 1
  OBSERVACIONES = 2
  NoHay = NoHay
  Adjuntos = {a1}
  MaxOrdenes = 3
  MaxRecreaciones = 1
  PLAN_RETRIES = 2
  Nadie = Nadie
  Coordinadores = {"k1", "k2"}
  Sembrados = {"s1", "s2"}
  Terminales = {"t1", "t2"}
  MaxComandos = 3
INVARIANTS
  EntornoAprobado
  DatosCoherentes
PROPERTIES
  SinPisar
  VerdeVeraz
  InfraSegura
  SecretoSinPerdidas
CHECK_DEADLOCK FALSE
