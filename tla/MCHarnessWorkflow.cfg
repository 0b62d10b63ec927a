CONSTANTS
  Nada = Nada
  t1 = t1
  t2 = t2
  t3 = t3
  h1 = h1
  h2 = h2
  m1 = m1
  m2 = m2
  x1 = x1
  x2 = x2
  Tareas = {t1, t2, t3}
  Cabezas = {h1, h2}
  Fusiones = {m1, m2}
  Sesiones = {x1, x2}
  Ficha <- MCFicha
  Arbol <- MCArbol
  MaxRework = 1
  MaxArtefacto = 1
  Builds = 1
  Backlogs <- MCBacklogs
  MaxDecisiones = 1
SPECIFICATION Spec
INVARIANTS EntregaSegura LimitesDelCiclo Coherencia
PROPERTY CadaCambioRegistrado
CHECK_DEADLOCK FALSE
SYMMETRY Simetria
