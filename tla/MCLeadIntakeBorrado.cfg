SPECIFICATION Spec
CONSTANTS
  k1 = k1
  k2 = k2
  h1 = h1
  h2 = h2
  r1 = r1
  p1 = p1
  p2 = p2
  Nada = Nada
  Procs = {p1, p2}
  Claves = {k1, k2}
  Huellas = {h1, h2}
  Ruts = {r1}
  RutDe <- MCRutDe
  Leads = {l1, l2}
  MaxVigencias = 0
  Peticiones <- PeticionesUnaClave
  Borrables = {l1}
INVARIANTS
  RepeticionDevuelveResultado
CHECK_DEADLOCK FALSE
