SPECIFICATION Spec
CONSTANTS
  l1 = l1
  r1 = r1
  socio = socio
  coord = coord
  a1 = a1
  a2 = a2
  w1 = w1
  w2 = w2
  h1 = h1
  Nada = Nada
  Leads = {l1}
  Asesores = {r1}
  Usuarios = {socio, coord}
  Rol <- MCRol
  Ficha <- MCFicha
  Adjuntos = {a1, a2}
  Archivos <- MCArchivos
  PermiteIncrustados = TRUE
  MaxArchivos = 2
  Lazos = {w1, w2}
  Hilos = {h1}
SYMMETRY Simetria
INVARIANTS MarcaConObjeto SinHuerfanos AuditoriaVeraz
CHECK_DEADLOCK FALSE
