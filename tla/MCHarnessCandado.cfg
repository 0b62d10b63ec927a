CONSTANTS
  Nada = Nada
  c1 = c1
  c2 = c2
  t1 = t1
  t2 = t2
  Corridas = {c1, c2}
  Muertas = {}
  Corredor <- MCCorredor
  Runtimes = {"claude"}
  RuntimeDe <- MCRuntimeDe
  Capaces = {"claude"}
  Tareas = {t1}
  Humanos = {}
  Iniciales = {"DEVELOPING"}
  MAX_TURNS = 1
  MAX_PROMPTS = 1
  MAX_ATTEMPTS = 1
  HISTORIA = 3
  MaxCambios = 0
  MaxManos = 0
  MaxMuertes = 0
SPECIFICATION Spec
INVARIANT UnSoloSupervisor
CHECK_DEADLOCK FALSE
