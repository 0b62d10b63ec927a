CONSTANTS
  Nada = Nada
  c1 = c1
  c2 = c2
  t1 = t1
  t2 = t2
  Corridas = {c1, c2}
  Muertas = {c2}
  Corredor <- MCCorredor
  Runtimes = {"claude"}
  RuntimeDe <- MCRuntimeDe
  Capaces = {"claude"}
  Tareas = {t1, t2}
  Humanos = {t1}
  Iniciales = {"DEVELOPING", "VERIFYING"}
  MAX_TURNS = 2
  MAX_PROMPTS = 1
  MAX_ATTEMPTS = 1
  HISTORIA = 3
  MaxCambios = 2
  MaxManos = 1
  MaxMuertes = 2
SPECIFICATION Spec
INVARIANT DenegadoEsAbsoluto
CHECK_DEADLOCK FALSE
PROPERTIES TurnoVeraz TodaCorridaTermina
