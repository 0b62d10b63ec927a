SPECIFICATION Spec
CONSTANTS
  Ids = {1, 2}
  Responsables = {sofia}
  Inicios <- IniciosTarde
  Duraciones <- DuracionesSemana
  Instantes <- RelojTarde
  SinCita = SinCita
INVARIANTS
  EnHorarioLaboral
CHECK_DEADLOCK FALSE
