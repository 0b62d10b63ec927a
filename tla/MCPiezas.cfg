SPECIFICATION SpecPiezas
CONSTANTS
  Ids = {1, 2, 3}
  Responsables = {sofia, cata}
  Inicios <- IniciosSemana
  Duraciones <- DuracionesSemana
  Instantes <- RelojSemana
  SinCita = SinCita
  Procesos = {"ceo", "coordinator"}
  Perfil <- RolesSim
  Formularios <- FormulariosSim
  Causantes <- CausantesSim
  HOY = 24317
  MaxEnvios = 1
  Nulo = Nulo
  Hilos = {h1, h2}
  Tomas = {c1}
  max_requests = 2
  window_seconds = 2
  MaxReloj = 3
  MaxEntradas = 3
  Nadie = Nadie
  Ventanas = {v1, v2}
  Criterios <- CriteriosHumanos
  Contestadas <- ContestadasGates
  MaxId = 3
  MaxBorradores <- BorradoresGates
  v1 = v1
  v2 = v2
  Uso <- UsoGates
  MaxCerradas = 0
  Ninguno = Ninguno
INVARIANTS
  SemanaCorrecta
  SimulacionFiel
  PuertaSegura
  PuertasFieles
SYMMETRY SimetriaPiezas
CHECK_DEADLOCK FALSE
