SPECIFICATION SpecTablero
CONSTANTS
  ana = ana
  coco = coco
  cata = cata
  rita = rita
  Nada = Nada
  Leads = {l1, l2, l3}
  Citas = {}
  Horarios = {}
  Usuarios = {ana, coco}
  Asesores = {cata, rita}
  Rol <- MCRol
  Ficha <- MCFicha
  RolAsesor <- MCRolAsesor
  Atiende <- MCAtiende
  Manuales <- MCManuales
  Origenes = {"web", "referido"}
  Dias <- MCDias
  Hoy = 9
  Cutover = 4
  Historias <- MCHistorias
  Filtros <- MCFiltros
  TamPagina = 2
  EXPORT_MAX_ROWS = 2
  MaxEscrituras = 2
  MaxFallos = 1
INVARIANTS
  TableroCoherente
  MismaPoblacion
  RecorridoCompleto
  ExportacionAuditada
SYMMETRY Simetria
CHECK_DEADLOCK FALSE
