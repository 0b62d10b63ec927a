SPECIFICATION SpecAcotada
CONSTANTS
  ana = ana
  coco = coco
  ruy = ruy
  sofia = sofia
  cata = cata
  rita = rita
  Nada = Nada
  Leads = {l1, l2}
  Citas = {c1, c2}
  Usuarios <- MCUsuarios
  Asesores <- MCAsesores
  Rol <- MCRol
  Ficha <- MCFicha
  RolAsesor <- MCRolAsesor
  Atiende <- MCAtiende
  Horarios <- MCHorarios
  Manuales <- MCManuales
  MaxEventos = 6
INVARIANTS
  SinSuperposicion
  UnaAgendadaPorLead
  CadenaEstado
  HistorialFiel
  AutorizacionRespetada
PROPERTIES
  CitaIrreversible
CHECK_DEADLOCK FALSE
