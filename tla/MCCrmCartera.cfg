SPECIFICATION FairSpec
CONSTANTS
  ana = ana
  coco = coco
  ruy = ruy
  sofia = sofia
  cata = cata
  rita = rita
  l1 = l1
  l2 = l2
  c1 = c1
  c2 = c2
  c3 = c3
  Nada = Nada
  Nadie = Nadie
  Procs = {p1, p2}
  Leads = {l1, l2}
  Citas = {c1, c2, c3}
  Usuarios <- MCUsuarios
  Asesores <- MCAsesores
  Rol <- MCRol
  Ficha <- MCFicha
  RolAsesor <- MCRolAsesor
  Atiende <- MCAtiende
  Horarios <- MCHorarios
  Manuales <- MCManuales
  Peticiones <- PeticionesCartera
  Volubles = {cata}
  MaxEventos = 5
INVARIANTS
  SoloRestriccionesInterbloquean
  LecturasVigentes
PROPERTIES
  ImplementaLedger
  TodaPeticionTermina
CHECK_DEADLOCK FALSE
