-------------------------- MODULE MCCrmTransactions --------------------------
(***************************************************************************)
(* Small instances of CrmTransactions.  The people are those of            *)
(* MCCrmLedger.                                                            *)
(***************************************************************************)
EXTENDS CrmTransactions, TLC

CONSTANTS
  ana, coco, ruy,    \* users: Socio, Coordinador, Runner
  sofia, cata, rita, \* advisor rows: socio, asesor who attends, asesor
  l1, l2,            \* leads
  c1, c2, c3         \* meetings

MCUsuarios == {ana, coco, ruy}
MCAsesores == {sofia, cata, rita}
MCRol == ana :> "ceo" @@ coco :> "coordinator" @@ ruy :> "advisor"
MCFicha == ana :> Nada @@ coco :> cata @@ ruy :> rita
MCRolAsesor == sofia :> "socio" @@ cata :> "asesor" @@ rita :> "asesor"
MCAtiende == sofia :> TRUE @@ cata :> TRUE @@ rita :> FALSE

Turno(i, f) == [ini |-> i, fin |-> f]
T1 == Turno(0, 2)
T2 == Turno(1, 3)
T3 == Turno(2, 4)
MCHorarios == {T1, T2, T3}
MCManuales == {"nuevo", "cerrado", "sin_contacto"}

PetAgenda(op, u, l, c, a, h) ==
  [op |-> op, usr |-> u, lead |-> l, cita |-> c, asesor |-> a, hor |-> h, meta |-> Nada]
PetCierre(op, u, l, c) == PetAgenda(op, u, l, c, Nada, Nada)
PetEstado(u, l, e) ==
  [op |-> "estado", usr |-> u, lead |-> l, cita |-> Nada, asesor |-> Nada, hor |-> Nada, meta |-> e]
PetAsignar(u, l, a) ==
  [op |-> "asignar", usr |-> u, lead |-> l, cita |-> Nada, asesor |-> a, hor |-> Nada, meta |-> Nada]

(* One lead that is assigned, moved by hand, booked, moved and closed by    *)
(* a Socio, its Coordinador and a Runner at the same time, while a meeting  *)
(* of another lead competes for the hours of the Socio: moving the two      *)
(* meetings onto each other's hour makes their calls wait in a cycle.       *)
PeticionesCartera ==
  {PetAsignar(ana, l1, cata),
   PetAsignar(ana, l1, rita),
   PetEstado(coco, l1, "cerrado"),
   PetAgenda("agendar", coco, l1, c1, cata, T1),
   PetCierre("realizada", coco, l1, c1),
   PetCierre("no_asistio", ana, l1, c1),
   PetCierre("cancelar", ana, l1, c1),
   PetAgenda("agendar", ruy, l1, c2, sofia, T1),
   PetAgenda("reagendar", ruy, l1, c2, sofia, T3),
   PetAgenda("agendar", ana, l2, c3, sofia, T3),
   PetAgenda("reagendar", ana, l2, c3, sofia, T1)}
=============================================================================
