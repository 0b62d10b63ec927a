----------------------------- MODULE MCCrmLedger -----------------------------
(***************************************************************************)
(* A small CRM for TLC: a Socio, a Coordinador who attends meetings, and a *)
(* Runner; two overlapping horarios and one that only touches the first.   *)
(***************************************************************************)
EXTENDS CrmLedger, FiniteSetsExt, TLC

CONSTANTS
  ana, coco, ruy,    \* users: Socio, Coordinador, Runner
  sofia, cata, rita, \* advisor rows: socio, asesor who attends, asesor
  MaxEventos         \* bound on the audit events of a behaviour

MCUsuarios == {ana, coco, ruy}
MCAsesores == {sofia, cata, rita}
MCRol == ana :> "ceo" @@ coco :> "coordinator" @@ ruy :> "advisor"
MCFicha == ana :> Nada @@ coco :> cata @@ ruy :> rita
MCRolAsesor == sofia :> "socio" @@ cata :> "asesor" @@ rita :> "asesor"
MCAtiende == sofia :> TRUE @@ cata :> TRUE @@ rita :> FALSE

Turno(i, f) == [ini |-> i, fin |-> f]
MCHorarios == {Turno(0, 2), Turno(1, 3), Turno(2, 4)}
MCManuales == {"nuevo", "cerrado", "asignado"}

Eventos == MapThenSumSet(LAMBDA l : Len(histEstado[l]), Leads)
           + MapThenSumSet(LAMBDA c : Len(histCita[c]), Citas)

(* The bounded behaviours: no operation starts after MaxEventos events. *)
SpecAcotada == Init /\ [][Eventos < MaxEventos /\ Next]_ledger
=============================================================================
