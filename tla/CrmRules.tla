------------------------------ MODULE CrmRules ------------------------------
(***************************************************************************)
(* Vocabulary and pure business rules of the CRM: the states of a lead and *)
(* of a meeting (cita), the profiles, what each profile may do, and which  *)
(* lead state every operation leaves behind.  Nothing here has state; the  *)
(* abstract ledger and the transaction model both build on it.             *)
(*                                                                         *)
(* Names follow the source (app/models, app/services, app/auth/models.py), *)
(* which is written in Spanish.                                            *)
(***************************************************************************)
EXTENDS Naturals, Sequences

(***************************************************************************)
(* States.                                                                 *)
(***************************************************************************)
EstadosLead ==
  {"nuevo", "asignado", "sin_contacto", "en_seguimiento", "reunion_agendada",
   "reunion_realizada", "ficha_generada", "cerrado", "no_interesado",
   "datos_erroneos", "no_contactado", "perdido"}

EstadosCita == {"agendada", "realizada", "no_asistio", "cancelada"}

(* LEAD_INACTIVO_PARA_AGENDA *)
LeadInactivoParaAgenda ==
  {"cerrado", "perdido", "no_interesado", "datos_erroneos", "no_contactado"}

LeadAdmiteAgenda(e) == e \notin LeadInactivoParaAgenda

(***************************************************************************)
(* A horario is a half-open interval, as tstzrange(fecha_hora,             *)
(* fecha_hora_fin) builds by default; the CHECK of the table makes it      *)
(* non-empty.  Two of them overlap when each starts before the other ends. *)
(***************************************************************************)
EsHorario(h) == h.ini < h.fin

SePisan(h, k) == h.ini < k.fin /\ k.ini < h.fin

(***************************************************************************)
(* Profiles.                                                               *)
(***************************************************************************)
Roles == {"tester", "admin", "advisor", "coordinator", "executive",
          "operations", "readonly", "ceo", "cto"}

EsSuperuser(rol) == rol \in {"ceo", "cto"}

(* Runner and Coordinador write only on leads of their own portfolio. *)
TieneCartera(rol) == rol \in {"advisor", "coordinator"}

PuedeEscribir(rol) ==
  EsSuperuser(rol) \/ rol \in {"tester", "advisor", "coordinator", "operations", "admin"}

PuedeMarcarAsistencia(rol) == rol \in {"coordinator", "ceo", "cto"}

(* _RUNNER_FORBIDDEN_STATUS_STATES *)
ProhibidosAlRunner == {"reunion_realizada", "ficha_generada", "cerrado"}

(***************************************************************************)
(* Operations.  OpsCita act on a meeting that already exists and lock its  *)
(* row first; OpsTurno need a responsable and a horario; OpsCierre end a   *)
(* meeting.                                                                *)
(***************************************************************************)
OpsCierre == {"cancelar", "realizada", "no_asistio"}
OpsCita   == OpsCierre \cup {"reagendar"}
OpsTurno  == {"agendar", "reagendar"}
OpsAgenda == OpsCita \cup {"agendar"}
Ops       == OpsAgenda \cup {"estado", "asignar"}

(* Faulty variant: the states reserved to the Coordinador are offered to    *)
(* the Runner too.                                                          *)
AutorizadoSinReservados(rol, op, meta) ==
  CASE op = "asignar" -> EsSuperuser(rol)
    [] op = "estado"  -> PuedeEscribir(rol) /\ meta \in EstadosLead \ {"asignado"}
    [] op \in {"realizada", "no_asistio"} -> PuedeMarcarAsistencia(rol)
    [] OTHER -> PuedeEscribir(rol)

(* Whether the service lets a profile ask for an operation at all. *)
Autorizado(rol, op, meta) ==
  CASE op = "asignar" -> EsSuperuser(rol)
    [] op = "estado"  -> /\ PuedeEscribir(rol)
                         /\ meta \in EstadosLead \ {"asignado"}
                         /\ ~(rol = "advisor" /\ meta \in ProhibidosAlRunner)
    [] op \in {"realizada", "no_asistio"} -> PuedeMarcarAsistencia(rol)
    [] OTHER -> PuedeEscribir(rol)

(* The state in which each operation leaves the lead. *)
EstadoDestino(op, meta) ==
  CASE op = "estado"     -> meta
    [] op = "asignar"    -> "asignado"
    [] op \in OpsTurno   -> "reunion_agendada"
    [] op = "realizada"  -> "reunion_realizada"
    [] OTHER             -> "en_seguimiento"

(* The state in which each agenda operation leaves the meeting. *)
EstadoCitaTras(op) ==
  CASE op \in OpsTurno  -> "agendada"
    [] op = "cancelar"  -> "cancelada"
    [] op = "realizada" -> "realizada"
    [] OTHER            -> "no_asistio"

(* The accion written in tpi.auditoria for the change of the lead state. *)
AccionEstado(op) == IF op = "asignar" THEN "asignacion_lead" ELSE "cambio_estado_lead"
=============================================================================
