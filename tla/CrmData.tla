------------------------------- MODULE CrmData -------------------------------
(***************************************************************************)
(* The population of the CRM database and the shape of its rows.  The      *)
(* tables tpi.leads, tpi.asignaciones, tpi.citas and tpi.auditoria are     *)
(* state of the modules that extend this one; tpi.asesores and the users   *)
(* of the login secret are constants, except for estado_disponibilidad.    *)
(***************************************************************************)
EXTENDS CrmRules

CONSTANTS
  Leads,      \* primary keys of tpi.leads
  Citas,      \* primary keys tpi.citas may ever use
  Asesores,   \* primary keys of tpi.asesores
  Usuarios,   \* authenticated subjects
  Horarios,   \* intervals a meeting may be booked for
  Rol,        \* profile of each user
  Ficha,      \* advisor row bound to each user (advisor_id), or Nada
  RolAsesor,  \* tpi.asesores.rol: "asesor" or "socio"
  Atiende,    \* tpi.asesores.atiende_reuniones
  Manuales,   \* lead states the callers of update_lead_status ask for
  Nada        \* SQL NULL, Python None

ASSUME DatosAssumption ==
  /\ Rol \in [Usuarios -> Roles]
  /\ Ficha \in [Usuarios -> Asesores \cup {Nada}]
  /\ RolAsesor \in [Asesores -> {"asesor", "socio"}]
  /\ Atiende \in [Asesores -> BOOLEAN]
  /\ Horarios \subseteq [ini : Nat, fin : Nat]
  /\ \A h \in Horarios : EsHorario(h)
  /\ Manuales \subseteq EstadosLead
  /\ Nada \notin Leads \cup Citas \cup Asesores \cup Usuarios \cup Horarios

(***************************************************************************)
(* Rows.  A cita that was never inserted is Nada.                          *)
(***************************************************************************)
Cita == [lead : Leads, resp : Asesores, hor : Horarios, est : EstadosCita]

(* NULL is not a row, nor one of the states of a meeting. *)
ASSUME NadaAssumption == Nada \notin Cita /\ Nada \notin EstadosCita

(* cambio_estado_lead and asignacion_lead events, as the views 007 and 008  *)
(* expose them: actor, previous and new state.                              *)
EventoEstado ==
  [accion : {"cambio_estado_lead", "asignacion_lead"}, por : Usuarios,
   de : EstadosLead, a : EstadosLead]

(* The five events of the agenda, as the view 011 exposes them.             *)
EventoCita ==
  [op : OpsAgenda, por : Usuarios, resp : Asesores,
   de : EstadosCita \cup {Nada}, a : EstadosCita,
   horDe : Horarios \cup {Nada}, horA : Horarios \cup {Nada}]

Agendada(r) == r # Nada /\ r.est = "agendada"

(* The exclusion constraint of migration 010 between two rows.              *)
Chocan(r, s) ==
  /\ Agendada(r) /\ Agendada(s)
  /\ r.resp = s.resp
  /\ SePisan(r.hor, s.hor)

(***************************************************************************)
(* Ownership: "asignados" are the advisors with an active assignment on    *)
(* the lead.  A profile without portfolio is never restricted.             *)
(***************************************************************************)
EnCartera(u, asignados) == TieneCartera(Rol[u]) => Ficha[u] \in asignados

(* Faulty variant: a Coordinador is accepted for leads of others.           *)
ResponsableDeCualquiera(u, r, asignados) ==
  Atiende[r] /\ (Rol[u] = "advisor" => RolAsesor[r] = "socio")

(* Who may be the responsable of a meeting (assumption J of the design). *)
ResponsableValido(u, r, asignados) ==
  /\ Atiende[r]
  /\ Rol[u] = "advisor" => RolAsesor[r] = "socio"
  /\ RolAsesor[r] = "asesor" => r \in asignados
=============================================================================
