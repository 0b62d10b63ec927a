------------------------------ MODULE CrmLedger ------------------------------
(***************************************************************************)
(* What the CRM database promises, with every operation taking effect in   *)
(* one indivisible step: the leads, their active assignment, the meetings  *)
(* and the audit trail, as a reader of committed data sees them.  The      *)
(* module CrmTransactions, where each operation is a sequence of SQL       *)
(* statements under row locks, implements this one.                        *)
(*                                                                         *)
(* Each action is one repository method; its guard is the conjunction of   *)
(* every check the method and its service make, and an operation that is   *)
(* refused does nothing here.                                              *)
(***************************************************************************)
EXTENDS CrmData

VARIABLES
  estado,      \* tpi.leads.estado_lead
  asig,        \* advisors with an asignacion 'activa' on each lead
  cita,        \* tpi.citas
  histEstado,  \* per lead, its state events of tpi.auditoria in commit order
  histCita     \* per cita, its agenda events of tpi.auditoria in commit order

ledger == <<estado, asig, cita, histEstado, histCita>>

TypeOK ==
  /\ estado \in [Leads -> EstadosLead]
  /\ asig \in [Leads -> SUBSET Asesores]
  /\ cita \in [Citas -> Cita \cup {Nada}]
  /\ histEstado \in [Leads -> Seq(EventoEstado)]
  /\ histCita \in [Citas -> Seq(EventoCita)]

(* Leads as the public form leaves them: in state nuevo, without advisor. *)
Init ==
  /\ estado = [l \in Leads |-> "nuevo"]
  /\ asig = [l \in Leads |-> {}]
  /\ cita = [c \in Citas |-> Nada]
  /\ histEstado = [l \in Leads |-> <<>>]
  /\ histCita = [c \in Citas |-> <<>>]

-----------------------------------------------------------------------------
(* Faulty variants of the actions below, each a slip the code could have.   *)
PonerEstadoSiempre(op, u, l, e) ==
  /\ estado' = [estado EXCEPT ![l] = e]
  /\ histEstado' = [histEstado EXCEPT ![l] =
       Append(@, [accion |-> AccionEstado(op), por |-> u, de |-> estado[l], a |-> e])]

(* _update_lead_status_tx and the UPDATE + INSERT of assign_lead: write the *)
(* state and its event.  Writing the state a lead already has is a no-op    *)
(* without event, except for an assignment.                                 *)
PonerEstado(op, u, l, e) ==
  IF op # "asignar" /\ estado[l] = e
  THEN UNCHANGED <<estado, histEstado>>
  ELSE /\ estado' = [estado EXCEPT ![l] = e]
       /\ histEstado' = [histEstado EXCEPT ![l] =
            Append(@, [accion |-> AccionEstado(op), por |-> u, de |-> estado[l], a |-> e])]

(* Faulty: the portfolio is not looked at.                                  *)
CambiarEstadoAjeno(u, l, e) ==
  /\ Autorizado(Rol[u], "estado", e)
  /\ PonerEstado("estado", u, l, e)
  /\ UNCHANGED <<asig, cita, histCita>>

(* update_lead_status *)
CambiarEstado(u, l, e) ==
  /\ Autorizado(Rol[u], "estado", e)
  /\ EnCartera(u, asig[l])
  /\ PonerEstado("estado", u, l, e)
  /\ UNCHANGED <<asig, cita, histCita>>

(* Faulty: a lead that has an advisor gets another one.                     *)
AsignarOtraVez(u, l, a) ==
  /\ Autorizado(Rol[u], "asignar", Nada)
  /\ RolAsesor[a] = "asesor"
  /\ PonerEstado("asignar", u, l, "asignado")
  /\ asig' = [asig EXCEPT ![l] = {a}]
  /\ UNCHANGED <<cita, histCita>>

(* assign_lead *)
Asignar(u, l, a) ==
  /\ Autorizado(Rol[u], "asignar", Nada)
  /\ RolAsesor[a] = "asesor"
  /\ asig[l] = {}
  /\ PonerEstado("asignar", u, l, "asignado")
  /\ asig' = [asig EXCEPT ![l] = {a}]
  /\ UNCHANGED <<cita, histCita>>

(* Faulty: the previous hour of the event is read after the UPDATE.         *)
PonerCitaTarde(op, u, c, fila, horA) ==
  /\ cita' = [cita EXCEPT ![c] = fila]
  /\ histCita' = [histCita EXCEPT ![c] =
       Append(@, [op |-> op, por |-> u, resp |-> fila.resp,
                  de |-> IF cita[c] = Nada THEN Nada ELSE cita[c].est, a |-> fila.est,
                  horDe |-> IF cita[c] = Nada THEN Nada ELSE fila.hor, horA |-> horA])]

(* The meeting row and its event, for every agenda operation. *)
PonerCita(op, u, c, fila, horA) ==
  /\ cita' = [cita EXCEPT ![c] = fila]
  /\ histCita' = [histCita EXCEPT ![c] =
       Append(@, [op |-> op, por |-> u, resp |-> fila.resp,
                  de |-> IF cita[c] = Nada THEN Nada ELSE cita[c].est, a |-> fila.est,
                  horDe |-> IF cita[c] = Nada THEN Nada ELSE cita[c].hor, horA |-> horA])]

(* Faulty: only a meeting that starts at the same hour is a conflict.       *)
SinChoqueDeInicio(c, fila) ==
  \A d \in Citas \ {c} : Chocan(cita[d], fila) => cita[d].hor.ini # fila.hor.ini

(* No other booked meeting of the responsable overlaps the row. *)
SinChoque(c, fila) == \A d \in Citas \ {c} : ~Chocan(cita[d], fila)

(* Faulty: only the meetings of assigned leads are looked at.               *)
LeadAsignadoSinAgendada(l) ==
  asig[l] # {} => \A d \in Citas : ~(Agendada(cita[d]) /\ cita[d].lead = l)

(* The partial unique index of migration 010.                               *)
LeadSinAgendada(l) == \A d \in Citas : ~(Agendada(cita[d]) /\ cita[d].lead = l)

(* create_cita *)
Agendar(u, l, c, r, h) ==
  LET fila == [lead |-> l, resp |-> r, hor |-> h, est |-> "agendada"] IN
  /\ Autorizado(Rol[u], "agendar", Nada)
  /\ EnCartera(u, asig[l])
  /\ ResponsableValido(u, r, asig[l])
  /\ LeadAdmiteAgenda(estado[l])
  /\ cita[c] = Nada
  /\ LeadSinAgendada(l)
  /\ SinChoque(c, fila)
  /\ PonerCita("agendar", u, c, fila, h)
  /\ PonerEstado("agendar", u, l, "reunion_agendada")
  /\ UNCHANGED asig

(* update_cita *)
Reagendar(u, l, c, r, h) ==
  LET fila == [lead |-> l, resp |-> r, hor |-> h, est |-> "agendada"] IN
  /\ Autorizado(Rol[u], "reagendar", Nada)
  /\ Agendada(cita[c]) /\ cita[c].lead = l
  /\ EnCartera(u, asig[l])
  /\ ResponsableValido(u, r, asig[l])
  /\ LeadAdmiteAgenda(estado[l])
  /\ SinChoque(c, fila)
  /\ PonerCita("reagendar", u, c, fila, h)
  /\ PonerEstado("reagendar", u, l, "reunion_agendada")
  /\ UNCHANGED asig

(* Faulty: a meeting that is already closed is closed again.                *)
CerrarOtraVez(op, u, l, c) ==
  /\ Autorizado(Rol[u], op, Nada)
  /\ cita[c] # Nada /\ cita[c].lead = l
  /\ EnCartera(u, asig[l])
  /\ PonerCita(op, u, c, [cita[c] EXCEPT !.est = EstadoCitaTras(op)], Nada)
  /\ PonerEstado(op, u, l, EstadoDestino(op, Nada))
  /\ UNCHANGED asig

(* cancel_cita, complete_cita and no_show_cita *)
Cerrar(op, u, l, c) ==
  /\ Autorizado(Rol[u], op, Nada)
  /\ Agendada(cita[c]) /\ cita[c].lead = l
  /\ EnCartera(u, asig[l])
  /\ PonerCita(op, u, c, [cita[c] EXCEPT !.est = EstadoCitaTras(op)], Nada)
  /\ PonerEstado(op, u, l, EstadoDestino(op, Nada))
  /\ UNCHANGED asig

Next ==
  \E u \in Usuarios, l \in Leads :
    \/ \E e \in Manuales : CambiarEstado(u, l, e)
    \/ \E a \in Asesores : Asignar(u, l, a)
    \/ \E c \in Citas :
         \/ \E r \in Asesores, h \in Horarios : Agendar(u, l, c, r, h) \/ Reagendar(u, l, c, r, h)
         \/ \E op \in OpsCierre : Cerrar(op, u, l, c)

Spec == Init /\ [][Next]_ledger

-----------------------------------------------------------------------------
(***************************************************************************)
(* Properties of the committed data.                                       *)
(***************************************************************************)

(* Docs/AGENDA_REUNIONES_DISENO.md AC-3 and AC-4: a responsable never has   *)
(* two overlapping booked meetings and a lead never has two booked ones.    *)
SinSuperposicion ==
  \A c, d \in Citas : c # d => ~Chocan(cita[c], cita[d])

UnaAgendadaPorLead ==
  \A c, d \in Citas :
    Agendada(cita[c]) /\ Agendada(cita[d]) /\ cita[c].lead = cita[d].lead => c = d

(* The state history of a lead is a chain from nuevo to its current state:  *)
(* no update was lost, none went unaudited, none was audited from a state   *)
(* the lead was not in, and a plain change of state is a real change.       *)
CadenaEstado ==
  \A l \in Leads :
    LET h == histEstado[l] IN
    /\ estado[l] = IF h = <<>> THEN "nuevo" ELSE h[Len(h)].a
    /\ h # <<>> => h[1].de = "nuevo"
    /\ \A i \in 1 .. Len(h) - 1 : h[i + 1].de = h[i].a
    /\ \A i \in 1 .. Len(h) : h[i].accion = "cambio_estado_lead" => h[i].de # h[i].a

(* A lead is assigned at most once, its single active assignment has its    *)
(* audit event, and only an assignment audits the state asignado.           *)
AsignacionUnica ==
  \A l \in Leads :
    LET h == histEstado[l] IN
    /\ \A a, b \in asig[l] : a = b
    /\ asig[l] # {} <=> \E i \in 1 .. Len(h) : h[i].accion = "asignacion_lead"
    /\ \A i, j \in 1 .. Len(h) :
         h[i].accion = "asignacion_lead" /\ h[j].accion = "asignacion_lead" => i = j
    /\ \A i \in 1 .. Len(h) : h[i].a = "asignado" <=> h[i].accion = "asignacion_lead"

(* The agenda history of a meeting is a chain too: born by cita_agendada,   *)
(* moved any number of times with the hours it really had, closed at most   *)
(* once and by its last event.                                              *)
CadenaCita ==
  \A c \in Citas :
    LET h == histCita[c] IN
    /\ h = <<>> <=> cita[c] = Nada
    /\ h # <<>> => /\ h[1].op = "agendar"
                   /\ h[Len(h)].a = cita[c].est
                   /\ h[Len(h)].resp = cita[c].resp
                   /\ (h[Len(h)].horA # Nada => h[Len(h)].horA = cita[c].hor)
    /\ \A i \in 2 .. Len(h) :
         /\ h[i].op # "agendar"
         /\ h[i].de = "agendada" /\ h[i - 1].a = "agendada"
         /\ h[i].horDe = h[i - 1].horA

(* What the histories tell of assignments and meetings is what happened. *)
HistorialFiel == AsignacionUnica /\ CadenaCita

(* Whatever a user with portfolio wrote on a lead or on its meeting, the    *)
(* lead is assigned to that very user.                                      *)
EscriturasEnCartera ==
  /\ \A l \in Leads : \A i \in 1 .. Len(histEstado[l]) :
       EnCartera(histEstado[l][i].por, asig[l])
  /\ \A c \in Citas : \A i \in 1 .. Len(histCita[c]) :
       EnCartera(histCita[c][i].por, asig[cita[c].lead])

(* Whoever is responsable of a meeting attends meetings and, when it is a   *)
(* Coordinador, owns the lead: the responsable can always see the lead.     *)
ResponsablePuedeVer ==
  \A c \in Citas : cita[c] # Nada =>
    /\ Atiende[cita[c].resp]
    /\ RolAsesor[cita[c].resp] = "asesor" => cita[c].resp \in asig[cita[c].lead]

(* Profiles: a Runner never leaves a lead in the states reserved to the     *)
(* Coordinador and the Socios nor books a meeting for a Coordinador, and    *)
(* only a Coordinador or a Socio ever recorded an attendance.               *)
PerfilesRespetados ==
  /\ \A l \in Leads : \A i \in 1 .. Len(histEstado[l]) :
       Rol[histEstado[l][i].por] = "advisor" => histEstado[l][i].a \notin ProhibidosAlRunner
  /\ \A c \in Citas : \A i \in 1 .. Len(histCita[c]) :
       LET ev == histCita[c][i] IN
       /\ ev.a \in {"realizada", "no_asistio"} => PuedeMarcarAsistencia(Rol[ev.por])
       /\ ev.op \in OpsTurno /\ Rol[ev.por] = "advisor" => RolAsesor[ev.resp] = "socio"

(* The authorization rules hold of everything that was ever written, not    *)
(* only of the request they were checked for: whoever wrote was within his  *)
(* portfolio and profile, and no meeting is left with a responsable who     *)
(* could not have been chosen.                                              *)
AutorizacionRespetada == EscriturasEnCartera /\ ResponsablePuedeVer /\ PerfilesRespetados

(* A meeting is never deleted nor moved to another lead, a closed one never *)
(* changes again, and its audit trail only grows: tpi.auditoria is          *)
(* append-only and a closed meeting is not reopened.                        *)
CitaIrreversible ==
  [][\A c \in Citas :
       /\ cita[c] # Nada => cita'[c] # Nada /\ cita'[c].lead = cita[c].lead
       /\ cita[c] # Nada /\ ~Agendada(cita[c]) => cita'[c] = cita[c] /\ histCita'[c] = histCita[c]
    ]_ledger
=============================================================================
