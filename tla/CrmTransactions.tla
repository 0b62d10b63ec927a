--------------------------- MODULE CrmTransactions ---------------------------
(***************************************************************************)
(* The CRM writers as they really run: concurrent calls, each one a few    *)
(* reads in their own short transactions followed by one READ COMMITTED    *)
(* write transaction that takes row locks (SELECT ... FOR UPDATE), writes  *)
(* rows the constraints of tpi.citas are checked against, and commits or   *)
(* rolls back.  What the others can see changes only at Commit.            *)
(*                                                                         *)
(* The committed tables have the names they have in CrmLedger, which this  *)
(* module implements.                                                      *)
(***************************************************************************)
EXTENDS CrmData

CONSTANTS
  Procs,       \* concurrent calls: web handlers, threads of the API, scripts
  Nadie,       \* the holder of a free row lock
  Peticiones,  \* requests the callers may make
  Volubles,    \* advisors whose availability an administrator may switch
  MaxEventos   \* bound: no request starts once the audit has that many events

Peticion ==
  [op : Ops, usr : Usuarios, lead : Leads, cita : Citas \cup {Nada},
   asesor : Asesores \cup {Nada}, hor : Horarios \cup {Nada}, meta : EstadosLead \cup {Nada}]

(* Every request names what its operation needs: the form would not be      *)
(* sent otherwise.  For agendar, cita is the id gen_random_uuid will give.  *)
Completa(r) ==
  /\ r.op \in OpsAgenda => r.cita \in Citas
  /\ r.op \in OpsTurno => r.asesor \in Asesores /\ r.hor \in Horarios
  /\ r.op = "asignar" => r.asesor \in Asesores
  /\ r.op = "estado" => r.meta \in Manuales

ASSUME PeticionesAssumption ==
  /\ Nadie \notin Procs
  /\ Volubles \subseteq Asesores
  /\ Peticiones \subseteq Peticion
  /\ \A r \in Peticiones : Completa(r)
  /\ MaxEventos \in Nat

Pasos == {"libre", "alcance", "previo", "responsable", "pideCita", "pideLead",
          "conLead", "escrito", "listo"}

VARIABLES
  estado, asig, cita, histEstado, histCita,  \* committed rows, as in CrmLedger
  activo,    \* tpi.asesores.estado_disponibilidad = 'activo'
  pc,        \* the statement each call runs next
  pet,       \* the request each call serves
  vista,     \* the tpi.citas row _lock_cita returned to each call
  ant,       \* estado_anterior, the state _lock_lead returned to each call
  leadLock,  \* holder of the FOR UPDATE lock on each lead row
  citaLock   \* holder of the FOR UPDATE lock on each cita row

ledger == <<estado, asig, cita, histEstado, histCita>>
locks == <<leadLock, citaLock>>
vars == <<ledger, activo, pc, pet, vista, ant, locks>>

L == INSTANCE CrmLedger WITH
       estado <- estado, asig <- asig, cita <- cita,
       histEstado <- histEstado, histCita <- histCita

TypeOK ==
  /\ L!TypeOK
  /\ activo \in [Asesores -> BOOLEAN]
  /\ pc \in [Procs -> Pasos]
  /\ pet \in [Procs -> Peticiones \cup {Nada}]
  /\ \A p \in Procs : pc[p] # "libre" => pet[p] \in Peticiones
  /\ vista \in [Procs -> Cita \cup {Nada}]
  /\ ant \in [Procs -> EstadosLead \cup {Nada}]
  /\ leadLock \in [Leads -> Procs \cup {Nadie}]
  /\ citaLock \in [Citas -> Procs \cup {Nadie}]

Init ==
  /\ L!Init
  /\ activo = [a \in Asesores |-> TRUE]
  /\ pc = [p \in Procs |-> "libre"]
  /\ pet = [p \in Procs |-> Nada]
  /\ vista = [p \in Procs |-> Nada]
  /\ ant = [p \in Procs |-> Nada]
  /\ leadLock = [l \in Leads |-> Nadie]
  /\ citaLock = [c \in Citas |-> Nadie]

-----------------------------------------------------------------------------
(* Faulty: cancel_cita locks the lead before the meeting.                   *)
SigueLeadPrimero(op, paso) ==
  CASE paso = "libre"       -> IF op = "asignar" THEN "pideLead" ELSE "alcance"
    [] paso = "alcance"     -> IF op = "estado" THEN "pideLead" ELSE "previo"
    [] paso = "previo"      -> IF op \in OpsTurno THEN "responsable"
                               ELSE IF op = "cancelar" THEN "pideLead" ELSE "pideCita"
    [] paso = "responsable" -> IF op = "agendar" THEN "pideLead" ELSE "pideCita"
    [] paso = "pideCita"    -> IF op = "cancelar" THEN "conLead" ELSE "pideLead"
    [] paso = "pideLead"    -> IF op = "cancelar" THEN "pideCita" ELSE "conLead"
    [] paso = "conLead"     -> IF op \in OpsTurno THEN "escrito" ELSE "listo"
    [] OTHER                -> "listo"

(***************************************************************************)
(* The order of the statements of each operation.                          *)
(***************************************************************************)
Sigue(op, paso) ==
  CASE paso = "libre"       -> IF op = "asignar" THEN "pideLead" ELSE "alcance"
    [] paso = "alcance"     -> IF op = "estado" THEN "pideLead" ELSE "previo"
    [] paso = "previo"      -> IF op \in OpsTurno THEN "responsable" ELSE "pideCita"
    [] paso = "responsable" -> IF op = "agendar" THEN "pideLead" ELSE "pideCita"
    [] paso = "pideCita"    -> "pideLead"
    [] paso = "pideLead"    -> "conLead"
    [] paso = "conLead"     -> IF op \in OpsTurno THEN "escrito" ELSE "listo"
    [] OTHER                -> "listo"

Avanza(p) == pc' = [pc EXCEPT ![p] = Sigue(pet[p].op, pc[p])]

(* Faulty: an ended call keeps the lock of its meeting, as a connection that *)
(* goes back to its owner without rollback.                                 *)
TerminarSinSoltar(p) ==
  /\ pc' = [pc EXCEPT ![p] = "libre"]
  /\ pet' = [pet EXCEPT ![p] = Nada]
  /\ vista' = [vista EXCEPT ![p] = Nada]
  /\ ant' = [ant EXCEPT ![p] = Nada]
  /\ leadLock' = [l \in Leads |-> IF leadLock[l] = p THEN Nadie ELSE leadLock[l]]
  /\ UNCHANGED citaLock

(* The end of a call: the transaction, if any, is over and gives back every *)
(* row lock it holds (get_db_connection rolls back on any exception).       *)
Terminar(p) ==
  /\ pc' = [pc EXCEPT ![p] = "libre"]
  /\ pet' = [pet EXCEPT ![p] = Nada]
  /\ vista' = [vista EXCEPT ![p] = Nada]
  /\ ant' = [ant EXCEPT ![p] = Nada]
  /\ leadLock' = [l \in Leads |-> IF leadLock[l] = p THEN Nadie ELSE leadLock[l]]
  /\ citaLock' = [c \in Citas |-> IF citaLock[c] = p THEN Nadie ELSE citaLock[c]]

Abortar(p) == Terminar(p) /\ UNCHANGED <<ledger, activo>>

(* A read of the service: it goes on when what it read allows it and        *)
(* answers an error otherwise.                                              *)
Leer(p, seguir) ==
  IF seguir
  THEN Avanza(p) /\ UNCHANGED <<ledger, activo, pet, vista, ant, locks>>
  ELSE Abortar(p)

-----------------------------------------------------------------------------
(***************************************************************************)
(* The service, before the write transaction.                              *)
(***************************************************************************)
Eventos(l, c) == Len(histEstado[l]) + Len(histCita[c])

HayCupo == \A l \in Leads, c \in Citas : Eventos(l, c) < MaxEventos

(* A call comes in with a request its profile may make.  A meeting to act   *)
(* on is one the caller saw; the id of a new one is in nobody else's hands. *)
Pedir(p, r) ==
  /\ pc[p] = "libre"
  /\ HayCupo
  /\ Autorizado(Rol[r.usr], r.op, r.meta)
  /\ r.op \in OpsCita => cita[r.cita] # Nada /\ cita[r.cita].lead = r.lead
  /\ r.op = "agendar" => /\ cita[r.cita] = Nada
                         /\ \A q \in Procs : pc[q] # "libre" => pet[q].cita # r.cita
  /\ pet' = [pet EXCEPT ![p] = r]
  /\ pc' = [pc EXCEPT ![p] = Sigue(r.op, "libre")]
  /\ UNCHANGED <<ledger, activo, vista, ant, locks>>

(* resolve_advisor_identity: advisor_id is bound to an active 'asesor'.     *)
Identificado(u) ==
  TieneCartera(Rol[u]) =>
    Ficha[u] \in Asesores /\ RolAsesor[Ficha[u]] = "asesor" /\ activo[Ficha[u]]

(* _mutation_scope and _advisor_mutation_scope *)
ResolverAlcance(p) ==
  /\ pc[p] = "alcance"
  /\ Leer(p, Identificado(pet[p].usr))

(* _require_lead_scope, and _require_cita, which resolves the profile again *)
ExigirCartera(p) ==
  /\ pc[p] = "previo"
  /\ Leer(p, /\ pet[p].op \in OpsCita => Identificado(pet[p].usr)
             /\ EnCartera(pet[p].usr, asig[pet[p].lead]))

(* _resolve_responsable *)
ResolverResponsable(p) ==
  /\ pc[p] = "responsable"
  /\ Leer(p, /\ activo[pet[p].asesor]
             /\ ResponsableValido(pet[p].usr, pet[p].asesor, asig[pet[p].lead]))

-----------------------------------------------------------------------------
(***************************************************************************)
(* The write transaction.                                                  *)
(***************************************************************************)

(* _lock_cita: waits for the row, reads it, and goes on only if booked.     *)
BloquearCita(p) ==
  LET c == pet[p].cita IN
  /\ pc[p] = "pideCita"
  /\ citaLock[c] = Nadie
  /\ IF Agendada(cita[c])
     THEN /\ citaLock' = [citaLock EXCEPT ![c] = p]
          /\ vista' = [vista EXCEPT ![p] = cita[c]]
          /\ Avanza(p)
          /\ UNCHANGED <<ledger, activo, pet, ant, leadLock>>
     ELSE Abortar(p)

(* Faulty: SELECT without FOR UPDATE.                                       *)
LeerLeadSinBloqueo(p) ==
  /\ pc[p] = "pideLead"
  /\ ant' = [ant EXCEPT ![p] = estado[pet[p].lead]]
  /\ Avanza(p)
  /\ UNCHANGED <<ledger, activo, pet, vista, locks>>

(* _lock_lead, and the same SELECT in _update_lead_status_tx and assign_lead *)
BloquearLead(p) ==
  LET l == pet[p].lead IN
  /\ pc[p] = "pideLead"
  /\ leadLock[l] = Nadie
  /\ leadLock' = [leadLock EXCEPT ![l] = p]
  /\ ant' = [ant EXCEPT ![p] = estado[l]]
  /\ Avanza(p)
  /\ UNCHANGED <<ledger, activo, pet, vista, citaLock>>

(* Faulty: the state of the lead is not looked at again under the lock.     *)
PuedeEscribirSinEstado(p) ==
  LET r == pet[p] IN
  IF r.op = "asignar"
  THEN RolAsesor[r.asesor] = "asesor" /\ activo[r.asesor] /\ asig[r.lead] = {}
  ELSE EnCartera(r.usr, asig[r.lead])

(* What each operation checks under the lead lock before it writes.         *)
PuedeEscribirFila(p) ==
  LET r == pet[p] IN
  IF r.op = "asignar"
  THEN /\ RolAsesor[r.asesor] = "asesor" /\ activo[r.asesor]
       /\ asig[r.lead] = {}
  ELSE /\ EnCartera(r.usr, asig[r.lead])
       /\ r.op \in OpsTurno => LeadAdmiteAgenda(ant[p])

Escribir(p) ==
  /\ pc[p] = "conLead"
  /\ Leer(p, PuedeEscribirFila(p))

(* The tpi.citas row an agenda operation writes.                            *)
Fila(p) ==
  LET r == pet[p] IN
  IF r.op \in OpsTurno
  THEN [lead |-> r.lead, resp |-> r.asesor, hor |-> r.hor, est |-> "agendada"]
  ELSE [cita[r.cita] EXCEPT !.est = EstadoCitaTras(r.op)]

(* The exclusion constraint, and the partial unique index on id_lead.       *)
Incompatibles(r, s) ==
  \/ Chocan(r, s)
  \/ Agendada(r) /\ Agendada(s) /\ r.lead = s.lead

EnVuelo(q) == pc[q] \in {"escrito", "listo"} /\ pet[q].op \in OpsAgenda

(* The constraint check looks at every version of a row that may turn out   *)
(* to be the live one: it waits for whoever is writing it to finish...      *)
Bloqueantes(p) ==
  {q \in Procs \ {p} : EnVuelo(q) /\ \/ Incompatibles(cita[pet[q].cita], Fila(p))
                                     \/ Incompatibles(Fila(q), Fila(p))}

(* ... and fails at once on a row that nobody is writing.                   *)
Violada(p) ==
  \E d \in Citas \ {pet[p].cita} :
    /\ Incompatibles(cita[d], Fila(p))
    /\ \A q \in Procs \ {p} : EnVuelo(q) => pet[q].cita # d

(* Faulty: the check sees committed rows only, as a SELECT before the INSERT *)
(* would.                                                                   *)
VerificarSoloConfirmadas(p) ==
  /\ pc[p] = "escrito"
  /\ \/ Violada(p) /\ Abortar(p)
     \/ ~Violada(p) /\ Leer(p, TRUE)

VerificarRestricciones(p) ==
  /\ pc[p] = "escrito"
  /\ \/ Violada(p) /\ Abortar(p)
     \/ ~Violada(p) /\ Bloqueantes(p) = {} /\ Leer(p, TRUE)

(* _update_lead_status_tx and the last statements of assign_lead: nothing   *)
(* is written when the lead was read in the state it has to take.           *)
EscribirEstado(r, previo) ==
  LET destino == EstadoDestino(r.op, r.meta) IN
  IF r.op # "asignar" /\ previo = destino
  THEN UNCHANGED <<estado, histEstado>>
  ELSE /\ estado' = [estado EXCEPT ![r.lead] = destino]
       /\ histEstado' = [histEstado EXCEPT ![r.lead] = Append(@,
            [accion |-> AccionEstado(r.op), por |-> r.usr, de |-> previo, a |-> destino])]

(* The row of tpi.citas and _insert_cita_audit, which describes the         *)
(* previous meeting by what _lock_cita returned.                            *)
EscribirCita(p) ==
  LET r == pet[p]
      f == Fila(p)
      v == vista[p] IN
  /\ cita' = [cita EXCEPT ![r.cita] = f]
  /\ histCita' = [histCita EXCEPT ![r.cita] = Append(@,
       [op |-> r.op, por |-> r.usr,
        resp |-> IF r.op \in OpsTurno THEN r.asesor ELSE v.resp,
        de |-> IF v = Nada THEN Nada ELSE v.est, a |-> f.est,
        horDe |-> IF v = Nada THEN Nada ELSE v.hor,
        horA |-> IF r.op \in OpsTurno THEN r.hor ELSE Nada])]

(* conn.commit(): every row of the transaction becomes visible at once.     *)
Commit(p) ==
  LET r == pet[p] IN
  /\ pc[p] = "listo"
  /\ EscribirEstado(r, ant[p])
  /\ IF r.op \in OpsAgenda THEN EscribirCita(p) ELSE UNCHANGED <<cita, histCita>>
  /\ IF r.op = "asignar"
     THEN asig' = [asig EXCEPT ![r.lead] = @ \cup {r.asesor}]
     ELSE UNCHANGED asig
  /\ Terminar(p)
  /\ UNCHANGED activo

-----------------------------------------------------------------------------
(***************************************************************************)
(* Waiting, deadlock and failure.                                          *)
(***************************************************************************)

(* The calls whose end p is waiting for.                                    *)
EsperaA(p) ==
  CASE pc[p] = "pideCita" -> {citaLock[pet[p].cita]} \ {Nadie}
    [] pc[p] = "pideLead" -> {leadLock[pet[p].lead]} \ {Nadie}
    [] pc[p] = "escrito"  -> Bloqueantes(p)
    [] OTHER              -> {}

(* p waits, through others, for itself: it is in every set that holds those *)
(* it waits for and, with each member, those the member waits for.          *)
EnCiclo(p) ==
  \A S \in SUBSET Procs :
    (EsperaA(p) \subseteq S /\ \A q \in S : EsperaA(q) \subseteq S) => p \in S

(* Postgres aborts one transaction of the cycle (DeadlockDetected).         *)
DetectarInterbloqueo(p) == EnCiclo(p) /\ Abortar(p)

(* The connection is lost, a statement fails or the process dies: at any    *)
(* point before the commit, without any effect.                             *)
Caida(p) == pc[p] # "libre" /\ Abortar(p)

(* estado_disponibilidad is switched outside the application.               *)
CambiarDisponibilidad(a) ==
  /\ a \in Volubles
  /\ activo' = [activo EXCEPT ![a] = ~@]
  /\ UNCHANGED <<ledger, pc, pet, vista, ant, locks>>

Paso(p) ==
  \/ ResolverAlcance(p)
  \/ ExigirCartera(p)
  \/ ResolverResponsable(p)
  \/ BloquearCita(p)
  \/ BloquearLead(p)
  \/ Escribir(p)
  \/ VerificarRestricciones(p)
  \/ Commit(p)

Next ==
  \/ \E p \in Procs :
       \/ \E r \in Peticiones : Pedir(p, r)
       \/ Paso(p)
       \/ DetectarInterbloqueo(p)
       \/ Caida(p)
  \/ \E a \in Asesores : CambiarDisponibilidad(a)

Spec == Init /\ [][Next]_vars

(* Nobody has to make a request and nothing has to fail.  A statement that  *)
(* waits for nobody runs.  Postgres serves row locks from a queue, and a    *)
(* constraint check waits for the very transactions it met: a call that     *)
(* could be served again and again is served, hence strong fairness there.  *)
(* The deadlock detector runs.                                              *)
Fairness ==
  /\ \A p \in Procs :
       /\ WF_vars(ResolverAlcance(p) \/ ExigirCartera(p) \/ ResolverResponsable(p))
       /\ WF_vars(Escribir(p) \/ Commit(p))
       /\ SF_vars(BloquearCita(p))
       /\ SF_vars(BloquearLead(p))
       /\ SF_vars(VerificarRestricciones(p))
  /\ WF_vars(\E p \in Procs : DetectarInterbloqueo(p))

FairSpec == Spec /\ Fairness

-----------------------------------------------------------------------------
(***************************************************************************)
(* Properties.                                                             *)
(***************************************************************************)

EnTransaccion(p) == pc[p] \in {"conLead", "escrito", "listo"}

(* A row lock is held exactly by the transaction that went past the         *)
(* statement that takes it and has not ended: none is leaked by an error    *)
(* path, and no two transactions write the same lead or meeting.            *)
CandadosCoherentes ==
  /\ \A l \in Leads, p \in Procs :
       leadLock[l] = p <=> EnTransaccion(p) /\ pet[p].lead = l
  /\ \A c \in Citas, p \in Procs :
       citaLock[c] = p <=> /\ EnTransaccion(p) \/ pc[p] = "pideLead"
                           /\ pet[p].op \in OpsCita
                           /\ pet[p].cita = c

(* What a transaction read under its locks is still what is committed when  *)
(* it writes: the state of the lead and the row of the meeting.             *)
LecturasVigentes ==
  \A p \in Procs :
    /\ EnTransaccion(p) => ant[p] = estado[pet[p].lead]
    /\ vista[p] # Nada => vista[p] = cita[pet[p].cita] /\ Agendada(vista[p])

(* Every transaction locks the meeting before the lead, so that row locks   *)
(* alone never deadlock: every cycle goes through constraint checks only.   *)
SoloRestriccionesInterbloquean ==
  \A p \in Procs : EnCiclo(p) => pc[p] = "escrito"

(* The concurrent transactions together do what the ledger promises.        *)
ImplementaLedger == L!Spec

(* Every call ends: nobody waits forever for a row lock, for a constraint   *)
(* check or for a transaction that waits for it.                            *)
TodaPeticionTermina == \A p \in Procs : (pc[p] # "libre") ~> (pc[p] = "libre")
=============================================================================
