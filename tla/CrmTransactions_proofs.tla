----------------------- MODULE CrmTransactions_proofs -----------------------
(***************************************************************************)
(* Theorems about the concurrent transactions, for any population, any     *)
(* number of calls and any requests: types, row locks, the reads made      *)
(* under them, and that they implement the ledger (CrmLedger).             *)
(***************************************************************************)
EXTENDS CrmTransactions, TLAPS

USE PeticionesAssumption

(***************************************************************************)
(* The ledger's vocabulary is this module's.                               *)
(***************************************************************************)
TablasOK ==
  /\ estado \in [Leads -> EstadosLead]
  /\ asig \in [Leads -> SUBSET Asesores]
  /\ cita \in [Citas -> Cita \cup {Nada}]
  /\ histEstado \in [Leads -> Seq(EventoEstado)]
  /\ histCita \in [Citas -> Seq(EventoCita)]

LEMMA MismoVocabulario ==
  /\ L!EstadosLead = EstadosLead
  /\ L!EstadosCita = EstadosCita
  /\ L!OpsCierre = OpsCierre /\ L!OpsCita = OpsCita /\ L!OpsTurno = OpsTurno
  /\ L!OpsAgenda = OpsAgenda
  /\ L!Cita = Cita /\ L!EventoEstado = EventoEstado /\ L!EventoCita = EventoCita
BY DEF EstadosLead, EstadosCita, OpsCierre, OpsCita, OpsTurno, OpsAgenda, Cita,
       EventoEstado, EventoCita, L!EstadosLead, L!EstadosCita, L!OpsCierre, L!OpsCita,
       L!OpsTurno, L!OpsAgenda, L!Cita, L!EventoEstado, L!EventoCita

LEMMA MismosTipos == L!TypeOK <=> TablasOK
BY MismoVocabulario DEF L!TypeOK, TablasOK

LEMMA TiposDeTablas == TypeOK => TablasOK
BY MismosTipos DEF TypeOK

(***************************************************************************)
(* The route of each operation, one line per statement.                    *)
(***************************************************************************)
LEMMA SigueValores ==
  ASSUME NEW op \in Ops
  PROVE  /\ Sigue(op, "libre") = IF op = "asignar" THEN "pideLead" ELSE "alcance"
         /\ Sigue(op, "alcance") = IF op = "estado" THEN "pideLead" ELSE "previo"
         /\ Sigue(op, "previo") = IF op \in OpsTurno THEN "responsable" ELSE "pideCita"
         /\ Sigue(op, "responsable") = IF op = "agendar" THEN "pideLead" ELSE "pideCita"
         /\ Sigue(op, "pideCita") = "pideLead"
         /\ Sigue(op, "pideLead") = "conLead"
         /\ Sigue(op, "conLead") = IF op \in OpsTurno THEN "escrito" ELSE "listo"
         /\ Sigue(op, "escrito") = "listo"
BY DEF Sigue

LEMMA SigueTipo ==
  ASSUME NEW op \in Ops, NEW paso \in Pasos
  PROVE  Sigue(op, paso) \in Pasos \ {"libre"}
BY DEF Sigue, Pasos

(* The operations, as sets of names.                                        *)
LEMMA Operaciones ==
  /\ OpsCita = {"cancelar", "realizada", "no_asistio", "reagendar"}
  /\ OpsTurno = {"agendar", "reagendar"}
  /\ OpsAgenda = {"cancelar", "realizada", "no_asistio", "reagendar", "agendar"}
  /\ Ops = {"cancelar", "realizada", "no_asistio", "reagendar", "agendar", "estado", "asignar"}
BY DEF OpsCita, OpsCierre, OpsTurno, OpsAgenda, Ops

LEMMA PetTipo ==
  ASSUME TypeOK, NEW p \in Procs, pc[p] # "libre"
  PROVE  /\ pet[p] \in Peticiones
         /\ pet[p].op \in Ops /\ pet[p].usr \in Usuarios /\ pet[p].lead \in Leads
         /\ pet[p].op \in OpsAgenda => pet[p].cita \in Citas
         /\ pet[p].op \in OpsTurno => pet[p].asesor \in Asesores /\ pet[p].hor \in Horarios
         /\ pet[p].op = "asignar" => pet[p].asesor \in Asesores
         /\ pet[p].op = "estado" => pet[p].meta \in Manuales
<1>1. pet[p] \in Peticiones /\ pet[p] \in Peticion /\ Completa(pet[p])
  BY DEF TypeOK
<1> QED
  BY <1>1 DEF Peticion, Completa

(* What an action that ends a call does to the calls.                       *)
LEMMA TerminarEfecto ==
  ASSUME TypeOK, NEW p \in Procs, Terminar(p)
  PROVE  /\ pc' \in [Procs -> Pasos] /\ pc'[p] = "libre"
         /\ pet' \in [Procs -> Peticiones \cup {Nada}]
         /\ vista' \in [Procs -> Cita \cup {Nada}] /\ vista'[p] = Nada
         /\ ant' \in [Procs -> EstadosLead \cup {Nada}]
         /\ leadLock' \in [Leads -> Procs \cup {Nadie}]
         /\ citaLock' \in [Citas -> Procs \cup {Nadie}]
         /\ \A q \in Procs \ {p} : /\ pc'[q] = pc[q] /\ pet'[q] = pet[q]
                                   /\ vista'[q] = vista[q] /\ ant'[q] = ant[q]
         /\ \A l \in Leads : leadLock'[l] = IF leadLock[l] = p THEN Nadie ELSE leadLock[l]
         /\ \A c \in Citas : citaLock'[c] = IF citaLock[c] = p THEN Nadie ELSE citaLock[c]
<1>1. "libre" \in Pasos
  BY DEF Pasos
<1> QED
  BY <1>1 DEF TypeOK, Terminar

(* ... and what one that goes on to the next statement does.                *)
LEMMA AvanzaEfecto ==
  ASSUME TypeOK, NEW p \in Procs, pc[p] # "libre", Avanza(p)
  PROVE  /\ pc' \in [Procs -> Pasos]
         /\ pc'[p] = Sigue(pet[p].op, pc[p]) /\ pc'[p] # "libre"
         /\ \A q \in Procs \ {p} : pc'[q] = pc[q]
<1>1. pet[p].op \in Ops
  BY PetTipo
<1>2. Sigue(pet[p].op, pc[p]) \in Pasos \ {"libre"}
  BY <1>1, SigueTipo DEF TypeOK
<1> QED
  BY <1>2 DEF TypeOK, Avanza

(***************************************************************************)
(* Every step, as one of seven effects.                                    *)
(***************************************************************************)
Lectura(p) ==
  /\ pc[p] \in {"alcance", "previo", "responsable", "conLead", "escrito"}
  /\ pc[p] = "responsable" =>
       ResponsableValido(pet[p].usr, pet[p].asesor, asig[pet[p].lead])
  /\ pc[p] = "conLead" => PuedeEscribirFila(p)
  /\ pc[p] = "escrito" => ~Violada(p) /\ Bloqueantes(p) = {}
  /\ Avanza(p)
  /\ UNCHANGED <<ledger, activo, pet, vista, ant, locks>>

TomaCita(p) ==
  /\ pc[p] = "pideCita"
  /\ citaLock[pet[p].cita] = Nadie
  /\ Agendada(cita[pet[p].cita])
  /\ citaLock' = [citaLock EXCEPT ![pet[p].cita] = p]
  /\ vista' = [vista EXCEPT ![p] = cita[pet[p].cita]]
  /\ Avanza(p)
  /\ UNCHANGED <<ledger, activo, pet, ant, leadLock>>

LEMMA Efectos ==
  ASSUME Next
  PROVE  \/ \E p \in Procs, r \in Peticiones : Pedir(p, r)
         \/ \E p \in Procs : Lectura(p) \/ TomaCita(p) \/ BloquearLead(p) \/ Abortar(p) \/ Commit(p)
         \/ \E a \in Asesores : CambiarDisponibilidad(a)
BY DEF Next, Paso, ResolverAlcance, ExigirCartera, ResolverResponsable, BloquearCita, Escribir,
       VerificarRestricciones, DetectarInterbloqueo, Caida, Leer, Lectura, TomaCita

(***************************************************************************)
(* The invariant.  Programa says where each operation can be and which     *)
(* meeting it has in hand; with the locks and what was read under them it  *)
(* is inductive.                                                           *)
(***************************************************************************)
ConCita(p) == pc[p] \in {"pideLead", "conLead", "escrito", "listo"} /\ pet[p].op \in OpsCita

ProgramaDe(p) ==
  pc[p] # "libre" =>
    LET r == pet[p] IN
    /\ Autorizado(Rol[r.usr], r.op, r.meta)
    /\ pc[p] = "alcance" => r.op # "asignar"
    /\ pc[p] = "previo" => r.op \in OpsAgenda
    /\ pc[p] = "responsable" => r.op \in OpsTurno
    /\ pc[p] = "pideCita" => r.op \in OpsCita
    /\ pc[p] = "escrito" => r.op \in OpsTurno
    /\ r.op \in OpsCita => cita[r.cita] # Nada /\ cita[r.cita].lead = r.lead
    /\ r.op = "agendar" =>
         /\ cita[r.cita] = Nada
         /\ \A q \in Procs \ {p} :
              pc[q] # "libre" /\ pet[q].op \in OpsAgenda => pet[q].cita # r.cita

Programa == \A p \in Procs : ProgramaDe(p) /\ (vista[p] # Nada <=> ConCita(p))

Inv == TypeOK /\ Programa /\ CandadosCoherentes /\ LecturasVigentes

LEMMA InitInv == Init => Inv
<1> SUFFICES ASSUME Init PROVE Inv
  OBVIOUS
<1>1. "nuevo" \in EstadosLead /\ "libre" \in Pasos
  BY DEF EstadosLead, Pasos
<1>2. L!TypeOK
  BY <1>1, MismosTipos DEF Init, L!Init, TablasOK
<1>3. TypeOK
  BY <1>1, <1>2 DEF Init, TypeOK
<1>4. Programa
  BY DEF Init, Programa, ProgramaDe, ConCita
<1>5. CandadosCoherentes /\ LecturasVigentes
  BY DEF Init, CandadosCoherentes, LecturasVigentes, EnTransaccion
<1> QED
  BY <1>3, <1>4, <1>5 DEF Inv

(***************************************************************************)
(* Commit: the rows it writes and those it leaves alone.                   *)
(***************************************************************************)
LEMMA FilaTipo ==
  ASSUME Inv, NEW p \in Procs, pc[p] = "listo", pet[p].op \in OpsAgenda
  PROVE  /\ Fila(p) \in Cita
         /\ Fila(p).lead = pet[p].lead
         /\ pet[p].op \in OpsTurno =>
              /\ Fila(p) = [lead |-> pet[p].lead, resp |-> pet[p].asesor,
                            hor |-> pet[p].hor, est |-> "agendada"]
         /\ pet[p].op \in OpsCierre =>
              /\ Fila(p) = [cita[pet[p].cita] EXCEPT !.est = EstadoCitaTras(pet[p].op)]
              /\ Fila(p).est \in EstadosCita \ {"agendada"}
              /\ Fila(p).resp = cita[pet[p].cita].resp
              /\ Fila(p).hor = cita[pet[p].cita].hor
<1>1. /\ pet[p].lead \in Leads /\ pet[p].cita \in Citas
      /\ pet[p].op \in OpsTurno => pet[p].asesor \in Asesores /\ pet[p].hor \in Horarios
  BY PetTipo DEF Inv
<1>2. CASE pet[p].op \in OpsTurno
  <2>1. pet[p].op \notin OpsCierre
    BY <1>2 DEF OpsTurno, OpsCierre
  <2> QED
    BY <1>1, <1>2, <2>1 DEF Fila, Cita, EstadosCita
<1>3. CASE pet[p].op \in OpsCierre
  <2>1. pet[p].op \notin OpsTurno /\ pet[p].op \in OpsCita
    BY <1>3 DEF OpsTurno, OpsCierre, OpsCita
  <2>2. cita[pet[p].cita] # Nada /\ cita[pet[p].cita].lead = pet[p].lead
    BY <2>1 DEF Inv, Programa, ProgramaDe
  <2>3. cita[pet[p].cita] \in Cita
    BY <1>1, <2>2, TiposDeTablas DEF Inv, TablasOK
  <2>4. EstadoCitaTras(pet[p].op) \in EstadosCita \ {"agendada"}
    BY <1>3 DEF EstadoCitaTras, EstadosCita, OpsTurno, OpsCierre
  <2>5. Fila(p) = [cita[pet[p].cita] EXCEPT !.est = EstadoCitaTras(pet[p].op)]
    BY <2>1 DEF Fila
  <2> HIDE DEF Fila
  <2> QED
    BY <2>1, <2>2, <2>3, <2>4, <2>5 DEF Cita
<1> QED
  BY <1>2, <1>3 DEF OpsAgenda, OpsCita, OpsTurno, OpsCierre

LEMMA AppendEvento ==
  ASSUME NEW S, NEW s \in Seq(S), NEW e \in S
  PROVE  Append(s, e) \in Seq(S)
OBVIOUS

LEMMA CommitEstado ==
  ASSUME Inv, NEW p \in Procs, Commit(p)
  PROVE  /\ estado' \in [Leads -> EstadosLead]
         /\ histEstado' \in [Leads -> Seq(EventoEstado)]
         /\ \A l \in Leads \ {pet[p].lead} : estado'[l] = estado[l]
<1> DEFINE r == pet[p]
           destino == EstadoDestino(r.op, r.meta)
           ev == [accion |-> AccionEstado(r.op), por |-> r.usr, de |-> ant[p], a |-> destino]
<1>1. r.op \in Ops /\ r.usr \in Usuarios /\ r.lead \in Leads
      /\ (r.op = "estado" => r.meta \in Manuales)
  BY PetTipo DEF Inv, Commit
<1>2. destino \in EstadosLead
  BY <1>1, DatosAssumption, Operaciones DEF EstadoDestino, EstadosLead
<1>3. ant[p] \in EstadosLead
  BY <1>1, TiposDeTablas DEF Inv, LecturasVigentes, EnTransaccion, Commit, TablasOK
<1>4. ev \in EventoEstado
  BY <1>1, <1>2, <1>3 DEF EventoEstado, AccionEstado
<1> HIDE DEF destino
<1>5. CASE UNCHANGED <<estado, histEstado>>
  BY <1>5, TiposDeTablas DEF Inv, TablasOK
<1>6. CASE /\ estado' = [estado EXCEPT ![r.lead] = destino]
           /\ histEstado' = [histEstado EXCEPT ![r.lead] = Append(@, ev)]
  <2>1. Append(histEstado[r.lead], ev) \in Seq(EventoEstado)
    BY <1>1, <1>4, AppendEvento, TiposDeTablas DEF Inv, TablasOK
  <2> QED
    BY <1>1, <1>2, <1>6, <2>1, TiposDeTablas DEF Inv, TablasOK
<1> QED
  BY <1>5, <1>6 DEF Commit, EscribirEstado, destino

LEMMA CommitCita ==
  ASSUME Inv, NEW p \in Procs, Commit(p)
  PROVE  /\ cita' \in [Citas -> Cita \cup {Nada}]
         /\ histCita' \in [Citas -> Seq(EventoCita)]
         /\ pet[p].op \in OpsAgenda => cita' = [cita EXCEPT ![pet[p].cita] = Fila(p)]
         /\ pet[p].op \notin OpsAgenda => cita' = cita
<1>1. CASE pet[p].op \notin OpsAgenda
  BY <1>1, TiposDeTablas DEF Commit, Inv, TablasOK
<1>2. CASE pet[p].op \in OpsAgenda
  <2> DEFINE r == pet[p]
             f == Fila(p)
             v == vista[p]
             ev == [op |-> r.op, por |-> r.usr,
                    resp |-> IF r.op \in OpsTurno THEN r.asesor ELSE v.resp,
                    de |-> IF v = Nada THEN Nada ELSE v.est, a |-> f.est,
                    horDe |-> IF v = Nada THEN Nada ELSE v.hor,
                    horA |-> IF r.op \in OpsTurno THEN r.hor ELSE Nada]
  <2>1. pc[p] = "listo" /\ f \in Cita
    BY <1>2, FilaTipo DEF Commit
  <2>2. /\ r.usr \in Usuarios /\ r.cita \in Citas
        /\ (r.op \in OpsTurno => r.asesor \in Asesores /\ r.hor \in Horarios)
    BY <1>2, <2>1, PetTipo DEF Inv
  <2>3. r.op \notin OpsTurno => v # Nada
    BY <1>2, <2>1, Operaciones DEF Inv, Programa, ConCita
  <2>4. v \in Cita \cup {Nada}
    BY DEF Inv, TypeOK
  <2> HIDE DEF f, v
  <2>5. ev \in EventoCita
    BY <1>2, <2>1, <2>2, <2>3, <2>4 DEF EventoCita, Cita
  <2>6. Append(histCita[r.cita], ev) \in Seq(EventoCita)
    BY <2>2, <2>5, AppendEvento, TiposDeTablas DEF Inv, TablasOK
  <2>7. /\ cita' = [cita EXCEPT ![r.cita] = f]
        /\ histCita' = [histCita EXCEPT ![r.cita] = Append(@, ev)]
    BY <1>2 DEF Commit, EscribirCita, f, v
  <2> QED
    BY <1>2, <2>1, <2>2, <2>6, <2>7, TiposDeTablas DEF Inv, TablasOK, f
<1> QED
  BY <1>1, <1>2

LEMMA CommitAsig ==
  ASSUME Inv, NEW p \in Procs, Commit(p)
  PROVE  /\ asig' \in [Leads -> SUBSET Asesores]
         /\ \A l \in Leads : asig[l] \subseteq asig'[l]
         /\ \A l \in Leads \ {pet[p].lead} : asig'[l] = asig[l]
         /\ pet[p].op # "asignar" => asig' = asig
<1>1. /\ pet[p].lead \in Leads
      /\ (pet[p].op = "asignar" => pet[p].asesor \in Asesores)
  BY PetTipo DEF Inv, Commit
<1>2. /\ pet[p].op # "asignar" => asig' = asig
      /\ pet[p].op = "asignar" =>
           asig' = [asig EXCEPT ![pet[p].lead] = asig[pet[p].lead] \cup {pet[p].asesor}]
  BY DEF Commit
<1>3. asig \in [Leads -> SUBSET Asesores]
  BY TiposDeTablas DEF Inv, TablasOK
<1> QED
  BY <1>1, <1>2, <1>3

(***************************************************************************)
(* Types.                                                                  *)
(***************************************************************************)
LEMMA TerminarTipo ==
  ASSUME TypeOK, NEW p \in Procs, Terminar(p), TablasOK', UNCHANGED activo
  PROVE  TypeOK'
<1>1. L!TypeOK'
  BY MismoVocabulario DEF L!TypeOK, TablasOK
<1>2. \A q \in Procs : pc'[q] # "libre" => pet'[q] \in Peticiones
  BY TerminarEfecto DEF TypeOK
<1> QED
  BY <1>1, <1>2, TerminarEfecto DEF TypeOK

LEMMA AvanzaTipo ==
  ASSUME TypeOK, NEW p \in Procs, pc[p] # "libre", Avanza(p), UNCHANGED pet
  PROVE  /\ pc' \in [Procs -> Pasos]
         /\ \A q \in Procs : pc'[q] # "libre" => pet'[q] \in Peticiones
BY AvanzaEfecto DEF TypeOK

LEMMA TablasIguales == ASSUME TypeOK, UNCHANGED ledger PROVE TablasOK' /\ L!TypeOK'
BY TiposDeTablas, MismoVocabulario DEF ledger, TablasOK, L!TypeOK

LEMMA NextTypeOK ==
  ASSUME Inv, Next
  PROVE  TypeOK'
<1> USE DEF Inv
<1>1. ASSUME NEW p \in Procs, NEW r \in Peticiones, Pedir(p, r)
      PROVE  TypeOK'
  <2>1. r.op \in Ops /\ "libre" \in Pasos
    BY DEF Peticion, Pasos
  <2>2. Sigue(r.op, "libre") \in Pasos
    BY <2>1, SigueTipo
  <2> QED
    BY <1>1, <2>2, TablasIguales DEF Pedir, TypeOK, locks
<1>2. ASSUME NEW p \in Procs, Lectura(p)
      PROVE  TypeOK'
  BY <1>2, AvanzaTipo, TablasIguales DEF Lectura, TypeOK, locks
<1>3. ASSUME NEW p \in Procs, TomaCita(p)
      PROVE  TypeOK'
  <2>1. pc[p] # "libre" /\ pet[p].op \in OpsAgenda
    BY <1>3, Operaciones DEF TomaCita, Programa, ProgramaDe
  <2>2. pet[p].cita \in Citas
    BY <2>1, PetTipo
  <2>3. cita[pet[p].cita] \in Cita \cup {Nada}
    BY <2>2, TiposDeTablas DEF TablasOK
  <2> QED
    BY <1>3, <2>1, <2>2, <2>3, AvanzaTipo, TablasIguales DEF TomaCita, TypeOK
<1>4. ASSUME NEW p \in Procs, BloquearLead(p)
      PROVE  TypeOK'
  <2>1. pc[p] # "libre" /\ pet[p].lead \in Leads
    BY <1>4, PetTipo DEF BloquearLead
  <2>2. estado[pet[p].lead] \in EstadosLead
    BY <2>1, TiposDeTablas DEF TablasOK
  <2> QED
    BY <1>4, <2>1, <2>2, AvanzaTipo, TablasIguales DEF BloquearLead, TypeOK
<1>5. ASSUME NEW p \in Procs, Abortar(p)
      PROVE  TypeOK'
  BY <1>5, TablasIguales, TerminarTipo DEF Abortar
<1>6. ASSUME NEW p \in Procs, Commit(p)
      PROVE  TypeOK'
  <2>1. TablasOK'
    BY <1>6, CommitEstado, CommitCita, CommitAsig DEF TablasOK
  <2> QED
    BY <1>6, <2>1, TerminarTipo DEF Commit
<1>7. ASSUME NEW a \in Asesores, CambiarDisponibilidad(a)
      PROVE  TypeOK'
  BY <1>7, TablasIguales DEF CambiarDisponibilidad, TypeOK, locks
<1> QED
  BY <1>1, <1>2, <1>3, <1>4, <1>5, <1>6, <1>7, Efectos

(***************************************************************************)
(* Row locks.                                                              *)
(***************************************************************************)
(* The sets the locks guard.                                                *)
TieneLead(p, l) == EnTransaccion(p) /\ pet[p].lead = l
TieneCita(p, c) == ConCita(p) /\ pet[p].cita = c

LEMMA Candados ==
  CandadosCoherentes <=>
    /\ \A l \in Leads, p \in Procs : leadLock[l] = p <=> TieneLead(p, l)
    /\ \A c \in Citas, p \in Procs : citaLock[c] = p <=> TieneCita(p, c)
BY DEF CandadosCoherentes, TieneLead, TieneCita, ConCita, EnTransaccion

(* Two transactions never hold the same lead or the same meeting.           *)
LEMMA ExclusionMutua ==
  ASSUME Inv, NEW p \in Procs, NEW q \in Procs, p # q
  PROVE  /\ EnTransaccion(p) /\ EnTransaccion(q) => pet[p].lead # pet[q].lead
         /\ ConCita(p) /\ ConCita(q) => pet[p].cita # pet[q].cita
<1>1. ASSUME EnTransaccion(p), EnTransaccion(q)
      PROVE  pet[p].lead # pet[q].lead
  <2>1. pet[p].lead \in Leads /\ pet[q].lead \in Leads
    BY <1>1, PetTipo DEF Inv, EnTransaccion
  <2> QED
    BY <1>1, <2>1 DEF Inv, CandadosCoherentes
<1>2. ASSUME ConCita(p), ConCita(q)
      PROVE  pet[p].cita # pet[q].cita
  <2>1. pet[p].cita \in Citas /\ pet[q].cita \in Citas
    BY <1>2, PetTipo, Operaciones DEF Inv, ConCita
  <2> QED
    BY <1>2, <2>1, Candados DEF Inv, TieneCita
<1> QED
  BY <1>1, <1>2

(* A read takes no call into its transaction nor out of it.                 *)
LEMMA LecturaEfecto ==
  ASSUME Inv, NEW p \in Procs, Lectura(p)
  PROVE  /\ \A q \in Procs : /\ pet'[q] = pet[q] /\ vista'[q] = vista[q] /\ ant'[q] = ant[q]
                             /\ EnTransaccion(q)' <=> EnTransaccion(q)
                             /\ ConCita(q)' <=> ConCita(q)
                             /\ pc'[q] # "libre" <=> pc[q] # "libre"
         /\ pc'[p] = Sigue(pet[p].op, pc[p])
         /\ \A q \in Procs \ {p} : pc'[q] = pc[q]
<1>1. /\ pc[p] \in {"alcance", "previo", "responsable", "conLead", "escrito"}
      /\ pet' = pet /\ vista' = vista /\ ant' = ant /\ pc[p] # "libre"
  BY DEF Lectura
<1>2. /\ pc'[p] = Sigue(pet[p].op, pc[p]) /\ pc'[p] # "libre"
      /\ \A q \in Procs \ {p} : pc'[q] = pc[q]
  BY <1>1, AvanzaEfecto DEF Lectura, Inv
<1>3. pet[p].op \in Ops
  BY <1>1, PetTipo DEF Inv
<1>4. ProgramaDe(p)
  BY DEF Inv, Programa
<1>5. pc'[p] \in {"conLead", "escrito", "listo"} <=> pc[p] \in {"conLead", "escrito", "listo"}
  BY <1>1, <1>2, <1>3, <1>4, SigueValores, Operaciones DEF ProgramaDe
<1>6. pc'[p] \in {"pideLead", "conLead", "escrito", "listo"} /\ pet[p].op \in OpsCita
      <=> pc[p] \in {"pideLead", "conLead", "escrito", "listo"} /\ pet[p].op \in OpsCita
  BY <1>1, <1>2, <1>3, <1>4, SigueValores, Operaciones DEF ProgramaDe
<1>7. /\ EnTransaccion(p)' <=> EnTransaccion(p)
      /\ ConCita(p)' <=> ConCita(p)
  BY <1>1, <1>5, <1>6 DEF EnTransaccion, ConCita
<1>8. \A q \in Procs \ {p} : /\ EnTransaccion(q)' <=> EnTransaccion(q)
                             /\ ConCita(q)' <=> ConCita(q)
  BY <1>1, <1>2 DEF EnTransaccion, ConCita
<1> QED
  BY <1>1, <1>2, <1>7, <1>8

(* An ended call is in no transaction; the others stay where they were.     *)
LEMMA TerminarAjenos ==
  ASSUME Inv, NEW p \in Procs, Terminar(p)
  PROVE  /\ ~EnTransaccion(p)' /\ ~ConCita(p)' /\ pc'[p] = "libre" /\ vista'[p] = Nada
         /\ \A q \in Procs \ {p} :
              /\ EnTransaccion(q)' <=> EnTransaccion(q)
              /\ ConCita(q)' <=> ConCita(q)
              /\ pc'[q] = pc[q] /\ pet'[q] = pet[q] /\ vista'[q] = vista[q] /\ ant'[q] = ant[q]
BY TerminarEfecto DEF Inv, EnTransaccion, ConCita

LEMMA TerminarCandados ==
  ASSUME Inv, NEW p \in Procs, Terminar(p)
  PROVE  CandadosCoherentes'
<1>1. ASSUME NEW l \in Leads, NEW q \in Procs
      PROVE  leadLock'[l] = q <=> EnTransaccion(q)' /\ pet'[q].lead = l
  BY TerminarEfecto, TerminarAjenos, PeticionesAssumption DEF Inv, CandadosCoherentes
<1>2. ASSUME NEW c \in Citas, NEW q \in Procs
      PROVE  citaLock'[c] = q <=> ConCita(q)' /\ pet'[q].cita = c
  BY TerminarEfecto, TerminarAjenos, Candados, PeticionesAssumption DEF Inv, TieneCita
<1> QED
  BY <1>1, <1>2 DEF CandadosCoherentes, EnTransaccion, ConCita

LEMMA NextCandados ==
  ASSUME Inv, Next
  PROVE  CandadosCoherentes'
<1> USE DEF Inv
<1> DEFINE LeadOK(q, l) == leadLock'[l] = q <=> EnTransaccion(q)' /\ pet'[q].lead = l
           CitaOK(q, c) == citaLock'[c] = q <=> ConCita(q)' /\ pet'[q].cita = c
<1>0. /\ \A q \in Procs, l \in Leads : leadLock[l] = q <=> EnTransaccion(q) /\ pet[q].lead = l
      /\ \A q \in Procs, c \in Citas : citaLock[c] = q <=> ConCita(q) /\ pet[q].cita = c
  BY Candados DEF TieneLead, TieneCita
<1>s. SUFFICES /\ \A q \in Procs, l \in Leads : LeadOK(q, l)
               /\ \A q \in Procs, c \in Citas : CitaOK(q, c)
  BY DEF CandadosCoherentes, EnTransaccion, ConCita
<1> DEFINE Meta == /\ \A q \in Procs, l \in Leads : LeadOK(q, l)
                   /\ \A q \in Procs, c \in Citas : CitaOK(q, c)
<1>1. ASSUME NEW p \in Procs, NEW r \in Peticiones, Pedir(p, r)
      PROVE  Meta
  <2>1. /\ pc[p] = "libre" /\ pc' = [pc EXCEPT ![p] = Sigue(r.op, "libre")]
        /\ pet' = [pet EXCEPT ![p] = r] /\ r.op \in Ops
        /\ leadLock' = leadLock /\ citaLock' = citaLock
    BY <1>1 DEF Pedir, locks, Peticion
  <2>2. /\ pc'[p] = Sigue(r.op, "libre") /\ pet'[p] = r
        /\ \A q \in Procs \ {p} : pc'[q] = pc[q] /\ pet'[q] = pet[q]
    BY <2>1 DEF TypeOK
  <2>3. ~EnTransaccion(p) /\ ~ConCita(p) /\ ~EnTransaccion(p)' /\ ~ConCita(p)'
    BY <2>1, <2>2, SigueValores, Operaciones DEF EnTransaccion, ConCita
  <2>4. \A q \in Procs \ {p} : (EnTransaccion(q)' <=> EnTransaccion(q))
                               /\ (ConCita(q)' <=> ConCita(q))
    BY <2>2 DEF EnTransaccion, ConCita
  <2> QED
    BY <1>0, <2>1, <2>2, <2>3, <2>4
<1>2. ASSUME NEW p \in Procs, Lectura(p)
      PROVE  Meta
  BY <1>0, <1>2, LecturaEfecto DEF Lectura, locks
<1>3. ASSUME NEW p \in Procs, TomaCita(p)
      PROVE  Meta
  <2>1. /\ pc[p] = "pideCita" /\ pet' = pet /\ leadLock' = leadLock
        /\ citaLock[pet[p].cita] = Nadie /\ citaLock' = [citaLock EXCEPT ![pet[p].cita] = p]
    BY <1>3 DEF TomaCita
  <2>2. pet[p].op \in OpsCita /\ pet[p].op \in Ops /\ pet[p].cita \in Citas
    BY <2>1, PetTipo, Operaciones DEF Programa, ProgramaDe
  <2>3. pc'[p] = "pideLead" /\ \A q \in Procs \ {p} : pc'[q] = pc[q]
    BY <1>3, <2>1, <2>2, AvanzaEfecto, SigueValores DEF TomaCita
  <2>4. ~EnTransaccion(p) /\ ~ConCita(p) /\ ~EnTransaccion(p)' /\ ConCita(p)'
    BY <2>1, <2>2, <2>3 DEF EnTransaccion, ConCita
  <2>5. \A q \in Procs \ {p} : (EnTransaccion(q)' <=> EnTransaccion(q))
                               /\ (ConCita(q)' <=> ConCita(q))
    BY <2>1, <2>3 DEF EnTransaccion, ConCita
  <2>6. \A c \in Citas : citaLock'[c] = IF c = pet[p].cita THEN p ELSE citaLock[c]
    BY <2>1, <2>2 DEF TypeOK
  <2> QED
    BY <1>0, <2>1, <2>2, <2>4, <2>5, <2>6, PeticionesAssumption
<1>4. ASSUME NEW p \in Procs, BloquearLead(p)
      PROVE  Meta
  <2>1. /\ pc[p] = "pideLead" /\ pet' = pet /\ citaLock' = citaLock
        /\ leadLock[pet[p].lead] = Nadie /\ leadLock' = [leadLock EXCEPT ![pet[p].lead] = p]
    BY <1>4 DEF BloquearLead
  <2>2. pet[p].op \in Ops /\ pet[p].lead \in Leads
    BY <2>1, PetTipo
  <2>3. pc'[p] = "conLead" /\ \A q \in Procs \ {p} : pc'[q] = pc[q]
    BY <1>4, <2>1, <2>2, AvanzaEfecto, SigueValores DEF BloquearLead
  <2>4. ~EnTransaccion(p) /\ EnTransaccion(p)' /\ (ConCita(p)' <=> ConCita(p))
    BY <2>1, <2>3 DEF EnTransaccion, ConCita
  <2>5. \A q \in Procs \ {p} : (EnTransaccion(q)' <=> EnTransaccion(q))
                               /\ (ConCita(q)' <=> ConCita(q))
    BY <2>1, <2>3 DEF EnTransaccion, ConCita
  <2>6. \A l \in Leads : leadLock'[l] = IF l = pet[p].lead THEN p ELSE leadLock[l]
    BY <2>1, <2>2 DEF TypeOK
  <2> QED
    BY <1>0, <2>1, <2>2, <2>4, <2>5, <2>6, PeticionesAssumption
<1>5. ASSUME NEW p \in Procs, Terminar(p)
      PROVE  Meta
  BY <1>5, TerminarCandados DEF CandadosCoherentes, EnTransaccion, ConCita
<1>6. ASSUME NEW a \in Asesores, CambiarDisponibilidad(a)
      PROVE  Meta
  BY <1>0, <1>6 DEF CambiarDisponibilidad, locks, EnTransaccion, ConCita
<1> QED
  BY <1>1, <1>2, <1>3, <1>4, <1>5, <1>6, Efectos DEF Abortar, Commit

(***************************************************************************)
(* What was read under the locks.                                          *)
(***************************************************************************)
LecturaDe(q) ==
  /\ EnTransaccion(q) => ant[q] = estado[pet[q].lead]
  /\ vista[q] # Nada => vista[q] = cita[pet[q].cita] /\ Agendada(vista[q])

LEMMA NextLecturas ==
  ASSUME Inv, Next
  PROVE  LecturasVigentes'
<1> USE DEF Inv
<1>0. \A q \in Procs : LecturaDe(q)
  BY DEF LecturasVigentes, LecturaDe
<1>s. SUFFICES \A q \in Procs : LecturaDe(q)'
  BY DEF LecturasVigentes, LecturaDe, EnTransaccion, Agendada
<1>1. ASSUME NEW p \in Procs, NEW r \in Peticiones, Pedir(p, r)
      PROVE  \A q \in Procs : LecturaDe(q)'
  <2>1. /\ pc[p] = "libre" /\ pc' = [pc EXCEPT ![p] = Sigue(r.op, "libre")]
        /\ pet' = [pet EXCEPT ![p] = r] /\ r.op \in Ops
        /\ vista' = vista /\ ant' = ant /\ estado' = estado /\ cita' = cita
    BY <1>1 DEF Pedir, ledger, Peticion
  <2>2. /\ pc'[p] = Sigue(r.op, "libre") /\ pet'[p] = r
        /\ \A q \in Procs \ {p} : pc'[q] = pc[q] /\ pet'[q] = pet[q]
    BY <2>1 DEF TypeOK
  <2>3. ~EnTransaccion(p)' /\ vista[p] = Nada
    BY <2>1, <2>2, SigueValores DEF EnTransaccion, Programa, ConCita
  <2> QED
    BY <1>0, <2>1, <2>2, <2>3 DEF LecturaDe, EnTransaccion
<1>2. ASSUME NEW p \in Procs, Lectura(p)
      PROVE  \A q \in Procs : LecturaDe(q)'
  BY <1>0, <1>2, LecturaEfecto DEF Lectura, ledger, LecturaDe
<1>3. ASSUME NEW p \in Procs, TomaCita(p)
      PROVE  \A q \in Procs : LecturaDe(q)'
  <2>1. /\ pc[p] = "pideCita" /\ pet' = pet /\ ant' = ant /\ estado' = estado /\ cita' = cita
        /\ Agendada(cita[pet[p].cita]) /\ vista' = [vista EXCEPT ![p] = cita[pet[p].cita]]
    BY <1>3 DEF TomaCita, ledger
  <2>2. /\ vista'[p] = cita[pet[p].cita]
        /\ \A q \in Procs \ {p} : vista'[q] = vista[q]
    BY <2>1 DEF TypeOK
  <2>3. pet[p].op \in Ops
    BY <2>1, PetTipo
  <2>4. pc'[p] = "pideLead" /\ \A q \in Procs \ {p} : pc'[q] = pc[q]
    BY <1>3, <2>1, <2>3, AvanzaEfecto, SigueValores DEF TomaCita
  <2> QED
    BY <1>0, <2>1, <2>2, <2>4 DEF LecturaDe, EnTransaccion
<1>4. ASSUME NEW p \in Procs, BloquearLead(p)
      PROVE  \A q \in Procs : LecturaDe(q)'
  <2>1. /\ pc[p] = "pideLead" /\ pet' = pet /\ vista' = vista /\ estado' = estado /\ cita' = cita
        /\ ant' = [ant EXCEPT ![p] = estado[pet[p].lead]]
    BY <1>4 DEF BloquearLead, ledger
  <2>2. /\ ant'[p] = estado[pet[p].lead]
        /\ \A q \in Procs \ {p} : ant'[q] = ant[q]
    BY <2>1 DEF TypeOK
  <2>3. pet[p].op \in Ops
    BY <2>1, PetTipo
  <2>4. \A q \in Procs \ {p} : pc'[q] = pc[q]
    BY <1>4, <2>1, <2>3, AvanzaEfecto DEF BloquearLead
  <2> QED
    BY <1>0, <2>1, <2>2, <2>4 DEF LecturaDe, EnTransaccion
<1>5. ASSUME NEW p \in Procs, Abortar(p)
      PROVE  \A q \in Procs : LecturaDe(q)'
  BY <1>0, <1>5, TerminarAjenos DEF Abortar, ledger, LecturaDe
<1>6. ASSUME NEW p \in Procs, Commit(p)
      PROVE  \A q \in Procs : LecturaDe(q)'
  <2>1. pc[p] = "listo" /\ Terminar(p) /\ EnTransaccion(p)
    BY <1>6 DEF Commit, EnTransaccion
  <2>2. ASSUME NEW q \in Procs \ {p}, EnTransaccion(q)
        PROVE  estado'[pet[q].lead] = estado[pet[q].lead]
    <3>1. pet[q].lead \in Leads \ {pet[p].lead}
      BY <2>1, <2>2, ExclusionMutua, PetTipo DEF EnTransaccion
    <3> QED
      BY <1>6, <3>1, CommitEstado
  <2>3. ASSUME NEW q \in Procs \ {p}, vista[q] # Nada
        PROVE  cita'[pet[q].cita] = cita[pet[q].cita]
    <3>1. ConCita(q) /\ pet[q].cita \in Citas /\ pc[q] # "libre"
      BY <2>3, PetTipo, Operaciones DEF Programa, ConCita
    <3>2. CASE pet[p].op \in OpsAgenda
      <4>1. pet[q].cita # pet[p].cita
        <5>1. CASE pet[p].op \in OpsCita
          BY <2>1, <3>1, <5>1, ExclusionMutua DEF ConCita
        <5>2. CASE pet[p].op = "agendar"
          <6>1. pet[q].op \in OpsAgenda
            BY <3>1 DEF ConCita, OpsAgenda
          <6> QED
            BY <2>1, <3>1, <5>2, <6>1 DEF Programa, ProgramaDe
        <5> QED
          BY <3>2, <5>1, <5>2 DEF OpsAgenda
      <4>2. cita' = [cita EXCEPT ![pet[p].cita] = Fila(p)]
        BY <1>6, <3>2, CommitCita
      <4> QED
        BY <3>1, <4>1, <4>2, TiposDeTablas DEF TablasOK
    <3>3. CASE pet[p].op \notin OpsAgenda
      BY <1>6, <3>3, CommitCita
    <3> QED
      BY <3>2, <3>3
  <2> QED
    BY <1>0, <2>1, <2>2, <2>3, TerminarAjenos DEF LecturaDe
<1>7. ASSUME NEW a \in Asesores, CambiarDisponibilidad(a)
      PROVE  \A q \in Procs : LecturaDe(q)'
  BY <1>0, <1>7 DEF CambiarDisponibilidad, ledger, LecturaDe, EnTransaccion
<1> QED
  BY <1>1, <1>2, <1>3, <1>4, <1>5, <1>6, <1>7, Efectos

(***************************************************************************)
(* Where each operation is, and the meeting it has in hand.                *)
(***************************************************************************)
(* The part of ProgramaDe that only reads the call itself.                  *)
Ruta(q) ==
  pc[q] # "libre" =>
    /\ Autorizado(Rol[pet[q].usr], pet[q].op, pet[q].meta)
    /\ pc[q] = "alcance" => pet[q].op # "asignar"
    /\ pc[q] = "previo" => pet[q].op \in OpsAgenda
    /\ pc[q] = "responsable" => pet[q].op \in OpsTurno
    /\ pc[q] = "pideCita" => pet[q].op \in OpsCita
    /\ pc[q] = "escrito" => pet[q].op \in OpsTurno

(* The part that reads the meetings and the other calls.                    *)
EnMano(q) ==
  pc[q] # "libre" =>
    /\ pet[q].op \in OpsCita => cita[pet[q].cita] # Nada /\ cita[pet[q].cita].lead = pet[q].lead
    /\ pet[q].op = "agendar" =>
         /\ cita[pet[q].cita] = Nada
         /\ \A o \in Procs \ {q} :
              pc[o] # "libre" /\ pet[o].op \in OpsAgenda => pet[o].cita # pet[q].cita

VistaCoherente(q) == vista[q] # Nada <=> ConCita(q)

LEMMA ProgramaPartes ==
  Programa <=> \A q \in Procs : Ruta(q) /\ EnMano(q) /\ VistaCoherente(q)
BY DEF Programa, ProgramaDe, Ruta, EnMano, VistaCoherente

(* A call that goes on keeps to its route.                                  *)
LEMMA RutaAvanza ==
  ASSUME Inv, NEW p \in Procs, pc[p] # "libre", Avanza(p), UNCHANGED pet
  PROVE  \A q \in Procs : Ruta(q)'
<1>1. \A q \in Procs : Ruta(q)
  BY ProgramaPartes DEF Inv
<1>2. pet[p].op \in Ops /\ pc[p] \in Pasos
  BY PetTipo DEF Inv, TypeOK
<1>3. pc'[p] = Sigue(pet[p].op, pc[p]) /\ \A q \in Procs \ {p} : pc'[q] = pc[q]
  BY AvanzaEfecto DEF Inv
<1>4. Sigue(pet[p].op, "listo") = "listo"
  BY DEF Sigue
<1>5. Ruta(p)'
  BY <1>1, <1>2, <1>3, <1>4, SigueValores, Operaciones DEF Ruta, Pasos
<1> QED
  BY <1>1, <1>3, <1>5 DEF Ruta

LEMMA NextPrograma ==
  ASSUME Inv, Next
  PROVE  Programa'
<1> USE DEF Inv
<1>0. \A q \in Procs : Ruta(q) /\ EnMano(q) /\ VistaCoherente(q)
  BY ProgramaPartes
<1>s. SUFFICES \A q \in Procs : Ruta(q)' /\ EnMano(q)' /\ VistaCoherente(q)'
  BY DEF Programa, ProgramaDe, Ruta, EnMano, VistaCoherente, ConCita
<1>1. ASSUME NEW p \in Procs, NEW r \in Peticiones, Pedir(p, r)
      PROVE  \A q \in Procs : Ruta(q)' /\ EnMano(q)' /\ VistaCoherente(q)'
  <2>1. /\ pc[p] = "libre" /\ pc' = [pc EXCEPT ![p] = Sigue(r.op, "libre")]
        /\ pet' = [pet EXCEPT ![p] = r] /\ r.op \in Ops
        /\ vista' = vista /\ cita' = cita
        /\ Autorizado(Rol[r.usr], r.op, r.meta)
        /\ r.op \in OpsCita => cita[r.cita] # Nada /\ cita[r.cita].lead = r.lead
        /\ r.op = "agendar" => /\ cita[r.cita] = Nada
                               /\ \A q \in Procs : pc[q] # "libre" => pet[q].cita # r.cita
    BY <1>1 DEF Pedir, ledger, Peticion
  <2>2. /\ pc'[p] = Sigue(r.op, "libre") /\ pet'[p] = r
        /\ \A q \in Procs \ {p} : pc'[q] = pc[q] /\ pet'[q] = pet[q]
    BY <2>1 DEF TypeOK
  <2>3. pc'[p] = IF r.op = "asignar" THEN "pideLead" ELSE "alcance"
    BY <2>1, <2>2, SigueValores
  <2>4. Ruta(p)' /\ VistaCoherente(p)'
    BY <1>0, <2>1, <2>2, <2>3, Operaciones DEF Ruta, VistaCoherente, ConCita
  <2>5. EnMano(p)'
    BY <2>1, <2>2 DEF EnMano
  <2>6. ASSUME NEW q \in Procs \ {p}
        PROVE  Ruta(q)' /\ EnMano(q)' /\ VistaCoherente(q)'
    <3>1. Ruta(q)' /\ VistaCoherente(q)'
      BY <1>0, <2>1, <2>2 DEF Ruta, VistaCoherente, ConCita
    <3>2. ASSUME pc[q] # "libre", pet[q].op = "agendar", r.op \in OpsAgenda
          PROVE  r.cita # pet[q].cita
      BY <1>0, <2>1, <3>2, Operaciones DEF EnMano
    <3>3. EnMano(q)'
      BY <1>0, <2>1, <2>2, <3>2 DEF EnMano
    <3> QED
      BY <3>1, <3>3
  <2> QED
    BY <2>4, <2>5, <2>6
<1>2. ASSUME NEW p \in Procs, Lectura(p)
      PROVE  \A q \in Procs : Ruta(q)' /\ EnMano(q)' /\ VistaCoherente(q)'
  <2>1. \A q \in Procs : Ruta(q)'
    BY <1>2, RutaAvanza DEF Lectura
  <2> QED
    BY <1>0, <1>2, <2>1, LecturaEfecto DEF Lectura, ledger, EnMano, VistaCoherente
<1>3. ASSUME NEW p \in Procs, TomaCita(p)
      PROVE  \A q \in Procs : Ruta(q)' /\ EnMano(q)' /\ VistaCoherente(q)'
  <2>1. /\ pc[p] = "pideCita" /\ pet' = pet /\ cita' = cita
        /\ Agendada(cita[pet[p].cita]) /\ vista' = [vista EXCEPT ![p] = cita[pet[p].cita]]
    BY <1>3 DEF TomaCita, ledger
  <2>2. \A q \in Procs : Ruta(q)'
    BY <1>3, <2>1, RutaAvanza DEF TomaCita
  <2>3. /\ pet[p].op \in OpsCita /\ pet[p].op \in Ops
    BY <1>0, <2>1, PetTipo DEF Ruta
  <2>4. pc'[p] = "pideLead" /\ \A q \in Procs \ {p} : pc'[q] = pc[q]
    BY <1>3, <2>1, <2>3, AvanzaEfecto, SigueValores DEF TomaCita
  <2>5. vista'[p] # Nada /\ \A q \in Procs \ {p} : vista'[q] = vista[q]
    BY <2>1 DEF TypeOK, Agendada
  <2> QED
    BY <1>0, <2>1, <2>2, <2>3, <2>4, <2>5 DEF EnMano, VistaCoherente, ConCita
<1>4. ASSUME NEW p \in Procs, BloquearLead(p)
      PROVE  \A q \in Procs : Ruta(q)' /\ EnMano(q)' /\ VistaCoherente(q)'
  <2>1. pc[p] = "pideLead" /\ pet' = pet /\ cita' = cita /\ vista' = vista
    BY <1>4 DEF BloquearLead, ledger
  <2>2. \A q \in Procs : Ruta(q)'
    BY <1>4, <2>1, RutaAvanza DEF BloquearLead
  <2>3. pet[p].op \in Ops
    BY <2>1, PetTipo
  <2>4. pc'[p] = "conLead" /\ \A q \in Procs \ {p} : pc'[q] = pc[q]
    BY <1>4, <2>1, <2>3, AvanzaEfecto, SigueValores DEF BloquearLead
  <2> QED
    BY <1>0, <2>1, <2>2, <2>4 DEF EnMano, VistaCoherente, ConCita
<1>5. ASSUME NEW p \in Procs, Terminar(p),
             \A q \in Procs \ {p} :
               pc[q] # "libre" /\ pet[q].op \in OpsAgenda =>
                 /\ pet[q].op \in OpsCita =>
                      cita'[pet[q].cita] # Nada /\ cita'[pet[q].cita].lead = pet[q].lead
                 /\ pet[q].op = "agendar" => cita'[pet[q].cita] = Nada
      PROVE  \A q \in Procs : Ruta(q)' /\ EnMano(q)' /\ VistaCoherente(q)'
  <2>1. Ruta(p)' /\ EnMano(p)' /\ VistaCoherente(p)'
    BY <1>5, TerminarAjenos DEF Ruta, EnMano, VistaCoherente
  <2>2. ASSUME NEW q \in Procs \ {p}
        PROVE  Ruta(q)' /\ EnMano(q)' /\ VistaCoherente(q)'
    <3>1. Ruta(q)' /\ VistaCoherente(q)'
      BY <1>0, <1>5, TerminarAjenos DEF Ruta, VistaCoherente
    <3>2. EnMano(q)'
      BY <1>0, <1>5, TerminarAjenos, Operaciones DEF EnMano
    <3> QED
      BY <3>1, <3>2
  <2> QED
    BY <2>1, <2>2
<1>6. ASSUME NEW p \in Procs, Abortar(p)
      PROVE  \A q \in Procs : Ruta(q)' /\ EnMano(q)' /\ VistaCoherente(q)'
  <2>1. Terminar(p) /\ cita' = cita
    BY <1>6 DEF Abortar, ledger
  <2> QED
    BY <1>0, <1>5, <2>1 DEF EnMano
<1>7. ASSUME NEW p \in Procs, Commit(p)
      PROVE  \A q \in Procs : Ruta(q)' /\ EnMano(q)' /\ VistaCoherente(q)'
  <2>1. Terminar(p) /\ pc[p] = "listo"
    BY <1>7 DEF Commit
  <2>2. ASSUME NEW q \in Procs \ {p}, pc[q] # "libre", pet[q].op \in OpsAgenda
        PROVE  /\ pet[q].op \in OpsCita =>
                    cita'[pet[q].cita] # Nada /\ cita'[pet[q].cita].lead = pet[q].lead
               /\ pet[q].op = "agendar" => cita'[pet[q].cita] = Nada
    <3>1. CASE pet[p].op \notin OpsAgenda
      BY <1>0, <1>7, <2>2, <3>1, CommitCita DEF EnMano
    <3>2. CASE pet[p].op \in OpsAgenda
      <4>1. cita' = [cita EXCEPT ![pet[p].cita] = Fila(p)] /\ pet[q].cita \in Citas
        BY <1>7, <2>2, <3>2, CommitCita, PetTipo
      <4>2. Fila(p) # Nada /\ Fila(p).lead = pet[p].lead
        BY <2>1, <3>2, FilaTipo, NadaAssumption
      <4>3. CASE pet[q].cita # pet[p].cita
        <5>1. cita'[pet[q].cita] = cita[pet[q].cita]
          BY <4>1, <4>3, TiposDeTablas DEF TablasOK
        <5> QED
          BY <1>0, <2>2, <5>1 DEF EnMano
      <4>4. CASE pet[q].cita = pet[p].cita
        <5>1. pet[q].op # "agendar" /\ pet[p].op # "agendar"
          BY <1>0, <2>1, <2>2, <3>2, <4>4 DEF EnMano
        <5>2. pet[p].lead = pet[q].lead
          BY <1>0, <2>1, <2>2, <3>2, <4>4, <5>1, Operaciones DEF EnMano
        <5>3. cita'[pet[q].cita] = Fila(p)
          BY <4>1, <4>4, TiposDeTablas DEF TablasOK
        <5> QED
          BY <4>2, <5>1, <5>2, <5>3
      <4> QED
        BY <4>3, <4>4
    <3> QED
      BY <3>1, <3>2
  <2> QED
    BY <1>5, <2>1, <2>2
<1>8. ASSUME NEW a \in Asesores, CambiarDisponibilidad(a)
      PROVE  \A q \in Procs : Ruta(q)' /\ EnMano(q)' /\ VistaCoherente(q)'
  BY <1>0, <1>8 DEF CambiarDisponibilidad, ledger, Ruta, EnMano, VistaCoherente, ConCita
<1> QED
  BY <1>1, <1>2, <1>3, <1>4, <1>6, <1>7, <1>8, Efectos

(***************************************************************************)
(* The theorems.                                                           *)
(***************************************************************************)
LEMMA NextInv == Inv /\ [Next]_vars => Inv'
<1>1. ASSUME Inv, Next PROVE Inv'
  BY <1>1, NextTypeOK, NextPrograma, NextCandados, NextLecturas DEF Inv
<1>2. ASSUME Inv, UNCHANGED vars PROVE Inv'
  <2>1. TypeOK'
    BY <1>2, TablasIguales DEF Inv, vars, locks, TypeOK
  <2> QED
    BY <1>2, <2>1 DEF Inv, vars, locks, ledger, Programa, ProgramaDe, ConCita,
                      CandadosCoherentes, LecturasVigentes, EnTransaccion
<1> QED
  BY <1>1, <1>2

THEOREM Invariante == Spec => []Inv
BY InitInv, NextInv, PTL DEF Spec

(* Calls, requests, tables and locks keep their types.                      *)
THEOREM Tipos == Spec => []TypeOK
<1>1. Inv => TypeOK
  BY DEF Inv
<1> QED
  BY <1>1, Invariante, PTL

(* Row locks are held exactly by the transactions that are between the      *)
(* statement that takes them and their end.                                 *)
THEOREM Candado == Spec => []CandadosCoherentes
<1>1. Inv => CandadosCoherentes
  BY DEF Inv
<1> QED
  BY <1>1, Invariante, PTL

(* What a transaction read under its locks is still committed when it       *)
(* writes: no lost update and no audit of a state the lead was not in.      *)
THEOREM LecturasSiguenVigentes == Spec => []LecturasVigentes
<1>1. Inv => LecturasVigentes
  BY DEF Inv
<1> QED
  BY <1>1, Invariante, PTL

(***************************************************************************)
(* Deadlock.  Lock order does the work: who waits for a meeting waits for  *)
(* calls beyond it, who waits for a lead waits for calls in their          *)
(* transaction, and these wait only for one another, at the constraint     *)
(* check.  Each of those sets is closed under waiting and leaves p out.    *)
(***************************************************************************)
LEMMA EsperaValores ==
  ASSUME NEW p \in Procs
  PROVE  /\ pc[p] = "pideCita" => EsperaA(p) = {citaLock[pet[p].cita]} \ {Nadie}
         /\ pc[p] = "pideLead" => EsperaA(p) = {leadLock[pet[p].lead]} \ {Nadie}
         /\ pc[p] = "escrito" => EsperaA(p) = Bloqueantes(p)
         /\ pc[p] \notin {"pideCita", "pideLead", "escrito"} => EsperaA(p) = {}
BY DEF EsperaA

LEMMA Esperas ==
  ASSUME Inv, NEW p \in Procs, NEW q \in EsperaA(p)
  PROVE  /\ q \in Procs
         /\ EnTransaccion(q) \/ (pc[q] = "pideLead" /\ pc[p] = "pideCita")
<1>1. CASE pc[p] = "pideCita"
  <2>1. q = citaLock[pet[p].cita] /\ q # Nadie
    BY <1>1, EsperaValores
  <2>2. pet[p].cita \in Citas
    BY <1>1, PetTipo, Operaciones DEF Inv, Programa, ProgramaDe
  <2>3. q \in Procs
    BY <2>1, <2>2 DEF Inv, TypeOK
  <2>4. ConCita(q)
    BY <2>1, <2>2, <2>3, Candados DEF Inv, TieneCita
  <2> QED
    BY <1>1, <2>3, <2>4 DEF ConCita, EnTransaccion
<1>2. CASE pc[p] = "pideLead"
  <2>1. q = leadLock[pet[p].lead] /\ q # Nadie
    BY <1>2, EsperaValores
  <2>2. pet[p].lead \in Leads
    BY <1>2, PetTipo DEF Inv
  <2>3. q \in Procs
    BY <2>1, <2>2 DEF Inv, TypeOK
  <2> QED
    BY <2>1, <2>2, <2>3 DEF Inv, CandadosCoherentes
<1>3. CASE pc[p] = "escrito"
  BY <1>3, EsperaValores DEF Bloqueantes, EnVuelo, EnTransaccion
<1> QED
  BY <1>1, <1>2, <1>3, EsperaValores

LEMMA SoloEscritosEnCiclo == Inv => SoloRestriccionesInterbloquean
<1> SUFFICES ASSUME Inv, NEW p \in Procs, EnCiclo(p), pc[p] # "escrito"
             PROVE  FALSE
  BY DEF SoloRestriccionesInterbloquean
<1>1. ASSUME NEW S \in SUBSET Procs, EsperaA(p) \subseteq S, p \notin S,
             \A q \in S : EsperaA(q) \subseteq S
      PROVE  FALSE
  BY <1>1 DEF EnCiclo
<1>2. CASE pc[p] = "pideCita"
  <2> DEFINE S == {q \in Procs : EnTransaccion(q) \/ pc[q] = "pideLead"}
  <2>1. EsperaA(p) \subseteq S /\ \A q \in S : EsperaA(q) \subseteq S
    BY Esperas
  <2>2. p \notin S
    BY <1>2 DEF EnTransaccion
  <2> QED
    BY <1>1, <2>1, <2>2
<1>3. CASE pc[p] = "pideLead"
  <2> DEFINE S == {q \in Procs : EnTransaccion(q)}
  <2>1. EsperaA(p) \subseteq S
    BY <1>3, Esperas
  <2>2. \A q \in S : EsperaA(q) \subseteq S
    BY Esperas DEF EnTransaccion
  <2>3. p \notin S
    BY <1>3 DEF EnTransaccion
  <2> QED
    BY <1>1, <2>1, <2>2, <2>3
<1>4. CASE pc[p] \notin {"pideCita", "pideLead"}
  <2>1. EsperaA(p) = {}
    BY <1>4, EsperaValores
  <2> QED
    BY <1>1, <2>1
<1> QED
  BY <1>2, <1>3, <1>4

(* Every transaction locks the meeting before the lead, so no deadlock ever *)
(* goes through a row lock: all of a cycle wait at the constraint check.    *)
THEOREM OrdenDeCandados == Spec => []SoloRestriccionesInterbloquean
BY Invariante, SoloEscritosEnCiclo, PTL

-----------------------------------------------------------------------------
(***************************************************************************)
(* CrmTransactions implements CrmLedger: whatever concurrent calls do, the *)
(* committed data evolves by whole operations of the ledger, each with all *)
(* the checks it promises holding at the moment it takes effect.           *)
(*                                                                         *)
(* The checks were made earlier, some of them before any lock was taken.   *)
(* Comprobado says that they are still true at the commit, and why: an     *)
(* assignment is never withdrawn, the lead lock freezes its state and its  *)
(* assignment, and two meetings that passed the constraint check are       *)
(* compatible with each other.                                             *)
(***************************************************************************)
TrasResponsable == {"pideCita", "pideLead", "conLead", "escrito", "listo"}

(* _resolve_responsable was passed, and still would be.                     *)
ResponsableComprobado(p) ==
  pc[p] \in TrasResponsable /\ pet[p].op \in OpsTurno =>
    ResponsableValido(pet[p].usr, pet[p].asesor, asig[pet[p].lead])

(* The checks under the lead lock were passed, and still would be.          *)
EscrituraComprobada(p) ==
  pc[p] \in {"escrito", "listo"} =>
    IF pet[p].op = "asignar"
    THEN RolAsesor[pet[p].asesor] = "asesor" /\ asig[pet[p].lead] = {}
    ELSE /\ EnCartera(pet[p].usr, asig[pet[p].lead])
         /\ pet[p].op \in OpsTurno => LeadAdmiteAgenda(ant[p])

Turno(p) == pc[p] = "listo" /\ pet[p].op \in OpsTurno

(* The new row of p fits the committed ones and those about to be.          *)
TurnoCompatible(p) ==
  Turno(p) =>
    /\ \A d \in Citas \ {pet[p].cita} : ~Incompatibles(cita[d], Fila(p))
    /\ \A q \in Procs \ {p} : Turno(q) => ~Incompatibles(Fila(q), Fila(p))

Comprobado ==
  \A p \in Procs : ResponsableComprobado(p) /\ EscrituraComprobada(p) /\ TurnoCompatible(p)

LEMMA InitComprobado == Init => Comprobado
BY DEF Init, Comprobado, ResponsableComprobado, EscrituraComprobada, TurnoCompatible, Turno,
       TrasResponsable

(* Assignments only grow, and these two checks grow with them.              *)
LEMMA CarteraCrece ==
  ASSUME NEW u, NEW r, NEW A, NEW B, A \subseteq B
  PROVE  /\ EnCartera(u, A) => EnCartera(u, B)
         /\ ResponsableValido(u, r, A) => ResponsableValido(u, r, B)
BY DEF EnCartera, ResponsableValido

LEMMA IncompatiblesSimetrico ==
  ASSUME NEW r, NEW s
  PROVE  Incompatibles(r, s) <=> Incompatibles(s, r)
BY DEF Incompatibles, Chocan, SePisan

(* The row of a booking depends on its request only.                        *)
LEMMA FilaDeTurno ==
  ASSUME NEW p \in Procs, pet[p].op \in OpsTurno
  PROVE  Fila(p) = [lead |-> pet[p].lead, resp |-> pet[p].asesor,
                    hor |-> pet[p].hor, est |-> "agendada"]
BY DEF Fila

(* A step that leaves the tables alone and moves no call past a check.      *)
LEMMA PasoNeutro ==
  ASSUME Comprobado, UNCHANGED <<asig, cita>>,
         \A q \in Procs :
           \/ pc'[q] \notin TrasResponsable
           \/ /\ pet'[q] = pet[q] /\ pc[q] \in TrasResponsable
              /\ pc'[q] \in {"escrito", "listo"} => pc'[q] = pc[q] /\ ant'[q] = ant[q]
           \/ pet'[q] = pet[q] /\ pet[q].op \notin OpsTurno /\ pc'[q] \notin {"escrito", "listo"}
  PROVE  Comprobado'
<1>1. ASSUME NEW q \in Procs
      PROVE  ResponsableComprobado(q)'
  BY <1>1 DEF Comprobado, ResponsableComprobado
<1>2. ASSUME NEW q \in Procs
      PROVE  EscrituraComprobada(q)'
  BY <1>2 DEF Comprobado, EscrituraComprobada, TrasResponsable
<1>3. \A q \in Procs : Turno(q)' => Turno(q) /\ pet'[q] = pet[q]
  BY DEF Turno, TrasResponsable
<1>4. ASSUME NEW q \in Procs, Turno(q)'
      PROVE  Fila(q)' = Fila(q) /\ Turno(q) /\ pet'[q] = pet[q]
  <2>1. Turno(q) /\ pet'[q] = pet[q] /\ pet[q].op \in OpsTurno
    BY <1>3, <1>4 DEF Turno
  <2> QED
    BY <2>1 DEF Fila
<1>5. ASSUME NEW q \in Procs
      PROVE  TurnoCompatible(q)'
  <2> SUFFICES ASSUME Turno(q)'
               PROVE  /\ \A d \in Citas \ {pet'[q].cita} : ~Incompatibles(cita[d], Fila(q)')
                      /\ \A o \in Procs \ {q} : Turno(o)' => ~Incompatibles(Fila(o)', Fila(q)')
    BY DEF TurnoCompatible, Incompatibles, Chocan, Agendada
  <2> QED
    BY <1>4 DEF Comprobado, TurnoCompatible
<1> QED
  BY <1>1, <1>2, <1>5 DEF Comprobado

(* A row that passes the constraint check fits all the others.              *)
LEMMA VerificarComprueba ==
  ASSUME Inv, NEW p \in Procs, pc[p] = "escrito", pet[p].op \in OpsTurno,
         ~Violada(p), Bloqueantes(p) = {}
  PROVE  /\ \A d \in Citas \ {pet[p].cita} : ~Incompatibles(cita[d], Fila(p))
         /\ \A q \in Procs \ {p} : Turno(q) => ~Incompatibles(Fila(q), Fila(p))
<1>1. ASSUME NEW q \in Procs \ {p}, EnVuelo(q)
      PROVE  /\ ~Incompatibles(cita[pet[q].cita], Fila(p))
             /\ ~Incompatibles(Fila(q), Fila(p))
  BY <1>1 DEF Bloqueantes
<1>2. ASSUME NEW d \in Citas \ {pet[p].cita}
      PROVE  ~Incompatibles(cita[d], Fila(p))
  BY <1>1, <1>2 DEF Violada
<1>3. ASSUME NEW q \in Procs \ {p}, Turno(q)
      PROVE  EnVuelo(q)
  BY <1>3 DEF Turno, EnVuelo, OpsAgenda, OpsCita, OpsTurno
<1> QED
  BY <1>1, <1>2, <1>3

LEMMA LecturaComprobado ==
  ASSUME Inv, Comprobado, NEW p \in Procs, Lectura(p)
  PROVE  Comprobado'
<1>1. /\ pc[p] \in {"alcance", "previo", "responsable", "conLead", "escrito"}
      /\ pet' = pet /\ ant' = ant /\ asig' = asig /\ cita' = cita
      /\ pc'[p] = Sigue(pet[p].op, pc[p])
      /\ \A q \in Procs \ {p} : pc'[q] = pc[q]
  BY LecturaEfecto DEF Lectura, ledger
<1>2. pet[p].op \in Ops /\ Ruta(p)
  BY <1>1, PetTipo, ProgramaPartes DEF Inv
<1>3. CASE pc[p] \in {"alcance", "previo"}
  <2>1. pc'[p] \notin TrasResponsable \/ (pet[p].op \notin OpsTurno /\ pc'[p] \notin {"escrito", "listo"})
    BY <1>1, <1>2, <1>3, SigueValores, Operaciones DEF TrasResponsable
  <2> QED
    BY <1>1, <2>1, PasoNeutro
<1>4. CASE pc[p] = "responsable"
  <2>1. pc'[p] \in {"pideLead", "pideCita"}
    BY <1>1, <1>2, <1>4, SigueValores
  <2>2. ResponsableComprobado(p)'
    BY <1>1, <1>4 DEF Lectura, ResponsableComprobado
  <2>3. ASSUME NEW q \in Procs
        PROVE  ResponsableComprobado(q)' /\ EscrituraComprobada(q)'
    BY <1>1, <2>1, <2>2 DEF Comprobado, ResponsableComprobado, EscrituraComprobada
  <2>4. ASSUME NEW q \in Procs
        PROVE  (Turno(q)' <=> Turno(q)) /\ Fila(q)' = Fila(q)
    BY <1>1, <1>4, <2>1 DEF Turno, Fila
  <2>5. ASSUME NEW q \in Procs
        PROVE  TurnoCompatible(q)'
    BY <1>1, <2>4 DEF Comprobado, TurnoCompatible, Incompatibles, Chocan, Agendada
  <2> QED
    BY <2>3, <2>5 DEF Comprobado
<1>5. CASE pc[p] \in {"conLead", "escrito"}
  <2>1. pc'[p] \in {"escrito", "listo"} /\ pc[p] \in TrasResponsable
        /\ (pet[p].op \in OpsTurno /\ pc'[p] = "listo" => pc[p] = "escrito")
    BY <1>1, <1>2, <1>5, SigueValores DEF TrasResponsable
  <2>2. EscrituraComprobada(p)'
    <3>1. CASE pc[p] = "conLead"
      <4>1. PuedeEscribirFila(p)
        BY <3>1 DEF Lectura
      <4> QED
        BY <1>1, <4>1 DEF PuedeEscribirFila, EscrituraComprobada
    <3>2. CASE pc[p] = "escrito"
      BY <1>1, <3>2 DEF Comprobado, EscrituraComprobada
    <3> QED
      BY <1>5, <3>1, <3>2
  <2>3. ASSUME NEW q \in Procs
        PROVE  ResponsableComprobado(q)' /\ EscrituraComprobada(q)'
    BY <1>1, <2>1, <2>2 DEF Comprobado, ResponsableComprobado, EscrituraComprobada
  <2>4. ASSUME NEW q \in Procs
        PROVE  Fila(q)' = Fila(q) /\ (q # p => (Turno(q)' <=> Turno(q)))
    BY <1>1 DEF Turno, Fila
  <2>5. ASSUME Turno(p)'
        PROVE  /\ \A d \in Citas \ {pet[p].cita} : ~Incompatibles(cita[d], Fila(p))
               /\ \A q \in Procs \ {p} : Turno(q) => ~Incompatibles(Fila(q), Fila(p))
    <3>1. pc[p] = "escrito" /\ pet[p].op \in OpsTurno
      BY <1>1, <2>1, <2>5 DEF Turno
    <3> QED
      BY <3>1, VerificarComprueba DEF Lectura
  <2>6. ASSUME NEW q \in Procs, Turno(q)'
        PROVE  /\ \A d \in Citas \ {pet[q].cita} : ~Incompatibles(cita[d], Fila(q))
               /\ \A o \in Procs \ {q} : Turno(o)' => ~Incompatibles(Fila(o), Fila(q))
    <3>1. CASE q = p
      BY <2>4, <2>5, <2>6, <3>1
    <3>2. CASE q # p
      <4>1. Turno(q)
        BY <2>4, <2>6, <3>2
      <4>2. Turno(p)' => ~Incompatibles(Fila(p), Fila(q))
        BY <2>5, <4>1, <3>2, IncompatiblesSimetrico
      <4> QED
        BY <2>4, <4>1, <4>2 DEF Comprobado, TurnoCompatible
    <3> QED
      BY <3>1, <3>2
  <2>7. ASSUME NEW q \in Procs
        PROVE  TurnoCompatible(q)'
    <3> SUFFICES ASSUME Turno(q)'
                 PROVE  /\ \A d \in Citas \ {pet'[q].cita} : ~Incompatibles(cita[d], Fila(q)')
                        /\ \A o \in Procs \ {q} : Turno(o)' => ~Incompatibles(Fila(o)', Fila(q)')
      BY <1>1 DEF TurnoCompatible, Incompatibles, Chocan, Agendada
    <3> QED
      BY <1>1, <2>4, <2>6
  <2> QED
    BY <2>3, <2>7 DEF Comprobado
<1> QED
  BY <1>1, <1>3, <1>4, <1>5

(* What the commit of p does to the checks the others passed: nothing.      *)
LEMMA CommitComprobado ==
  ASSUME Inv, Comprobado, NEW p \in Procs, Commit(p)
  PROVE  Comprobado'
<1>1. pc[p] = "listo" /\ Terminar(p) /\ EnTransaccion(p)
  BY DEF Commit, EnTransaccion
<1>2. /\ pc'[p] = "libre"
      /\ \A q \in Procs \ {p} : pc'[q] = pc[q] /\ pet'[q] = pet[q] /\ ant'[q] = ant[q]
  BY <1>1, TerminarAjenos
<1>3. /\ \A l \in Leads : asig[l] \subseteq asig'[l]
      /\ \A l \in Leads \ {pet[p].lead} : asig'[l] = asig[l]
  BY CommitAsig
<1>4. ResponsableComprobado(p)' /\ EscrituraComprobada(p)' /\ TurnoCompatible(p)'
  BY <1>2 DEF ResponsableComprobado, EscrituraComprobada, TurnoCompatible, Turno, TrasResponsable
<1>5. ASSUME NEW q \in Procs \ {p}
      PROVE  ResponsableComprobado(q)'
  <2> SUFFICES ASSUME pc[q] \in TrasResponsable, pet[q].op \in OpsTurno
               PROVE  ResponsableValido(pet[q].usr, pet[q].asesor, asig'[pet[q].lead])
    BY <1>2 DEF ResponsableComprobado
  <2>1. pet[q].lead \in Leads
    BY PetTipo DEF Inv, TrasResponsable
  <2> QED
    BY <1>3, <2>1, CarteraCrece DEF Comprobado, ResponsableComprobado
<1>6. ASSUME NEW q \in Procs \ {p}
      PROVE  EscrituraComprobada(q)'
  <2> SUFFICES ASSUME pc[q] \in {"escrito", "listo"}
               PROVE  asig'[pet[q].lead] = asig[pet[q].lead]
    BY <1>2 DEF Comprobado, EscrituraComprobada
  <2>1. pet[q].lead \in Leads \ {pet[p].lead}
    BY <1>1, ExclusionMutua, PetTipo DEF Inv, EnTransaccion
  <2> QED
    BY <1>3, <2>1
<1>7. ASSUME NEW q \in Procs \ {p}, Turno(q)
      PROVE  \A d \in Citas \ {pet[q].cita} : ~Incompatibles(cita'[d], Fila(q))
  <2>1. \A d \in Citas \ {pet[q].cita} : ~Incompatibles(cita[d], Fila(q))
    BY <1>7 DEF Comprobado, TurnoCompatible
  <2>2. CASE pet[p].op \notin OpsAgenda
    BY <2>1, <2>2, CommitCita
  <2>3. CASE pet[p].op \in OpsAgenda
    <3>1. \A d \in Citas : cita'[d] = IF d = pet[p].cita THEN Fila(p) ELSE cita[d]
      BY <2>3, CommitCita, TiposDeTablas DEF Inv, TablasOK
    <3>2. ~Incompatibles(Fila(p), Fila(q))
      <4>1. CASE pet[p].op \in OpsTurno
        BY <1>1, <1>7, <4>1 DEF Turno, Comprobado, TurnoCompatible
      <4>2. CASE pet[p].op \in OpsCierre
        BY <1>1, <2>3, <4>2, FilaTipo DEF Incompatibles, Chocan, Agendada
      <4> QED
        BY <2>3, <4>1, <4>2 DEF OpsAgenda, OpsCita, OpsTurno
    <3> QED
      BY <2>1, <3>1, <3>2
  <2> QED
    BY <2>2, <2>3
<1>8. ASSUME NEW q \in Procs, Turno(q)'
      PROVE  q # p /\ Turno(q) /\ Fila(q)' = Fila(q) /\ pet'[q] = pet[q]
  <2>1. q # p /\ Turno(q) /\ pet'[q] = pet[q]
    BY <1>2, <1>8 DEF Turno
  <2> QED
    BY <2>1 DEF Turno, Fila
<1>9. ASSUME NEW q \in Procs \ {p}
      PROVE  TurnoCompatible(q)'
  <2> SUFFICES ASSUME Turno(q)'
               PROVE  /\ \A d \in Citas \ {pet'[q].cita} : ~Incompatibles(cita'[d], Fila(q)')
                      /\ \A o \in Procs \ {q} : Turno(o)' => ~Incompatibles(Fila(o)', Fila(q)')
    BY DEF TurnoCompatible, Incompatibles, Chocan, Agendada
  <2> QED
    BY <1>7, <1>8 DEF Comprobado, TurnoCompatible
<1> QED
  BY <1>4, <1>5, <1>6, <1>9 DEF Comprobado

LEMMA NextComprobado ==
  ASSUME Inv, Comprobado, Next
  PROVE  Comprobado'
<1>1. ASSUME NEW p \in Procs, NEW r \in Peticiones, Pedir(p, r)
      PROVE  Comprobado'
  <2>1. /\ pc' = [pc EXCEPT ![p] = Sigue(r.op, "libre")] /\ pet' = [pet EXCEPT ![p] = r]
        /\ r.op \in Ops /\ asig' = asig /\ cita' = cita /\ ant' = ant
    BY <1>1, PeticionesAssumption DEF Pedir, ledger, Peticion
  <2>2. /\ pc'[p] = Sigue(r.op, "libre") /\ pet'[p] = r
        /\ \A q \in Procs \ {p} : pc'[q] = pc[q] /\ pet'[q] = pet[q]
    BY <2>1 DEF Inv, TypeOK
  <2>3. pc'[p] \notin TrasResponsable \/ (pc'[p] = "pideLead" /\ r.op = "asignar")
    BY <2>1, <2>2, SigueValores DEF TrasResponsable
  <2>4. ResponsableComprobado(p)' /\ EscrituraComprobada(p)' /\ ~Turno(p)'
    <3>1. pc'[p] \notin {"escrito", "listo"} /\ (pc'[p] \in TrasResponsable => r.op \notin OpsTurno)
      BY <2>3, Operaciones DEF TrasResponsable
    <3> QED
      BY <2>2, <3>1 DEF ResponsableComprobado, EscrituraComprobada, Turno
  <2>5. ASSUME NEW q \in Procs \ {p}
        PROVE  ResponsableComprobado(q)' /\ EscrituraComprobada(q)'
    BY <2>1, <2>2 DEF Comprobado, ResponsableComprobado, EscrituraComprobada
  <2>6. ASSUME NEW q \in Procs, Turno(q)'
        PROVE  q # p /\ Turno(q) /\ Fila(q)' = Fila(q) /\ pet'[q] = pet[q]
    BY <2>1, <2>2, <2>4, <2>6 DEF Turno, Fila
  <2>7. ASSUME NEW q \in Procs
        PROVE  TurnoCompatible(q)'
    <3> SUFFICES ASSUME Turno(q)'
                 PROVE  /\ \A d \in Citas \ {pet'[q].cita} : ~Incompatibles(cita'[d], Fila(q)')
                        /\ \A o \in Procs \ {q} : Turno(o)' => ~Incompatibles(Fila(o)', Fila(q)')
      BY DEF TurnoCompatible, Incompatibles, Chocan, Agendada
    <3> QED
      BY <2>1, <2>6 DEF Comprobado, TurnoCompatible
  <2> QED
    BY <2>4, <2>5, <2>7 DEF Comprobado
<1>2. ASSUME NEW p \in Procs, Lectura(p)
      PROVE  Comprobado'
  BY <1>2, LecturaComprobado
<1>3. ASSUME NEW p \in Procs, TomaCita(p) \/ BloquearLead(p)
      PROVE  Comprobado'
  <2>1. /\ pet' = pet /\ asig' = asig /\ cita' = cita /\ pc[p] \in {"pideCita", "pideLead"}
        /\ Avanza(p) /\ \A q \in Procs \ {p} : ant'[q] = ant[q]
    BY <1>3 DEF TomaCita, BloquearLead, ledger, Inv, TypeOK
  <2>2. pc'[p] \in {"pideLead", "conLead"} /\ \A q \in Procs \ {p} : pc'[q] = pc[q]
    BY <2>1, AvanzaEfecto, PetTipo, SigueValores DEF Inv
  <2>3. pc[p] \in TrasResponsable
    BY <2>1 DEF TrasResponsable
  <2> QED
    BY <2>1, <2>2, <2>3, PasoNeutro
<1>4. ASSUME NEW p \in Procs, Abortar(p)
      PROVE  Comprobado'
  <2>1. Terminar(p) /\ asig' = asig /\ cita' = cita
    BY <1>4 DEF Abortar, ledger
  <2>2. pc'[p] \notin TrasResponsable
    BY <2>1, TerminarAjenos DEF TrasResponsable
  <2> QED
    BY <2>1, <2>2, TerminarAjenos, PasoNeutro
<1>5. ASSUME NEW a \in Asesores, CambiarDisponibilidad(a)
      PROVE  Comprobado'
  BY <1>5, PasoNeutro DEF CambiarDisponibilidad, ledger
<1> QED
  BY <1>1, <1>2, <1>3, <1>4, <1>5, CommitComprobado, Efectos

(***************************************************************************)
(* Each commit is a step of the ledger.                                    *)
(***************************************************************************)
LEMMA MismasReglas ==
  /\ \A rol, op, meta : L!Autorizado(rol, op, meta) <=> Autorizado(rol, op, meta)
  /\ \A op, meta : L!EstadoDestino(op, meta) = EstadoDestino(op, meta)
  /\ \A op : L!EstadoCitaTras(op) = EstadoCitaTras(op) /\ L!AccionEstado(op) = AccionEstado(op)
  /\ \A u, A : L!EnCartera(u, A) <=> EnCartera(u, A)
  /\ \A u, r, A : L!ResponsableValido(u, r, A) <=> ResponsableValido(u, r, A)
  /\ \A e : L!LeadAdmiteAgenda(e) <=> LeadAdmiteAgenda(e)
  /\ \A r : L!Agendada(r) <=> Agendada(r)
  /\ \A r, s : L!Chocan(r, s) <=> Chocan(r, s)
<1>1. \A rol, op, meta : L!Autorizado(rol, op, meta) <=> Autorizado(rol, op, meta)
  BY DEF Autorizado, EsSuperuser, PuedeEscribir, PuedeMarcarAsistencia, EstadosLead,
         ProhibidosAlRunner, L!Autorizado, L!EsSuperuser, L!PuedeEscribir,
         L!PuedeMarcarAsistencia, L!EstadosLead, L!ProhibidosAlRunner
<1>2. \A op, meta : L!EstadoDestino(op, meta) = EstadoDestino(op, meta)
  BY DEF EstadoDestino, L!EstadoDestino, OpsTurno, L!OpsTurno
<1>3. \A op : L!EstadoCitaTras(op) = EstadoCitaTras(op) /\ L!AccionEstado(op) = AccionEstado(op)
  BY DEF EstadoCitaTras, L!EstadoCitaTras, OpsTurno, L!OpsTurno, AccionEstado, L!AccionEstado
<1>4. \A u, A : L!EnCartera(u, A) <=> EnCartera(u, A)
  BY DEF EnCartera, L!EnCartera, TieneCartera, L!TieneCartera
<1>5. \A u, r, A : L!ResponsableValido(u, r, A) <=> ResponsableValido(u, r, A)
  BY DEF ResponsableValido, L!ResponsableValido
<1>6. \A e : L!LeadAdmiteAgenda(e) <=> LeadAdmiteAgenda(e)
  BY DEF LeadAdmiteAgenda, L!LeadAdmiteAgenda, LeadInactivoParaAgenda, L!LeadInactivoParaAgenda
<1>7. \A r : L!Agendada(r) <=> Agendada(r)
  BY DEF Agendada, L!Agendada
<1>8. \A r, s : L!Chocan(r, s) <=> Chocan(r, s)
  BY DEF Chocan, L!Chocan, Agendada, L!Agendada, SePisan, L!SePisan
<1> QED
  BY <1>1, <1>2, <1>3, <1>4, <1>5, <1>6, <1>7, <1>8

(* The state and its event, given that the lead is still as it was read.    *)
LEMMA EstadoDelLedger ==
  ASSUME Inv, NEW p \in Procs, Commit(p)
  PROVE  L!PonerEstado(pet[p].op, pet[p].usr, pet[p].lead,
                       EstadoDestino(pet[p].op, pet[p].meta))
<1>1. ant[p] = estado[pet[p].lead]
  BY DEF Inv, LecturasVigentes, EnTransaccion, Commit
<1>2. EscribirEstado(pet[p], ant[p])
  BY DEF Commit
<1> QED
  BY <1>1, <1>2, MismasReglas DEF EscribirEstado, L!PonerEstado

(* The meeting and its event, given that it is still as it was read.        *)
LEMMA CitaDelLedger ==
  ASSUME Inv, NEW p \in Procs, Commit(p), pet[p].op \in OpsAgenda
  PROVE  L!PonerCita(pet[p].op, pet[p].usr, pet[p].cita, Fila(p),
                     IF pet[p].op \in OpsTurno THEN pet[p].hor ELSE Nada)
<1> DEFINE r == pet[p]
           f == Fila(p)
           v == vista[p]
<1>1. pc[p] = "listo" /\ EscribirCita(p)
  BY DEF Commit
<1>2. v = cita[r.cita]
  <2>1. CASE r.op \in OpsCita
    BY <1>1, <2>1 DEF Inv, Programa, ConCita, LecturasVigentes
  <2>2. CASE r.op = "agendar"
    <3>1. cita[r.cita] = Nada
      BY <1>1, <2>2 DEF Inv, Programa, ProgramaDe
    <3>2. v = Nada
      BY <2>2, Operaciones DEF Inv, Programa, ConCita
    <3> QED
      BY <3>1, <3>2
  <2> QED
    BY <2>1, <2>2 DEF OpsAgenda
<1>3. f.resp = IF r.op \in OpsTurno THEN r.asesor ELSE v.resp
  <2>1. CASE r.op \in OpsTurno
    BY <2>1, FilaDeTurno
  <2>2. CASE r.op \in OpsCierre
    BY <1>1, <1>2, <2>2, FilaTipo, Operaciones DEF OpsCierre
  <2> QED
    BY <2>1, <2>2 DEF OpsAgenda, OpsCita, OpsTurno
<1> HIDE DEF f, v
<1>4. /\ cita' = [cita EXCEPT ![r.cita] = f]
      /\ histCita' = [histCita EXCEPT ![r.cita] = Append(@,
           [op |-> r.op, por |-> r.usr,
            resp |-> IF r.op \in OpsTurno THEN r.asesor ELSE v.resp,
            de |-> IF v = Nada THEN Nada ELSE v.est, a |-> f.est,
            horDe |-> IF v = Nada THEN Nada ELSE v.hor,
            horA |-> IF r.op \in OpsTurno THEN r.hor ELSE Nada])]
  BY <1>1 DEF EscribirCita, f, v
<1>5. L!PonerCita(r.op, r.usr, r.cita, f, IF r.op \in OpsTurno THEN r.hor ELSE Nada)
  BY <1>2, <1>3, <1>4 DEF L!PonerCita
<1> QED
  BY <1>5 DEF f

LEMMA CommitEsPasoDelLedger ==
  ASSUME Inv, Comprobado, NEW p \in Procs, Commit(p)
  PROVE  L!Next
<1> DEFINE r == pet[p]
<1>1. /\ pc[p] = "listo" /\ r.op \in Ops /\ r.usr \in Usuarios /\ r.lead \in Leads
      /\ (r.op \in OpsAgenda => r.cita \in Citas)
      /\ (r.op \in OpsTurno => r.asesor \in Asesores /\ r.hor \in Horarios)
      /\ (r.op = "asignar" => r.asesor \in Asesores)
      /\ (r.op = "estado" => r.meta \in Manuales)
  BY PetTipo DEF Commit, Inv
<1>2. Autorizado(Rol[r.usr], r.op, r.meta)
  BY <1>1 DEF Inv, Programa, ProgramaDe
<1>3. EscrituraComprobada(p)
  BY DEF Comprobado
<1>4. L!PonerEstado(r.op, r.usr, r.lead, EstadoDestino(r.op, r.meta))
  BY EstadoDelLedger
<1>5. CASE r.op = "estado"
  <2>1. L!CambiarEstado(r.usr, r.lead, r.meta)
    <3>1. UNCHANGED <<asig, cita, histCita>>
      BY <1>5, Operaciones DEF Commit
    <3>2. EstadoDestino(r.op, r.meta) = r.meta
      BY <1>5 DEF EstadoDestino, OpsTurno
    <3> QED
      BY <1>1, <1>2, <1>3, <1>4, <1>5, <3>1, <3>2, MismasReglas
      DEF L!CambiarEstado, EscrituraComprobada
  <2> QED
    BY <1>1, <1>5, <2>1 DEF L!Next
<1>6. CASE r.op = "asignar"
  <2>1. /\ UNCHANGED <<cita, histCita>>
        /\ asig' = [asig EXCEPT ![r.lead] = @ \cup {r.asesor}]
    BY <1>6, Operaciones DEF Commit
  <2>2. RolAsesor[r.asesor] = "asesor" /\ asig[r.lead] = {}
    BY <1>1, <1>3, <1>6 DEF EscrituraComprobada
  <2>3. asig' = [asig EXCEPT ![r.lead] = {r.asesor}]
    BY <1>1, <2>1, <2>2, TiposDeTablas DEF Inv, TablasOK
  <2>4. EstadoDestino(r.op, r.meta) = "asignado" /\ Autorizado(Rol[r.usr], "asignar", Nada)
    BY <1>2, <1>6 DEF EstadoDestino, OpsTurno, Autorizado
  <2>5. L!Asignar(r.usr, r.lead, r.asesor)
    BY <1>4, <1>6, <2>1, <2>2, <2>3, <2>4, MismasReglas DEF L!Asignar
  <2> QED
    BY <1>1, <1>6, <2>5 DEF L!Next
<1>7. CASE r.op \in OpsAgenda
  <2>1. UNCHANGED asig
    BY <1>7, Operaciones DEF Commit
  <2>2. EnCartera(r.usr, asig[r.lead])
    BY <1>1, <1>3, <1>7, Operaciones DEF EscrituraComprobada
  <2>3. Autorizado(Rol[r.usr], r.op, Nada)
    BY <1>2, <1>7, Operaciones DEF Autorizado
  <2>4. L!PonerCita(r.op, r.usr, r.cita, Fila(p), IF r.op \in OpsTurno THEN r.hor ELSE Nada)
    BY <1>7, CitaDelLedger
  <2>5. CASE r.op \in OpsTurno
    <3>1. Fila(p) = [lead |-> r.lead, resp |-> r.asesor, hor |-> r.hor, est |-> "agendada"]
      BY <2>5, FilaDeTurno
    <3>2. EstadoDestino(r.op, r.meta) = "reunion_agendada"
      <4>1. r.op = "agendar" \/ r.op = "reagendar"
        BY <2>5 DEF OpsTurno
      <4>2. \A meta : /\ EstadoDestino("agendar", meta) = "reunion_agendada"
                      /\ EstadoDestino("reagendar", meta) = "reunion_agendada"
        BY DEF EstadoDestino, OpsTurno
      <4> QED
        BY <4>1, <4>2
    <3>3. ResponsableValido(r.usr, r.asesor, asig[r.lead])
      BY <1>1, <2>5 DEF Comprobado, ResponsableComprobado, TrasResponsable
    <3>4. LeadAdmiteAgenda(estado[r.lead])
      <4>1. ant[p] = estado[r.lead]
        BY <1>1 DEF Inv, LecturasVigentes, EnTransaccion
      <4> QED
        BY <1>1, <1>3, <2>5, <4>1, Operaciones DEF EscrituraComprobada
    <3>5. \A d \in Citas \ {r.cita} : ~Incompatibles(cita[d], Fila(p))
      BY <1>1, <2>5 DEF Comprobado, TurnoCompatible, Turno
    <3>6. L!SinChoque(r.cita, Fila(p))
      BY <3>5, MismasReglas DEF L!SinChoque, Incompatibles
    <3>7. CASE r.op = "agendar"
      <4>1. cita[r.cita] = Nada
        BY <1>1, <3>7 DEF Inv, Programa, ProgramaDe
      <4>2. Fila(p).lead = r.lead /\ Agendada(Fila(p))
        BY <1>1, <1>7, <3>1, FilaTipo, NadaAssumption DEF Agendada
      <4>3. L!LeadSinAgendada(r.lead)
        BY <3>5, <4>1, <4>2, MismasReglas DEF L!LeadSinAgendada, Incompatibles, Agendada
      <4>4. L!Agendar(r.usr, r.lead, r.cita, r.asesor, r.hor)
        BY <1>4, <2>1, <2>2, <2>3, <2>4, <2>5, <3>1, <3>2, <3>3, <3>4, <3>6, <3>7, <4>1, <4>3,
           MismasReglas DEF L!Agendar
      <4> QED
        BY <1>1, <1>7, <2>5, <4>4 DEF L!Next
    <3>8. CASE r.op = "reagendar"
      <4>1. Agendada(cita[r.cita]) /\ cita[r.cita].lead = r.lead
        BY <1>1, <3>8, Operaciones DEF Inv, Programa, ProgramaDe, ConCita, LecturasVigentes
      <4>2. L!Reagendar(r.usr, r.lead, r.cita, r.asesor, r.hor)
        BY <1>4, <2>1, <2>2, <2>3, <2>4, <2>5, <3>1, <3>2, <3>3, <3>4, <3>6, <3>8, <4>1,
           MismasReglas DEF L!Reagendar
      <4> QED
        BY <1>1, <1>7, <2>5, <4>2 DEF L!Next
    <3> QED
      BY <2>5, <3>7, <3>8 DEF OpsTurno
  <2>6. CASE r.op \in OpsCierre
    <3>1. r.op \notin OpsTurno /\ r.op \in OpsCita
      BY <2>6, Operaciones DEF OpsCierre
    <3>2. Fila(p) = [cita[r.cita] EXCEPT !.est = EstadoCitaTras(r.op)]
      BY <1>1, <1>7, <2>6, FilaTipo
    <3>3. EstadoDestino(r.op, r.meta) = EstadoDestino(r.op, Nada)
      BY <2>6 DEF EstadoDestino, OpsCierre
    <3>4. Agendada(cita[r.cita]) /\ cita[r.cita].lead = r.lead
      BY <1>1, <3>1 DEF Inv, Programa, ProgramaDe, ConCita, LecturasVigentes
    <3>5. L!Cerrar(r.op, r.usr, r.lead, r.cita)
      BY <1>4, <2>1, <2>2, <2>3, <2>4, <3>1, <3>2, <3>3, <3>4, MismasReglas DEF L!Cerrar
    <3> QED
      BY <1>1, <1>7, <2>6, <3>5, MismoVocabulario DEF L!Next
  <2> QED
    BY <1>7, <2>5, <2>6 DEF OpsAgenda, OpsCita, OpsTurno
<1> QED
  BY <1>1, <1>5, <1>6, <1>7 DEF Ops

LEMMA PasoImplementa ==
  ASSUME Inv, Comprobado, [Next]_vars
  PROVE  [L!Next]_(L!ledger)
<1>1. CASE UNCHANGED ledger
  BY <1>1 DEF L!ledger, ledger
<1>2. CASE \E p \in Procs : Commit(p)
  BY <1>2, CommitEsPasoDelLedger
<1>3. Next => (\E p \in Procs : Commit(p)) \/ UNCHANGED ledger
  BY Efectos DEF Pedir, Lectura, TomaCita, BloquearLead, Abortar, CambiarDisponibilidad
<1> QED
  BY <1>1, <1>2, <1>3 DEF vars

(* The concurrent transactions implement the ledger: what the database      *)
(* holds is, for any interleaving, crash and deadlock, what some sequence   *)
(* of whole operations, each with all its checks, would have left.          *)
THEOREM Refinamiento == Spec => ImplementaLedger
<1>1. Init => Inv /\ Comprobado /\ L!Init
  BY InitInv, InitComprobado DEF Init
<1>2. (Inv /\ Comprobado) /\ [Next]_vars => (Inv /\ Comprobado)'
  <2>1. ASSUME Inv, Comprobado, UNCHANGED vars
        PROVE  Comprobado'
    BY <2>1, PasoNeutro DEF vars, ledger, TrasResponsable, Comprobado, ResponsableComprobado,
       EscrituraComprobada, TurnoCompatible, Turno, Fila, Incompatibles, Chocan, Agendada
  <2> QED
    BY <2>1, NextInv, NextComprobado
<1>3. Inv /\ Comprobado /\ [Next]_vars => [L!Next]_(L!ledger)
  BY PasoImplementa
<1> QED
  BY <1>1, <1>2, <1>3, PTL DEF Spec, ImplementaLedger, L!Spec
=============================================================================
