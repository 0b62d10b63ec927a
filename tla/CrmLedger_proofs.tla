-------------------------- MODULE CrmLedger_proofs --------------------------
(***************************************************************************)
(* Theorems about the ledger, for any population of the CRM, and about its *)
(* readers (TableroEjecutivo), whatever is written under them.             *)
(***************************************************************************)
EXTENDS TableroEjecutivo, FiniteSetTheorems, TLAPS

(* The rows the agenda operations write.                                    *)
LEMMA FilaNuevaTipo ==
  ASSUME NEW l \in Leads, NEW r \in Asesores, NEW h \in Horarios
  PROVE  [lead |-> l, resp |-> r, hor |-> h, est |-> "agendada"] \in Cita
BY DEF Cita, EstadosCita

LEMMA FilaCerradaTipo ==
  ASSUME NEW f \in Cita, NEW op \in OpsCierre
  PROVE  /\ [f EXCEPT !.est = EstadoCitaTras(op)] \in Cita
         /\ [f EXCEPT !.est = EstadoCitaTras(op)].est \in EstadosCita \ {"agendada"}
         /\ [f EXCEPT !.est = EstadoCitaTras(op)].lead = f.lead
         /\ [f EXCEPT !.est = EstadoCitaTras(op)].resp = f.resp
         /\ [f EXCEPT !.est = EstadoCitaTras(op)].hor = f.hor
BY DEF Cita, EstadosCita, EstadoCitaTras, OpsCierre, OpsTurno

(* Appending to a sequence of events: what is kept and what is new.         *)
LEMMA AppendEvento ==
  ASSUME NEW S, NEW s \in Seq(S), NEW e \in S
  PROVE  /\ Append(s, e) \in Seq(S)
         /\ Len(Append(s, e)) = Len(s) + 1
         /\ Len(s) \in Nat
         /\ \A i \in 1 .. Len(s) : Append(s, e)[i] = s[i]
         /\ Append(s, e)[Len(s) + 1] = e
         /\ Append(s, e) # <<>>
         /\ s = <<>> <=> Len(s) = 0
OBVIOUS

(***************************************************************************)
(* The two writes, taken apart once: what any action does to a lead and to *)
(* a meeting.                                                              *)
(***************************************************************************)
EscribeEstado(op, u, l, e) ==
  /\ op \in Ops /\ u \in Usuarios /\ l \in Leads /\ e \in EstadosLead
  /\ PonerEstado(op, u, l, e)

EscribeCita(op, u, c, fila, horA) ==
  /\ op \in OpsAgenda /\ u \in Usuarios /\ c \in Citas /\ fila \in Cita
  /\ horA \in Horarios \cup {Nada}
  /\ PonerCita(op, u, c, fila, horA)

LEMMA EstadoDestinoTipo ==
  ASSUME NEW op \in OpsAgenda
  PROVE  EstadoDestino(op, Nada) \in EstadosLead
BY DEF EstadoDestino, EstadosLead, OpsAgenda, OpsCita, OpsCierre, OpsTurno

LEMMA PonerEstadoTipo ==
  ASSUME TypeOK, NEW op, NEW u, NEW l, NEW e, EscribeEstado(op, u, l, e)
  PROVE  /\ estado' \in [Leads -> EstadosLead]
         /\ histEstado' \in [Leads -> Seq(EventoEstado)]
<1> DEFINE ev == [accion |-> AccionEstado(op), por |-> u, de |-> estado[l], a |-> e]
<1>1. CASE UNCHANGED <<estado, histEstado>>
  BY <1>1 DEF TypeOK
<1>2. CASE /\ estado' = [estado EXCEPT ![l] = e]
           /\ histEstado' = [histEstado EXCEPT ![l] = Append(@, ev)]
  <2>1. ev \in EventoEstado
    BY DEF EscribeEstado, TypeOK, EventoEstado, AccionEstado
  <2>2. Append(histEstado[l], ev) \in Seq(EventoEstado)
    BY <2>1, AppendEvento DEF EscribeEstado, TypeOK
  <2> QED
    BY <1>2, <2>2 DEF EscribeEstado, TypeOK
<1> QED
  BY <1>1, <1>2 DEF EscribeEstado, PonerEstado

LEMMA PonerCitaTipo ==
  ASSUME TypeOK, NEW op, NEW u, NEW c, NEW fila, NEW horA, EscribeCita(op, u, c, fila, horA)
  PROVE  /\ cita' \in [Citas -> Cita \cup {Nada}]
         /\ histCita' \in [Citas -> Seq(EventoCita)]
<1> DEFINE ev == [op |-> op, por |-> u, resp |-> fila.resp,
                  de |-> IF cita[c] = Nada THEN Nada ELSE cita[c].est, a |-> fila.est,
                  horDe |-> IF cita[c] = Nada THEN Nada ELSE cita[c].hor, horA |-> horA]
<1>1. ev \in EventoCita
  BY DEF EscribeCita, TypeOK, EventoCita, Cita
<1>2. Append(histCita[c], ev) \in Seq(EventoCita)
  BY <1>1, AppendEvento DEF EscribeCita, TypeOK
<1> QED
  BY <1>2 DEF EscribeCita, PonerCita, TypeOK

(* Every step of the ledger is a stutter or one of these writes.            *)
LEMMA PasoEscribe ==
  ASSUME TypeOK, Next
  PROVE  \E op \in Ops, u \in Usuarios, l \in Leads, e \in EstadosLead :
           /\ EscribeEstado(op, u, l, e)
           /\ \/ op \notin OpsAgenda /\ UNCHANGED <<cita, histCita>>
              \/ \E c \in Citas, fila \in Cita, horA \in Horarios \cup {Nada} :
                   EscribeCita(op, u, c, fila, horA)
<1> USE DatosAssumption
<1>1. ASSUME NEW u \in Usuarios, NEW l \in Leads, NEW e \in Manuales, CambiarEstado(u, l, e)
      PROVE  EscribeEstado("estado", u, l, e) /\ UNCHANGED <<cita, histCita>>
             /\ "estado" \in Ops \ OpsAgenda /\ e \in EstadosLead
  BY <1>1 DEF CambiarEstado, EscribeEstado, Ops, OpsAgenda, OpsCita, OpsCierre
<1>2. ASSUME NEW u \in Usuarios, NEW l \in Leads, NEW a \in Asesores, Asignar(u, l, a)
      PROVE  EscribeEstado("asignar", u, l, "asignado") /\ UNCHANGED <<cita, histCita>>
             /\ "asignar" \in Ops \ OpsAgenda /\ "asignado" \in EstadosLead
  BY <1>2 DEF Asignar, EscribeEstado, Ops, OpsAgenda, OpsCita, OpsCierre, EstadosLead
<1>3. ASSUME NEW u \in Usuarios, NEW l \in Leads, NEW c \in Citas, NEW r \in Asesores,
             NEW h \in Horarios, Agendar(u, l, c, r, h) \/ Reagendar(u, l, c, r, h)
      PROVE  \E op \in OpsAgenda, fila \in Cita :
                EscribeEstado(op, u, l, "reunion_agendada") /\ EscribeCita(op, u, c, fila, h)
  <2> DEFINE fila == [lead |-> l, resp |-> r, hor |-> h, est |-> "agendada"]
  <2>1. fila \in Cita
    BY FilaNuevaTipo
  <2>2. "agendar" \in OpsAgenda /\ "reagendar" \in OpsAgenda /\ OpsAgenda \subseteq Ops
        /\ "reunion_agendada" \in EstadosLead
    BY DEF OpsAgenda, OpsCita, Ops, EstadosLead
  <2>3. CASE Agendar(u, l, c, r, h)
    BY <2>1, <2>2, <2>3 DEF Agendar, EscribeEstado, EscribeCita
  <2>4. CASE Reagendar(u, l, c, r, h)
    BY <2>1, <2>2, <2>4 DEF Reagendar, EscribeEstado, EscribeCita
  <2> QED
    BY <1>3, <2>3, <2>4
<1>4. ASSUME NEW u \in Usuarios, NEW l \in Leads, NEW c \in Citas, NEW op \in OpsCierre,
             Cerrar(op, u, l, c)
      PROVE  \E fila \in Cita, e \in EstadosLead :
                /\ op \in OpsAgenda
                /\ EscribeEstado(op, u, l, e) /\ EscribeCita(op, u, c, fila, Nada)
  <2>1. op \in OpsAgenda /\ op \in Ops /\ EstadoDestino(op, Nada) \in EstadosLead
    BY EstadoDestinoTipo DEF OpsAgenda, OpsCita, Ops
  <2>2. cita[c] \in Cita
    BY <1>4 DEF Cerrar, Agendada, TypeOK
  <2>3. [cita[c] EXCEPT !.est = EstadoCitaTras(op)] \in Cita
    BY <2>2, FilaCerradaTipo
  <2> QED
    BY <1>4, <2>1, <2>3 DEF Cerrar, EscribeEstado, EscribeCita
<1>5. OpsAgenda \subseteq Ops /\ "reunion_agendada" \in EstadosLead
  BY DEF Ops, EstadosLead
<1> QED
  BY <1>1, <1>2, <1>3, <1>4, <1>5 DEF Next

(***************************************************************************)
(* Type correctness.                                                       *)
(***************************************************************************)
LEMMA InitTypeOK == Init => TypeOK
<1>1. Init => "nuevo" \in EstadosLead
  BY DEF EstadosLead
<1> QED
  BY <1>1 DEF Init, TypeOK

LEMMA AsigTipo ==
  ASSUME TypeOK, Next
  PROVE  asig' \in [Leads -> SUBSET Asesores]
<1>1. ASSUME NEW u \in Usuarios, NEW l \in Leads, NEW a \in Asesores, Asignar(u, l, a)
      PROVE  asig' \in [Leads -> SUBSET Asesores]
  BY <1>1 DEF Asignar, TypeOK
<1>2. ASSUME NEW u \in Usuarios, NEW l \in Leads,
             \/ \E e \in Manuales : CambiarEstado(u, l, e)
             \/ \E c \in Citas :
                  \/ \E r \in Asesores, h \in Horarios :
                       Agendar(u, l, c, r, h) \/ Reagendar(u, l, c, r, h)
                  \/ \E op \in OpsCierre : Cerrar(op, u, l, c)
      PROVE  UNCHANGED asig
  BY <1>2 DEF CambiarEstado, Agendar, Reagendar, Cerrar
<1> QED
  BY <1>1, <1>2 DEF Next, TypeOK

LEMMA NextTypeOK ==
  ASSUME TypeOK, [Next]_ledger
  PROVE  TypeOK'
<1>1. CASE UNCHANGED ledger
  BY <1>1 DEF TypeOK, ledger
<1>2. CASE Next
  <2>1. PICK op \in Ops, u \in Usuarios, l \in Leads, e \in EstadosLead :
           /\ EscribeEstado(op, u, l, e)
           /\ \/ op \notin OpsAgenda /\ UNCHANGED <<cita, histCita>>
              \/ \E c \in Citas, fila \in Cita, horA \in Horarios \cup {Nada} :
                   EscribeCita(op, u, c, fila, horA)
    BY <1>2, PasoEscribe
  <2>2. estado' \in [Leads -> EstadosLead] /\ histEstado' \in [Leads -> Seq(EventoEstado)]
    BY <2>1, PonerEstadoTipo
  <2>3. cita' \in [Citas -> Cita \cup {Nada}] /\ histCita' \in [Citas -> Seq(EventoCita)]
    <3>1. CASE UNCHANGED <<cita, histCita>>
      BY <3>1 DEF TypeOK
    <3>2. CASE \E c \in Citas, fila \in Cita, horA \in Horarios \cup {Nada} :
                 EscribeCita(op, u, c, fila, horA)
      BY <3>2, PonerCitaTipo
    <3> QED
      BY <2>1, <3>1, <3>2
  <2> QED
    BY <1>2, <2>2, <2>3, AsigTipo DEF TypeOK
<1> QED
  BY <1>1, <1>2

(* Every row, assignment and audit event of every reachable database has    *)
(* its shape, whatever the population.                                      *)
THEOREM LedgerTipos == Spec => []TypeOK
<1>1. Init => TypeOK
  BY InitTypeOK
<1>2. TypeOK /\ [Next]_ledger => TypeOK'
  BY NextTypeOK
<1> QED
  BY <1>1, <1>2, PTL DEF Spec

(***************************************************************************)
(* The agenda: what a step does to the meetings, and the two exclusions.   *)
(***************************************************************************)
LEMMA ChocanSimetrico ==
  ASSUME NEW r, NEW s
  PROVE  Chocan(r, s) <=> Chocan(s, r)
BY DEF Chocan, SePisan

(* A row that replaces that of c, keeps its lead and, when booked, neither  *)
(* overlaps nor doubles another.                                            *)
Reemplaza(c, fila) ==
  /\ cita' = [cita EXCEPT ![c] = fila]
  /\ cita[c] # Nada => fila.lead = cita[c].lead /\ Agendada(cita[c])
  /\ Agendada(fila) => /\ SinChoque(c, fila)
                       /\ \A d \in Citas :
                            Agendada(cita[d]) /\ cita[d].lead = fila.lead => d = c

LEMMA PasoCita ==
  ASSUME TypeOK, UnaAgendadaPorLead, Next
  PROVE  UNCHANGED cita \/ \E c \in Citas, fila \in Cita : Reemplaza(c, fila)
<1>1. ASSUME NEW u \in Usuarios, NEW l \in Leads,
             \/ \E e \in Manuales : CambiarEstado(u, l, e)
             \/ \E a \in Asesores : Asignar(u, l, a)
      PROVE  UNCHANGED cita
  BY <1>1 DEF CambiarEstado, Asignar
<1>2. ASSUME NEW u \in Usuarios, NEW l \in Leads, NEW c \in Citas, NEW r \in Asesores,
             NEW h \in Horarios, Agendar(u, l, c, r, h)
      PROVE  \E fila \in Cita : Reemplaza(c, fila)
  <2> DEFINE fila == [lead |-> l, resp |-> r, hor |-> h, est |-> "agendada"]
  <2>1. fila \in Cita /\ fila.lead = l
    BY FilaNuevaTipo
  <2>2. Reemplaza(c, fila)
    BY <1>2, <2>1 DEF Agendar, PonerCita, LeadSinAgendada, Reemplaza
  <2> QED
    BY <2>1, <2>2
<1>3. ASSUME NEW u \in Usuarios, NEW l \in Leads, NEW c \in Citas, NEW r \in Asesores,
             NEW h \in Horarios, Reagendar(u, l, c, r, h)
      PROVE  \E fila \in Cita : Reemplaza(c, fila)
  <2> DEFINE fila == [lead |-> l, resp |-> r, hor |-> h, est |-> "agendada"]
  <2>1. fila \in Cita /\ fila.lead = l
    BY FilaNuevaTipo
  <2>2. Agendada(cita[c]) /\ cita[c].lead = l /\ SinChoque(c, fila)
        /\ cita' = [cita EXCEPT ![c] = fila]
    BY <1>3 DEF Reagendar, PonerCita
  <2>3. \A d \in Citas : Agendada(cita[d]) /\ cita[d].lead = fila.lead => d = c
    BY <2>1, <2>2 DEF UnaAgendadaPorLead
  <2> QED
    BY <2>1, <2>2, <2>3 DEF Reemplaza
<1>4. ASSUME NEW u \in Usuarios, NEW l \in Leads, NEW c \in Citas, NEW op \in OpsCierre,
             Cerrar(op, u, l, c)
      PROVE  \E fila \in Cita : Reemplaza(c, fila)
  <2> DEFINE fila == [cita[c] EXCEPT !.est = EstadoCitaTras(op)]
  <2>1. cita[c] \in Cita /\ Agendada(cita[c]) /\ cita' = [cita EXCEPT ![c] = fila]
    BY <1>4 DEF Cerrar, PonerCita, Agendada, TypeOK
  <2>2. fila \in Cita /\ fila.lead = cita[c].lead /\ fila.est # "agendada"
    BY <2>1, FilaCerradaTipo
  <2>3. Reemplaza(c, fila)
    BY <2>1, <2>2 DEF Reemplaza, Agendada
  <2> QED
    BY <2>2, <2>3
<1> QED
  BY <1>1, <1>2, <1>3, <1>4 DEF Next

Exclusiones == TypeOK /\ SinSuperposicion /\ UnaAgendadaPorLead

LEMMA NextExclusiones ==
  ASSUME Exclusiones, [Next]_ledger
  PROVE  Exclusiones'
<1> USE DEF Exclusiones
<1>1. TypeOK'
  BY NextTypeOK
<1>2. CASE UNCHANGED cita
  BY <1>1, <1>2 DEF SinSuperposicion, UnaAgendadaPorLead
<1>3. ASSUME NEW c \in Citas, NEW fila \in Cita, Reemplaza(c, fila)
      PROVE  SinSuperposicion' /\ UnaAgendadaPorLead'
  <2>1. \A d \in Citas : cita'[d] = IF d = c THEN fila ELSE cita[d]
    BY <1>3 DEF Reemplaza, TypeOK
  <2>2. ASSUME NEW d \in Citas \ {c}
        PROVE  ~Chocan(cita[d], fila) /\ ~Chocan(fila, cita[d])
    <3>1. ~Chocan(cita[d], fila)
      BY <1>3 DEF Reemplaza, SinChoque, Chocan
    <3> QED
      BY <3>1, ChocanSimetrico
  <2>3. SinSuperposicion'
    BY <2>1, <2>2 DEF SinSuperposicion
  <2>4. UnaAgendadaPorLead'
    BY <1>3, <2>1 DEF UnaAgendadaPorLead, Reemplaza
  <2> QED
    BY <2>3, <2>4
<1> QED
  BY <1>1, <1>2, <1>3, PasoCita DEF ledger

LEMMA LedgerExclusiones == Spec => []Exclusiones
<1>1. Init => Exclusiones
  BY InitTypeOK DEF Init, Exclusiones, SinSuperposicion, UnaAgendadaPorLead, Chocan, Agendada
<1>2. Exclusiones /\ [Next]_ledger => Exclusiones'
  BY NextExclusiones
<1> QED
  BY <1>1, <1>2, PTL DEF Spec

(* A responsable never has two overlapping booked meetings (AC-4).          *)
THEOREM LedgerSinSuperposicion == Spec => []SinSuperposicion
<1>1. Exclusiones => SinSuperposicion
  BY DEF Exclusiones
<1> QED
  BY <1>1, LedgerExclusiones, PTL

(* A lead never has two booked meetings (AC-3).                             *)
THEOREM LedgerUnaAgendadaPorLead == Spec => []UnaAgendadaPorLead
<1>1. Exclusiones => UnaAgendadaPorLead
  BY DEF Exclusiones
<1> QED
  BY <1>1, LedgerExclusiones, PTL

(***************************************************************************)
(* The state history.                                                      *)
(***************************************************************************)
LEMMA NextCadenaEstado ==
  ASSUME TypeOK, CadenaEstado, [Next]_ledger
  PROVE  CadenaEstado'
<1>1. CASE UNCHANGED <<estado, histEstado>>
  BY <1>1 DEF CadenaEstado
<1>2. ASSUME NEW op \in Ops, NEW u \in Usuarios, NEW l \in Leads, NEW e \in EstadosLead,
             EscribeEstado(op, u, l, e)
      PROVE  CadenaEstado'
  <2> DEFINE ev == [accion |-> AccionEstado(op), por |-> u, de |-> estado[l], a |-> e]
             h == histEstado[l]
  <2>1. CASE UNCHANGED <<estado, histEstado>>
    BY <1>1, <2>1
  <2>2. CASE /\ op = "asignar" \/ estado[l] # e
             /\ estado' = [estado EXCEPT ![l] = e]
             /\ histEstado' = [histEstado EXCEPT ![l] = Append(h, ev)]
    <3>1. ev \in EventoEstado /\ h \in Seq(EventoEstado)
      BY DEF TypeOK, EventoEstado, AccionEstado
    <3>2. /\ Len(Append(h, ev)) = Len(h) + 1
          /\ Len(h) \in Nat
          /\ \A i \in 1 .. Len(h) : Append(h, ev)[i] = h[i]
          /\ Append(h, ev)[Len(h) + 1] = ev
          /\ Append(h, ev) # <<>>
          /\ h = <<>> <=> Len(h) = 0
      BY <3>1, AppendEvento
    <3>3. ev.accion = "cambio_estado_lead" => ev.de # ev.a
      BY <2>2 DEF AccionEstado
    <3>4. /\ ev.de = IF h = <<>> THEN "nuevo" ELSE h[Len(h)].a
          /\ h # <<>> => h[1].de = "nuevo"
          /\ \A i \in 1 .. Len(h) - 1 : h[i + 1].de = h[i].a
          /\ \A i \in 1 .. Len(h) : h[i].accion = "cambio_estado_lead" => h[i].de # h[i].a
      BY DEF CadenaEstado
    <3> DEFINE g == Append(h, ev)
    <3>5. g[Len(g)].a = e /\ g # <<>>
      BY <3>2
    <3>6. g[1].de = "nuevo"
      BY <3>2, <3>4
    <3>7. \A i \in 1 .. Len(g) - 1 : g[i + 1].de = g[i].a
      <4> SUFFICES ASSUME NEW i \in 1 .. Len(h)
                   PROVE  g[i + 1].de = g[i].a
        BY <3>2, Len(g) - 1 = Len(h)
      <4>1. CASE i = Len(h)
        BY <3>2, <3>4, <4>1
      <4>2. CASE i < Len(h)
        <5>1. i \in 1 .. Len(h) - 1 /\ i + 1 \in 1 .. Len(h)
          BY <3>2, <4>2
        <5> QED
          BY <3>2, <3>4, <5>1
      <4> QED
        BY <3>2, <4>1, <4>2
    <3>8. \A i \in 1 .. Len(g) : g[i].accion = "cambio_estado_lead" => g[i].de # g[i].a
      <4> SUFFICES ASSUME NEW i \in 1 .. Len(h) + 1
                   PROVE  g[i].accion = "cambio_estado_lead" => g[i].de # g[i].a
        BY <3>2
      <4>1. i \in 1 .. Len(h) \/ i = Len(h) + 1
        BY <3>2
      <4> QED
        BY <3>2, <3>3, <3>4, <4>1
    <3> HIDE DEF g, ev, h
    <3>9. ASSUME NEW k \in Leads, k # l
          PROVE  estado'[k] = estado[k] /\ histEstado'[k] = histEstado[k]
      BY <2>2, <3>9 DEF TypeOK
    <3>10. estado'[l] = e /\ histEstado'[l] = g
      BY <2>2 DEF TypeOK, g
    <3> QED
      <4> DEFINE Cadena(s, e2) ==
            /\ e2 = IF s = <<>> THEN "nuevo" ELSE s[Len(s)].a
            /\ s # <<>> => s[1].de = "nuevo"
            /\ \A i \in 1 .. Len(s) - 1 : s[i + 1].de = s[i].a
            /\ \A i \in 1 .. Len(s) : s[i].accion = "cambio_estado_lead" => s[i].de # s[i].a
      <4>1. \A k \in Leads : Cadena(histEstado[k], estado[k])
        BY DEF CadenaEstado
      <4>2. Cadena(g, e)
        BY <3>5, <3>6, <3>7, <3>8
      <4> SUFFICES \A k \in Leads : Cadena(histEstado'[k], estado'[k])
        BY DEF CadenaEstado
      <4> HIDE DEF Cadena
      <4> QED
        BY <3>9, <3>10, <4>1, <4>2
  <2> QED
    BY <1>2, <2>1, <2>2 DEF EscribeEstado, PonerEstado
<1> QED
  BY <1>1, <1>2, PasoEscribe DEF ledger

(* The audited states of a lead form a chain from nuevo to its current      *)
(* state, without lost, unaudited or wrongly audited changes (AC-2).        *)
THEOREM LedgerCadenaEstado == Spec => []CadenaEstado
<1>1. Init => TypeOK /\ CadenaEstado
  BY InitTypeOK DEF Init, CadenaEstado
<1>2. (TypeOK /\ CadenaEstado) /\ [Next]_ledger => (TypeOK /\ CadenaEstado)'
  BY NextTypeOK, NextCadenaEstado
<1> QED
  BY <1>1, <1>2, PTL DEF Spec

(***************************************************************************)
(* What every step writes, with the rights under which it was written.     *)
(***************************************************************************)
EvEstado(op, u, l, e) == [accion |-> AccionEstado(op), por |-> u, de |-> estado[l], a |-> e]

EvCita(op, u, c, fila, horA) ==
  [op |-> op, por |-> u, resp |-> fila.resp,
   de |-> IF cita[c] = Nada THEN Nada ELSE cita[c].est, a |-> fila.est,
   horDe |-> IF cita[c] = Nada THEN Nada ELSE cita[c].hor, horA |-> horA]

(* A change of the state of a lead, by whom may make it.                    *)
EstadoConDerecho(op, u, l, e) ==
  /\ EscribeEstado(op, u, l, e)
  /\ EnCartera(u, asig[l])
  /\ Rol[u] = "advisor" => e \notin ProhibidosAlRunner
  /\ op = "asignar" <=> e = "asignado"
  /\ IF op = "asignar" THEN asig[l] = {} /\ \E a \in Asesores : asig' = [asig EXCEPT ![l] = {a}]
     ELSE UNCHANGED asig

(* A write of a meeting, by whom may make it, for whom may be responsable.  *)
CitaConDerecho(op, u, c, fila, horA) ==
  /\ EscribeCita(op, u, c, fila, horA)
  /\ UNCHANGED asig
  /\ EnCartera(u, asig[fila.lead])
  /\ op = "agendar" <=> cita[c] = Nada
  /\ cita[c] # Nada => Agendada(cita[c]) /\ cita[c].lead = fila.lead
  /\ Atiende[fila.resp]
  /\ RolAsesor[fila.resp] = "asesor" => fila.resp \in asig[fila.lead]
  /\ fila.est = "agendada" <=> horA # Nada
  /\ horA # Nada => horA = fila.hor
  /\ fila.est \in {"realizada", "no_asistio"} => PuedeMarcarAsistencia(Rol[u])
  /\ op \in OpsTurno /\ Rol[u] = "advisor" => RolAsesor[fila.resp] = "socio"

LEMMA PasoConDerecho ==
  ASSUME TypeOK, ResponsablePuedeVer, Next
  PROVE  \E op \in Ops, u \in Usuarios, l \in Leads, e \in EstadosLead :
           /\ EstadoConDerecho(op, u, l, e)
           /\ \/ UNCHANGED <<cita, histCita>>
              \/ \E c \in Citas, fila \in Cita, horA \in Horarios \cup {Nada} :
                   CitaConDerecho(op, u, c, fila, horA)
<1> USE DatosAssumption
<1>1. ASSUME NEW u \in Usuarios, NEW l \in Leads, NEW e \in Manuales, CambiarEstado(u, l, e)
      PROVE  /\ EstadoConDerecho("estado", u, l, e) /\ UNCHANGED <<cita, histCita>>
             /\ "estado" \in Ops /\ e \in EstadosLead
  BY <1>1 DEF CambiarEstado, EstadoConDerecho, EscribeEstado, Autorizado, Ops
<1>2. ASSUME NEW u \in Usuarios, NEW l \in Leads, NEW a \in Asesores, Asignar(u, l, a)
      PROVE  /\ EstadoConDerecho("asignar", u, l, "asignado") /\ UNCHANGED <<cita, histCita>>
             /\ "asignar" \in Ops /\ "asignado" \in EstadosLead
  <2>1. EsSuperuser(Rol[u])
    BY <1>2 DEF Asignar, Autorizado
  <2>2. EnCartera(u, asig[l]) /\ Rol[u] # "advisor"
    BY <2>1 DEF EnCartera, TieneCartera, EsSuperuser
  <2>3. EscribeEstado("asignar", u, l, "asignado")
    BY <1>2 DEF Asignar, EscribeEstado, Ops, EstadosLead
  <2> QED
    BY <1>2, <2>2, <2>3 DEF Asignar, EstadoConDerecho, EscribeEstado
<1>3. ASSUME NEW u \in Usuarios, NEW l \in Leads, NEW c \in Citas, NEW r \in Asesores,
             NEW h \in Horarios, NEW op \in OpsTurno,
             \/ op = "agendar" /\ Agendar(u, l, c, r, h)
             \/ op = "reagendar" /\ Reagendar(u, l, c, r, h)
      PROVE  \E fila \in Cita :
                /\ EstadoConDerecho(op, u, l, "reunion_agendada")
                /\ CitaConDerecho(op, u, c, fila, h)
  <2> DEFINE fila == [lead |-> l, resp |-> r, hor |-> h, est |-> "agendada"]
  <2>1. /\ fila \in Cita /\ fila.lead = l /\ fila.resp = r /\ fila.hor = h
        /\ fila.est = "agendada" /\ h # Nada
    BY FilaNuevaTipo
  <2>2. op \in Ops /\ op \in OpsAgenda /\ "reunion_agendada" \in EstadosLead /\ op # "asignar"
        /\ "reunion_agendada" \notin ProhibidosAlRunner
    BY DEF OpsAgenda, OpsCita, OpsTurno, Ops, EstadosLead, ProhibidosAlRunner
  <2>3. /\ PonerCita(op, u, c, fila, h) /\ PonerEstado(op, u, l, "reunion_agendada")
        /\ UNCHANGED asig
        /\ EnCartera(u, asig[l]) /\ ResponsableValido(u, r, asig[l])
        /\ op = "agendar" <=> cita[c] = Nada
        /\ cita[c] # Nada => Agendada(cita[c]) /\ cita[c].lead = l
    BY <1>3 DEF Agendar, Reagendar, Agendada
  <2>4. EstadoConDerecho(op, u, l, "reunion_agendada")
    BY <2>2, <2>3 DEF EstadoConDerecho, EscribeEstado
  <2> HIDE DEF fila
  <2>5. CitaConDerecho(op, u, c, fila, h)
    BY <2>1, <2>2, <2>3 DEF CitaConDerecho, EscribeCita, ResponsableValido
  <2> QED
    BY <2>1, <2>4, <2>5
<1>4. ASSUME NEW u \in Usuarios, NEW l \in Leads, NEW c \in Citas, NEW op \in OpsCierre,
             Cerrar(op, u, l, c)
      PROVE  \E fila \in Cita, e \in EstadosLead :
                /\ EstadoConDerecho(op, u, l, e) /\ CitaConDerecho(op, u, c, fila, Nada)
                /\ op \in Ops
  <2> DEFINE fila == [cita[c] EXCEPT !.est = EstadoCitaTras(op)]
             e == EstadoDestino(op, Nada)
  <2>1. op \in OpsAgenda /\ op \in Ops /\ e \in EstadosLead /\ op \notin OpsTurno
        /\ op \notin {"asignar", "agendar"}
    BY EstadoDestinoTipo DEF OpsAgenda, OpsCita, OpsCierre, OpsTurno, Ops
  <2>2. cita[c] \in Cita /\ Agendada(cita[c]) /\ cita[c].lead = l /\ cita[c] # Nada
    BY <1>4 DEF Cerrar, Agendada, TypeOK
  <2>3. /\ fila \in Cita /\ fila.est # "agendada" /\ fila.lead = l
        /\ fila.resp = cita[c].resp /\ fila.est = EstadoCitaTras(op)
    BY <2>2, FilaCerradaTipo DEF Cita
  <2>4. Atiende[fila.resp] /\ (RolAsesor[fila.resp] = "asesor" => fila.resp \in asig[l])
    BY <2>2, <2>3 DEF ResponsablePuedeVer
  <2>5. /\ PonerCita(op, u, c, fila, Nada) /\ PonerEstado(op, u, l, e) /\ UNCHANGED asig
        /\ Autorizado(Rol[u], op, Nada) /\ EnCartera(u, asig[l])
    BY <1>4 DEF Cerrar
  <2>6. EstadoCitaTras(op) \in {"realizada", "no_asistio"} => PuedeMarcarAsistencia(Rol[u])
    BY <2>5 DEF EstadoCitaTras, Autorizado, OpsCierre, OpsTurno
  <2>7. e # "asignado" /\ (Rol[u] = "advisor" => e \notin ProhibidosAlRunner)
    BY <2>5 DEF EstadoDestino, Autorizado, OpsCierre, OpsTurno, ProhibidosAlRunner,
                PuedeMarcarAsistencia
  <2>8. EstadoConDerecho(op, u, l, e)
    BY <2>1, <2>5, <2>7 DEF EstadoConDerecho, EscribeEstado
  <2> HIDE DEF fila, e
  <2>9. CitaConDerecho(op, u, c, fila, Nada)
    BY <2>1, <2>2, <2>3, <2>4, <2>5, <2>6 DEF CitaConDerecho, EscribeCita
  <2> QED
    BY <2>1, <2>3, <2>8, <2>9
<1>5. OpsTurno \subseteq Ops /\ "agendar" \in OpsTurno /\ "reagendar" \in OpsTurno
      /\ "reunion_agendada" \in EstadosLead
  BY DEF Ops, OpsAgenda, OpsCita, OpsTurno, EstadosLead
<1>6. ASSUME NEW u \in Usuarios, NEW l \in Leads, NEW c \in Citas, NEW r \in Asesores,
             NEW h \in Horarios, Agendar(u, l, c, r, h) \/ Reagendar(u, l, c, r, h)
      PROVE  \E op \in Ops, fila \in Cita :
                /\ EstadoConDerecho(op, u, l, "reunion_agendada")
                /\ CitaConDerecho(op, u, c, fila, h)
  BY <1>3, <1>5, <1>6
<1> QED
  BY <1>1, <1>2, <1>4, <1>5, <1>6 DEF Next

(* What the two writes leave in the histories.                              *)
LEMMA HistoriaEstado ==
  ASSUME TypeOK, NEW op, NEW u, NEW l, NEW e, EscribeEstado(op, u, l, e)
  PROVE  /\ EvEstado(op, u, l, e) \in EventoEstado
         /\ \A k \in Leads :
              \/ histEstado'[k] = histEstado[k] /\ ~(k = l /\ op = "asignar")
              \/ k = l /\ histEstado'[k] = Append(histEstado[k], EvEstado(op, u, l, e))
<1>1. EvEstado(op, u, l, e) \in EventoEstado
  BY DEF EvEstado, EscribeEstado, TypeOK, EventoEstado, AccionEstado
<1>2. CASE UNCHANGED <<estado, histEstado>> /\ op # "asignar"
  BY <1>1, <1>2
<1>3. CASE histEstado' = [histEstado EXCEPT ![l] = Append(@, EvEstado(op, u, l, e))]
  BY <1>1, <1>3 DEF EscribeEstado, TypeOK
<1> QED
  BY <1>2, <1>3 DEF EscribeEstado, PonerEstado, EvEstado

LEMMA HistoriaCita ==
  ASSUME TypeOK, NEW op, NEW u, NEW c, NEW fila, NEW horA, EscribeCita(op, u, c, fila, horA)
  PROVE  /\ EvCita(op, u, c, fila, horA) \in EventoCita
         /\ cita'[c] = fila
         /\ histCita'[c] = Append(histCita[c], EvCita(op, u, c, fila, horA))
         /\ \A k \in Citas \ {c} : cita'[k] = cita[k] /\ histCita'[k] = histCita[k]
<1>1. EvCita(op, u, c, fila, horA) \in EventoCita
  BY DEF EvCita, EscribeCita, TypeOK, EventoCita, Cita
<1>2. /\ cita' = [cita EXCEPT ![c] = fila]
      /\ histCita' = [histCita EXCEPT ![c] = Append(@, EvCita(op, u, c, fila, horA))]
  BY DEF EscribeCita, PonerCita, EvCita
<1> QED
  BY <1>1, <1>2 DEF EscribeCita, TypeOK

(***************************************************************************)
(* Assignments.  What is said of a lead is a predicate of its history and  *)
(* its advisors.                                                           *)
(***************************************************************************)
UnicaDe(h, as) ==
  /\ \A a, b \in as : a = b
  /\ as # {} <=> \E i \in 1 .. Len(h) : h[i].accion = "asignacion_lead"
  /\ \A i, j \in 1 .. Len(h) :
       h[i].accion = "asignacion_lead" /\ h[j].accion = "asignacion_lead" => i = j
  /\ \A i \in 1 .. Len(h) : h[i].a = "asignado" <=> h[i].accion = "asignacion_lead"

LEMMA UnicaTrasCambio ==
  ASSUME NEW h \in Seq(EventoEstado), NEW ev \in EventoEstado, NEW as, UnicaDe(h, as),
         ev.accion = "cambio_estado_lead", ev.a # "asignado"
  PROVE  UnicaDe(Append(h, ev), as)
<1> DEFINE g == Append(h, ev)
<1>1. /\ Len(g) = Len(h) + 1 /\ Len(h) \in Nat
      /\ \A i \in 1 .. Len(h) : g[i] = h[i]
      /\ g[Len(h) + 1] = ev
  BY AppendEvento
<1> HIDE DEF g
<1>2. \A i \in 1 .. Len(g) : (i \in 1 .. Len(h) /\ g[i] = h[i]) \/ g[i] = ev
  BY <1>1
<1>3. \A i \in 1 .. Len(g) : g[i].accion = "asignacion_lead" => i \in 1 .. Len(h) /\ g[i] = h[i]
  BY <1>2
<1>4. \A i \in 1 .. Len(h) : i \in 1 .. Len(g) /\ g[i] = h[i]
  BY <1>1
<1>5. (\E i \in 1 .. Len(h) : h[i].accion = "asignacion_lead")
        <=> (\E i \in 1 .. Len(g) : g[i].accion = "asignacion_lead")
  BY <1>3, <1>4
<1>6. \A i, j \in 1 .. Len(g) :
        g[i].accion = "asignacion_lead" /\ g[j].accion = "asignacion_lead" => i = j
  BY <1>3 DEF UnicaDe
<1>7. \A i \in 1 .. Len(g) : g[i].a = "asignado" <=> g[i].accion = "asignacion_lead"
  BY <1>2 DEF UnicaDe
<1>8. UnicaDe(g, as)
  BY <1>5, <1>6, <1>7 DEF UnicaDe
<1> QED
  BY <1>8 DEF g

LEMMA UnicaTrasAsignar ==
  ASSUME NEW h \in Seq(EventoEstado), NEW ev \in EventoEstado, UnicaDe(h, {}), NEW a,
         ev.accion = "asignacion_lead", ev.a = "asignado"
  PROVE  UnicaDe(Append(h, ev), {a})
<1> DEFINE g == Append(h, ev)
<1>1. /\ Len(g) = Len(h) + 1 /\ Len(h) \in Nat
      /\ \A i \in 1 .. Len(h) : g[i] = h[i]
      /\ g[Len(h) + 1] = ev
  BY AppendEvento
<1> HIDE DEF g
<1>2. \A i \in 1 .. Len(g) : (i \in 1 .. Len(h) /\ g[i] = h[i]) \/ (i = Len(g) /\ g[i] = ev)
  BY <1>1
<1>3. \A i \in 1 .. Len(h) : h[i].accion # "asignacion_lead"
  BY DEF UnicaDe
<1>4. Len(g) \in 1 .. Len(g) /\ g[Len(g)] = ev
  BY <1>1
<1>5. UnicaDe(g, {a})
  BY <1>1, <1>2, <1>3, <1>4 DEF UnicaDe
<1> QED
  BY <1>5 DEF g

LEMMA NextAsignacionUnica ==
  ASSUME TypeOK, AsignacionUnica, ResponsablePuedeVer, [Next]_ledger
  PROVE  AsignacionUnica'
<1>1. \A l \in Leads : UnicaDe(histEstado[l], asig[l])
  BY DEF AsignacionUnica, UnicaDe
<1> SUFFICES ASSUME NEW k \in Leads
             PROVE  UnicaDe(histEstado'[k], asig'[k])
  BY DEF AsignacionUnica, UnicaDe
<1>2. CASE UNCHANGED ledger
  BY <1>1, <1>2 DEF ledger
<1>3. ASSUME NEW op \in Ops, NEW u \in Usuarios, NEW l \in Leads, NEW e \in EstadosLead,
             EstadoConDerecho(op, u, l, e)
      PROVE  UnicaDe(histEstado'[k], asig'[k])
  <2> DEFINE ev == EvEstado(op, u, l, e)
  <2>0. EscribeEstado(op, u, l, e)
    BY <1>3 DEF EstadoConDerecho
  <2>1. /\ ev \in EventoEstado /\ histEstado[k] \in Seq(EventoEstado)
        /\ \/ histEstado'[k] = histEstado[k] /\ ~(k = l /\ op = "asignar")
           \/ k = l /\ histEstado'[k] = Append(histEstado[k], ev)
    BY <2>0, HistoriaEstado DEF TypeOK
  <2>2. ev.a = e /\ ev.accion = AccionEstado(op)
    BY DEF EvEstado
  <2>3. asig'[k] = asig[k] \/ (k = l /\ op = "asignar")
    BY <1>3 DEF EstadoConDerecho, TypeOK
  <2>4. CASE histEstado'[k] = histEstado[k] /\ ~(k = l /\ op = "asignar")
    BY <1>1, <2>3, <2>4
  <2>5. CASE k = l /\ histEstado'[k] = Append(histEstado[k], ev) /\ op # "asignar"
    <3>1. ev.accion = "cambio_estado_lead" /\ ev.a # "asignado"
      BY <1>3, <2>2, <2>5 DEF AccionEstado, EstadoConDerecho
    <3> QED
      BY <1>1, <2>1, <2>3, <2>5, <3>1, UnicaTrasCambio
  <2>6. CASE k = l /\ histEstado'[k] = Append(histEstado[k], ev) /\ op = "asignar"
    <3>1. ev.accion = "asignacion_lead" /\ ev.a = "asignado"
      BY <1>3, <2>2, <2>6 DEF AccionEstado, EstadoConDerecho
    <3>2. PICK a \in Asesores : asig' = [asig EXCEPT ![l] = {a}]
      BY <1>3, <2>6 DEF EstadoConDerecho
    <3>3. asig[k] = {} /\ asig'[k] = {a}
      BY <1>3, <2>6, <3>2 DEF EstadoConDerecho, TypeOK
    <3>4. UnicaDe(histEstado[k], {})
      BY <1>1, <3>3
    <3>5. UnicaDe(Append(histEstado[k], ev), {a})
      BY <2>1, <3>1, <3>4, UnicaTrasAsignar
    <3> QED
      BY <2>6, <3>3, <3>5
  <2> QED
    BY <2>1, <2>4, <2>5, <2>6
<1> QED
  BY <1>2, <1>3, PasoConDerecho

(***************************************************************************)
(* Meetings.  Beyond the chain itself, an event has an hour exactly when it *)
(* leaves the meeting booked: it is what ties the hour of the next event to *)
(* the row.                                                                *)
(***************************************************************************)
CadenaDe(h, r) ==
  /\ h = <<>> <=> r = Nada
  /\ h # <<>> => /\ h[1].op = "agendar"
                 /\ h[Len(h)].a = r.est
                 /\ h[Len(h)].resp = r.resp
                 /\ (h[Len(h)].horA # Nada => h[Len(h)].horA = r.hor)
  /\ \A i \in 2 .. Len(h) :
       /\ h[i].op # "agendar"
       /\ h[i].de = "agendada" /\ h[i - 1].a = "agendada"
       /\ h[i].horDe = h[i - 1].horA

HoraDeTurno ==
  \A c \in Citas : \A i \in 1 .. Len(histCita[c]) :
    histCita[c][i].a = "agendada" => histCita[c][i].horA # Nada

LEMMA AppendIndices ==
  ASSUME NEW S, NEW h \in Seq(S), NEW ev \in S
  PROVE  \A i \in 1 .. Len(Append(h, ev)) :
           \/ i \in 1 .. Len(h) /\ Append(h, ev)[i] = h[i]
           \/ i = Len(h) + 1 /\ Append(h, ev)[i] = ev
BY AppendEvento

LEMMA CadenaTrasEvento ==
  ASSUME NEW h \in Seq(EventoCita), NEW ev \in EventoCita, NEW r, NEW fila \in Cita,
         CadenaDe(h, r),
         \A i \in 1 .. Len(h) : h[i].a = "agendada" => h[i].horA # Nada,
         r # Nada => r.est = "agendada",
         ev.op = "agendar" <=> r = Nada,
         ev.resp = fila.resp, ev.a = fila.est,
         r # Nada => ev.de = r.est /\ ev.horDe = r.hor,
         ev.horA # Nada => ev.horA = fila.hor
  PROVE  CadenaDe(Append(h, ev), fila)
<1> DEFINE g == Append(h, ev)
           n == Len(h)
<1>1. /\ Len(g) = n + 1 /\ n \in Nat
      /\ \A i \in 1 .. n : g[i] = h[i]
      /\ g[n + 1] = ev
      /\ g # <<>>
      /\ h = <<>> <=> n = 0
  BY AppendEvento
<1>2. fila # Nada
  BY NadaAssumption
<1> HIDE DEF g
<1>3. g[1].op = "agendar"
  BY <1>1 DEF CadenaDe
<1>4. n # 0 => /\ h[n].a = "agendada" /\ h[n].horA = r.hor
               /\ ev.op # "agendar" /\ ev.de = "agendada" /\ ev.horDe = r.hor
  BY <1>1 DEF CadenaDe
<1>5. ASSUME NEW i \in 2 .. Len(g)
      PROVE  /\ g[i].op # "agendar"
             /\ g[i].de = "agendada" /\ g[i - 1].a = "agendada"
             /\ g[i].horDe = g[i - 1].horA
  <2>1. CASE i = n + 1
    <3>1. n # 0 /\ g[i] = ev /\ i - 1 = n /\ n \in 1 .. n
      BY <1>1, <2>1
    <3> QED
      BY <1>1, <1>4, <3>1
  <2>2. CASE i # n + 1
    <3>1. i \in 2 .. n /\ i \in 1 .. n /\ i - 1 \in 1 .. n
      BY <1>1, <2>2
    <3>2. g[i] = h[i] /\ g[i - 1] = h[i - 1]
      BY <1>1, <3>1
    <3> QED
      BY <3>1, <3>2 DEF CadenaDe
  <2> QED
    BY <2>1, <2>2
<1>6. CadenaDe(g, fila)
  BY <1>1, <1>2, <1>3, <1>5 DEF CadenaDe
<1> QED
  BY <1>6 DEF g

LEMMA NextCadenaCita ==
  ASSUME TypeOK, CadenaCita, HoraDeTurno, ResponsablePuedeVer, [Next]_ledger
  PROVE  CadenaCita' /\ HoraDeTurno'
<1>1. \A c \in Citas : CadenaDe(histCita[c], cita[c])
  BY DEF CadenaCita, CadenaDe
<1> SUFFICES ASSUME NEW k \in Citas
             PROVE  /\ CadenaDe(histCita'[k], cita'[k])
                    /\ \A i \in 1 .. Len(histCita'[k]) :
                         histCita'[k][i].a = "agendada" => histCita'[k][i].horA # Nada
  BY DEF CadenaCita, CadenaDe, HoraDeTurno
<1>2. CASE histCita'[k] = histCita[k] /\ cita'[k] = cita[k]
  BY <1>1, <1>2 DEF HoraDeTurno
<1>3. ASSUME NEW op, NEW u, NEW fila, NEW horA, CitaConDerecho(op, u, k, fila, horA)
      PROVE  /\ CadenaDe(histCita'[k], cita'[k])
             /\ \A i \in 1 .. Len(histCita'[k]) :
                  histCita'[k][i].a = "agendada" => histCita'[k][i].horA # Nada
  <2> DEFINE ev == EvCita(op, u, k, fila, horA)
             h == histCita[k]
  <2>1. EscribeCita(op, u, k, fila, horA) /\ fila \in Cita
    BY <1>3 DEF CitaConDerecho, EscribeCita
  <2>2. /\ ev \in EventoCita /\ h \in Seq(EventoCita)
        /\ cita'[k] = fila /\ histCita'[k] = Append(h, ev)
    BY <2>1, HistoriaCita DEF TypeOK
  <2>3. /\ cita[k] # Nada => cita[k].est = "agendada"
        /\ ev.op = "agendar" <=> cita[k] = Nada
        /\ ev.resp = fila.resp /\ ev.a = fila.est
        /\ cita[k] # Nada => ev.de = cita[k].est /\ ev.horDe = cita[k].hor
        /\ ev.horA # Nada => ev.horA = fila.hor
        /\ ev.a = "agendada" => ev.horA # Nada
    BY <1>3 DEF CitaConDerecho, EvCita, Agendada
  <2>4. \A i \in 1 .. Len(h) : h[i].a = "agendada" => h[i].horA # Nada
    BY DEF HoraDeTurno
  <2> HIDE DEF ev, h
  <2>5. CadenaDe(h, cita[k])
    BY <1>1 DEF h
  <2>6. CadenaDe(Append(h, ev), fila)
    BY <2>1, <2>2, <2>3, <2>4, <2>5, CadenaTrasEvento
  <2>7. \A i \in 1 .. Len(Append(h, ev)) :
          Append(h, ev)[i].a = "agendada" => Append(h, ev)[i].horA # Nada
    BY <2>2, <2>3, <2>4, AppendIndices
  <2> QED
    BY <2>2, <2>6, <2>7
<1>4. ASSUME NEW c \in Citas, NEW op, NEW u, NEW fila, NEW horA, c # k,
             CitaConDerecho(op, u, c, fila, horA)
      PROVE  histCita'[k] = histCita[k] /\ cita'[k] = cita[k]
  BY <1>4, HistoriaCita DEF CitaConDerecho
<1> QED
  BY <1>2, <1>3, <1>4, PasoConDerecho DEF ledger

(***************************************************************************)
(* Authorization.  Assignments are only added, so what was written within  *)
(* a portfolio stays within it.                                            *)
(***************************************************************************)
LEMMA CarteraCrece ==
  ASSUME TypeOK, NEW op \in Ops, NEW u \in Usuarios, NEW l \in Leads, NEW e \in EstadosLead,
         EstadoConDerecho(op, u, l, e), NEW k \in Leads
  PROVE  asig[k] \subseteq asig'[k]
<1>1. CASE op = "asignar"
  BY <1>1 DEF EstadoConDerecho, TypeOK
<1>2. CASE op # "asignar"
  BY <1>2 DEF EstadoConDerecho
<1> QED
  BY <1>1, <1>2

LEMMA NextEstadosAutorizados ==
  ASSUME TypeOK, AutorizacionRespetada, NEW op \in Ops, NEW u \in Usuarios, NEW l \in Leads,
         NEW e \in EstadosLead, EstadoConDerecho(op, u, l, e),
         NEW k \in Leads, NEW i \in 1 .. Len(histEstado'[k])
  PROVE  /\ EnCartera(histEstado'[k][i].por, asig'[k])
         /\ Rol[histEstado'[k][i].por] = "advisor" => histEstado'[k][i].a \notin ProhibidosAlRunner
<1> DEFINE ev == EvEstado(op, u, l, e)
<1>1. asig[k] \subseteq asig'[k]
  BY CarteraCrece
<1>2. /\ ev \in EventoEstado /\ histEstado[k] \in Seq(EventoEstado)
      /\ \/ histEstado'[k] = histEstado[k]
         \/ k = l /\ histEstado'[k] = Append(histEstado[k], ev)
  BY HistoriaEstado DEF EstadoConDerecho, TypeOK
<1>3. ev.por = u /\ ev.a = e
  BY DEF EvEstado
<1> HIDE DEF ev
<1>4. \/ i \in 1 .. Len(histEstado[k]) /\ histEstado'[k][i] = histEstado[k][i]
      \/ k = l /\ histEstado'[k][i] = ev
  BY <1>2, AppendIndices
<1>5. CASE i \in 1 .. Len(histEstado[k]) /\ histEstado'[k][i] = histEstado[k][i]
  BY <1>1, <1>5 DEF AutorizacionRespetada, EscriturasEnCartera, PerfilesRespetados, EnCartera
<1>6. CASE k = l /\ histEstado'[k][i] = ev
  BY <1>1, <1>3, <1>6 DEF EstadoConDerecho, EnCartera
<1> QED
  BY <1>4, <1>5, <1>6

LEMMA NextCitasAutorizadas ==
  ASSUME TypeOK, CadenaCita, AutorizacionRespetada, NEW c \in Citas, NEW op, NEW u, NEW fila,
         NEW horA, CitaConDerecho(op, u, c, fila, horA),
         NEW k \in Citas, NEW i \in 1 .. Len(histCita'[k])
  PROVE  /\ EnCartera(histCita'[k][i].por, asig'[cita'[k].lead])
         /\ histCita'[k][i].a \in {"realizada", "no_asistio"}
              => PuedeMarcarAsistencia(Rol[histCita'[k][i].por])
         /\ histCita'[k][i].op \in OpsTurno /\ Rol[histCita'[k][i].por] = "advisor"
              => RolAsesor[histCita'[k][i].resp] = "socio"
<1> DEFINE ev == EvCita(op, u, c, fila, horA)
<1>1. /\ ev \in EventoCita /\ histCita[k] \in Seq(EventoCita)
      /\ \/ k # c /\ histCita'[k] = histCita[k] /\ cita'[k] = cita[k]
         \/ k = c /\ histCita'[k] = Append(histCita[k], ev) /\ cita'[k] = fila
  BY HistoriaCita DEF CitaConDerecho, TypeOK
<1>2. ev.por = u /\ ev.a = fila.est /\ ev.op = op /\ ev.resp = fila.resp /\ UNCHANGED asig
  BY DEF EvCita, CitaConDerecho
<1> HIDE DEF ev
<1>3. \/ i \in 1 .. Len(histCita[k]) /\ histCita'[k][i] = histCita[k][i]
      \/ k = c /\ histCita'[k][i] = ev
  BY <1>1, AppendIndices
<1>4. CASE i \in 1 .. Len(histCita[k]) /\ histCita'[k][i] = histCita[k][i]
  <2>1. cita[k] # Nada
    <3>1. histCita[k] # <<>>
      BY <1>1, <1>4
    <3> QED
      BY <3>1 DEF CadenaCita
  <2>2. cita'[k].lead = cita[k].lead
    BY <1>1, <2>1 DEF CitaConDerecho
  <2>3. /\ EnCartera(histCita[k][i].por, asig[cita[k].lead])
        /\ histCita[k][i].a \in {"realizada", "no_asistio"}
             => PuedeMarcarAsistencia(Rol[histCita[k][i].por])
        /\ histCita[k][i].op \in OpsTurno /\ Rol[histCita[k][i].por] = "advisor"
             => RolAsesor[histCita[k][i].resp] = "socio"
    BY <1>4 DEF AutorizacionRespetada, EscriturasEnCartera, PerfilesRespetados
  <2> QED
    BY <1>2, <1>4, <2>2, <2>3
<1>5. CASE k = c /\ histCita'[k][i] = ev
  BY <1>1, <1>2, <1>5 DEF CitaConDerecho
<1> QED
  BY <1>3, <1>4, <1>5

LEMMA NextResponsablePuedeVer ==
  ASSUME TypeOK, ResponsablePuedeVer, [Next]_ledger
  PROVE  ResponsablePuedeVer'
<1>1. CASE UNCHANGED ledger
  BY <1>1 DEF ledger, ResponsablePuedeVer
<1>2. CASE Next
  <2>1. PICK op \in Ops, u \in Usuarios, l \in Leads, e \in EstadosLead :
           /\ EstadoConDerecho(op, u, l, e)
           /\ \/ UNCHANGED <<cita, histCita>>
              \/ \E c \in Citas, fila \in Cita, horA \in Horarios \cup {Nada} :
                   CitaConDerecho(op, u, c, fila, horA)
    BY <1>2, PasoConDerecho
  <2> SUFFICES ASSUME NEW k \in Citas, cita'[k] # Nada
               PROVE  /\ Atiende[cita'[k].resp]
                      /\ RolAsesor[cita'[k].resp] = "asesor"
                           => cita'[k].resp \in asig'[cita'[k].lead]
    BY DEF ResponsablePuedeVer
  <2>2. CASE cita'[k] = cita[k]
    <3>1. cita[k].lead \in Leads
      BY <2>2 DEF TypeOK, Cita
    <3>2. asig[cita[k].lead] \subseteq asig'[cita[k].lead]
      BY <2>1, <3>1, CarteraCrece
    <3> QED
      BY <2>2, <3>2 DEF ResponsablePuedeVer
  <2>3. ASSUME NEW c \in Citas, NEW fila, NEW horA, CitaConDerecho(op, u, c, fila, horA)
        PROVE  cita'[k] = cita[k] \/ (k = c /\ cita'[k] = fila /\ UNCHANGED asig)
    BY <2>3, HistoriaCita DEF CitaConDerecho
  <2>4. ASSUME NEW c \in Citas, NEW fila, NEW horA, CitaConDerecho(op, u, c, fila, horA),
               k = c, cita'[k] = fila, UNCHANGED asig
        PROVE  /\ Atiende[cita'[k].resp]
               /\ RolAsesor[cita'[k].resp] = "asesor" => cita'[k].resp \in asig'[cita'[k].lead]
    BY <2>4 DEF CitaConDerecho
  <2> QED
    BY <2>1, <2>2, <2>3, <2>4
<1> QED
  BY <1>1, <1>2

LEMMA NextAutorizacion ==
  ASSUME TypeOK, CadenaCita, AutorizacionRespetada, [Next]_ledger
  PROVE  AutorizacionRespetada'
<1>0. ResponsablePuedeVer
  BY DEF AutorizacionRespetada
<1>1. CASE UNCHANGED ledger
  BY <1>1 DEF ledger, AutorizacionRespetada, EscriturasEnCartera, ResponsablePuedeVer,
              PerfilesRespetados
<1>2. CASE Next
  <2>1. PICK op \in Ops, u \in Usuarios, l \in Leads, e \in EstadosLead :
           /\ EstadoConDerecho(op, u, l, e)
           /\ \/ UNCHANGED <<cita, histCita>>
              \/ \E c \in Citas, fila \in Cita, horA \in Horarios \cup {Nada} :
                   CitaConDerecho(op, u, c, fila, horA)
    BY <1>0, <1>2, PasoConDerecho
  <2>2. \A k \in Leads : \A i \in 1 .. Len(histEstado'[k]) :
          /\ EnCartera(histEstado'[k][i].por, asig'[k])
          /\ Rol[histEstado'[k][i].por] = "advisor"
               => histEstado'[k][i].a \notin ProhibidosAlRunner
    BY <2>1, NextEstadosAutorizados
  <2>3. ASSUME NEW k \in Citas, NEW i \in 1 .. Len(histCita'[k])
        PROVE  /\ EnCartera(histCita'[k][i].por, asig'[cita'[k].lead])
               /\ histCita'[k][i].a \in {"realizada", "no_asistio"}
                    => PuedeMarcarAsistencia(Rol[histCita'[k][i].por])
               /\ histCita'[k][i].op \in OpsTurno /\ Rol[histCita'[k][i].por] = "advisor"
                    => RolAsesor[histCita'[k][i].resp] = "socio"
    <3>1. CASE UNCHANGED <<cita, histCita>>
      <4>1. /\ i \in 1 .. Len(histCita[k]) /\ histCita'[k][i] = histCita[k][i]
            /\ cita'[k] = cita[k]
        BY <3>1
      <4>2. histCita[k] # <<>>
        BY <4>1
      <4>3. cita[k].lead \in Leads
        BY <4>2 DEF CadenaCita, TypeOK, Cita
      <4>4. asig[cita[k].lead] \subseteq asig'[cita[k].lead]
        BY <2>1, <4>3, CarteraCrece
      <4> QED
        BY <4>1, <4>4 DEF AutorizacionRespetada, EscriturasEnCartera, PerfilesRespetados,
                          EnCartera
    <3>2. CASE \E c \in Citas, fila \in Cita, horA \in Horarios \cup {Nada} :
                 CitaConDerecho(op, u, c, fila, horA)
      BY <3>2, NextCitasAutorizadas
    <3> QED
      BY <2>1, <3>1, <3>2
  <2>4. ResponsablePuedeVer'
    BY <1>0, <1>2, NextResponsablePuedeVer
  <2>5. EscriturasEnCartera'
    BY <2>2, <2>3 DEF EscriturasEnCartera
  <2>6. PerfilesRespetados'
    BY <2>2, <2>3 DEF PerfilesRespetados
  <2> QED
    BY <2>4, <2>5, <2>6 DEF AutorizacionRespetada
<1> QED
  BY <1>1, <1>2

(***************************************************************************)
(* The theorems on histories and rights.                                   *)
(***************************************************************************)
HistoriasYDerechos ==
  /\ TypeOK
  /\ AsignacionUnica
  /\ CadenaCita /\ HoraDeTurno
  /\ AutorizacionRespetada

LEMMA LedgerHistorias == Spec => []HistoriasYDerechos
<1>1. Init => HistoriasYDerechos
  <2> SUFFICES ASSUME Init PROVE HistoriasYDerechos
    OBVIOUS
  <2>1. /\ \A l \in Leads : histEstado[l] = <<>> /\ asig[l] = {}
        /\ \A c \in Citas : histCita[c] = <<>> /\ cita[c] = Nada
    BY DEF Init
  <2>2. Len(<<>>) = 0 /\ 1 .. 0 = {} /\ 2 .. 0 = {}
    OBVIOUS
  <2>3. AsignacionUnica
    BY <2>1, <2>2 DEF AsignacionUnica
  <2>4. CadenaCita /\ HoraDeTurno
    BY <2>1, <2>2 DEF CadenaCita, HoraDeTurno
  <2>5. AutorizacionRespetada
    BY <2>1, <2>2 DEF AutorizacionRespetada, EscriturasEnCartera, ResponsablePuedeVer,
                      PerfilesRespetados
  <2> QED
    BY <2>3, <2>4, <2>5, InitTypeOK DEF HistoriasYDerechos
<1>2. HistoriasYDerechos /\ [Next]_ledger => HistoriasYDerechos'
  <2> SUFFICES ASSUME HistoriasYDerechos, [Next]_ledger
               PROVE  HistoriasYDerechos'
    OBVIOUS
  <2>1. TypeOK /\ AsignacionUnica /\ CadenaCita /\ HoraDeTurno /\ AutorizacionRespetada
        /\ ResponsablePuedeVer
    BY DEF HistoriasYDerechos, AutorizacionRespetada
  <2>2. TypeOK'
    BY <2>1, NextTypeOK
  <2>3. AsignacionUnica'
    BY <2>1, NextAsignacionUnica
  <2>4. CadenaCita' /\ HoraDeTurno'
    BY <2>1, NextCadenaCita
  <2>5. AutorizacionRespetada'
    BY <2>1, NextAutorizacion
  <2> QED
    BY <2>2, <2>3, <2>4, <2>5 DEF HistoriasYDerechos
<1> QED
  BY <1>1, <1>2, PTL DEF Spec

(* A lead is assigned once and its assignment is audited; the history of a  *)
(* meeting is a chain of the hours it really had.                           *)
THEOREM LedgerHistorialFiel == Spec => []HistorialFiel
<1>1. HistoriasYDerechos => HistorialFiel
  BY DEF HistoriasYDerechos, HistorialFiel
<1> QED
  BY <1>1, LedgerHistorias, PTL

(* Everything that was ever written was written within the portfolio and    *)
(* the profile of its author, and every responsable could be chosen still.  *)
THEOREM LedgerAutorizacion == Spec => []AutorizacionRespetada
<1>1. HistoriasYDerechos => AutorizacionRespetada
  BY DEF HistoriasYDerechos
<1> QED
  BY <1>1, LedgerHistorias, PTL

LEMMA PasoIrreversible ==
  ASSUME TypeOK, ResponsablePuedeVer, [Next]_ledger, NEW c \in Citas, cita[c] # Nada
  PROVE  /\ cita'[c] # Nada /\ cita'[c].lead = cita[c].lead
         /\ ~Agendada(cita[c]) => cita'[c] = cita[c] /\ histCita'[c] = histCita[c]
<1>1. CASE UNCHANGED <<cita, histCita>>
  BY <1>1
<1>2. ASSUME NEW k \in Citas, NEW op, NEW u, NEW fila \in Cita, NEW horA,
             CitaConDerecho(op, u, k, fila, horA)
      PROVE  /\ cita'[c] # Nada /\ cita'[c].lead = cita[c].lead
             /\ ~Agendada(cita[c]) => cita'[c] = cita[c] /\ histCita'[c] = histCita[c]
  <2>1. \/ k # c /\ cita'[c] = cita[c] /\ histCita'[c] = histCita[c]
        \/ k = c /\ cita'[c] = fila
    BY <1>2, HistoriaCita DEF CitaConDerecho
  <2>2. k = c => Agendada(cita[c]) /\ fila.lead = cita[c].lead /\ fila # Nada
    BY <1>2, NadaAssumption DEF CitaConDerecho
  <2> QED
    BY <2>1, <2>2
<1> QED
  BY <1>1, <1>2, PasoConDerecho DEF ledger

(* No step deletes a meeting, moves it to another lead or touches one that  *)
(* is closed, nor its audit trail.                                          *)
THEOREM LedgerCitaIrreversible == Spec => CitaIrreversible
<1>1. HistoriasYDerechos /\ [Next]_ledger =>
        [\A c \in Citas :
           /\ cita[c] # Nada => cita'[c] # Nada /\ cita'[c].lead = cita[c].lead
           /\ cita[c] # Nada /\ ~Agendada(cita[c])
                => cita'[c] = cita[c] /\ histCita'[c] = histCita[c]]_ledger
  BY PasoIrreversible DEF HistoriasYDerechos, AutorizacionRespetada
<1> QED
  BY <1>1, LedgerHistorias, PTL DEF Spec, CitaIrreversible

-----------------------------------------------------------------------------
(***************************************************************************)
(* The readers.  What a page shows depends on the places of the list, and  *)
(* a write moves the places: a lead goes up at most one place for each     *)
(* lead that leaves.  TabInv keeps that account (Camino) together with     *)
(* what the export counted (Exportado), what the alert counted (Alertado)  *)
(* and the snapshot of the render (Render).                                *)
(***************************************************************************)
(* The leads by arrival: every one that arrived, and only once.             *)
AltasEnOrden ==
  /\ altas \in Seq(Leads)
  /\ \A i, j \in 1 .. Len(altas) : altas[i] = altas[j] => i = j
  /\ {altas[i] : i \in 1 .. Len(altas)} = Ingresados(Datos)

Enlaces == {Enlace(f, a) : f \in Filtros, a \in Alertas \cup {Nada}}

Recorridos ==
  [fase : {"contar", "listar", "pagina"}, u : Usuarios, b : Enlaces, k : Nat \ {0}, total : Nat,
   vistos : SUBSET Leads, siempre : (SUBSET Leads) \cup {Nada}, salidas : Nat, coladas : Nat]

Exportaciones ==
  [fase : {"contar", "leer", "auditar", "responder", "entregada", "rechazada", "fallida"},
   version : Nat, total : Nat, filas : SUBSET Leads]

(* What the board would list now.                                           *)
Lista == Filtrados(Datos, bandeja.u, bandeja.b)

Base ==
  /\ AltasEnOrden
  /\ escrituras \in Nat
  /\ hoy \in Dias
  /\ alta \in [Leads -> [dia : Dias, origen : Origenes] \cup {Nada}]
  /\ asig \in [Leads -> SUBSET Asesores]
  /\ \A l \in Leads : \A x, y \in asig[l] : x = y

Lectores ==
  /\ Base
  /\ bandeja = BandejaLibre \/ bandeja \in Recorridos
  /\ exporta = ExportaLibre \/ exporta \in Exportaciones
  /\ exporta # ExportaLibre => bandeja.fase = "pagina"

(* The export x of the walk w: a Socio asks, and what is counted, read and   *)
(* audited is one.                                                          *)
Exportado(x, w, e, S, aud) ==
  /\ x = ExportaLibre => aud = << >>
  /\ x # ExportaLibre =>
       /\ EsSuperuser(Rol[w.u]) /\ x.version <= e
       /\ x.fase \in {"contar", "leer", "auditar", "rechazada"} => aud = << >>
       /\ x.fase = "leer" /\ e = x.version => ~(Cardinality(S) > EXPORT_MAX_ROWS)
       /\ x.fase \in {"auditar", "responder", "entregada"} =>
            /\ x.filas = S
            /\ Cardinality(x.filas) > EXPORT_MAX_ROWS => e > x.version
       /\ x.fase \in {"responder", "entregada"} =>
            aud = <<[por |-> w.u, n |-> Cardinality(x.filas)]>>
       /\ aud = << >> \/ aud = <<[por |-> w.u, n |-> Cardinality(x.filas)]>>

(* The first of the list that are in W, up to q.                            *)
Hasta(filas, S, W, q) ==
  {i \in 1 .. Len(filas) : filas[i] \in W /\ Puesto(filas, S, i) <= q}

(* How far the pages that were listed went.                                 *)
Listado(x) == (IF x.fase = "pagina" THEN x.k ELSE x.k - 1) * TamPagina

(* The account of a walk over the list S.                                   *)
Camino(x, filas, S) ==
  /\ x.siempre = Nada => x.fase = "contar" /\ x.k = 1 /\ x.vistos = {}
  /\ x.siempre # Nada =>
       /\ x.siempre \subseteq S
       /\ Cardinality(Hasta(filas, S, x.siempre \ x.vistos, Listado(x))) <= x.salidas
  /\ x.fase = "listar" => Cardinality(S) <= x.total + x.coladas
  /\ x.fase = "pagina" /\ UltimaPagina(x) =>
       Cardinality(x.siempre \ x.vistos) <= x.salidas + x.coladas

(* A user with portfolio has seen his own leads only.                       *)
Propios(x, de) == TieneCartera(Rol[x.u]) => \A l \in x.vistos : de[l] = {Ficha[x.u]}

(* A walk that an alert led to finds what the alert counted.                *)
Alertado(x, t, e, filas, S) ==
  x.b.alerta # Nada =>
    /\ t.fase = "dejado" /\ t.version \in Nat /\ t.version <= e
    /\ e = t.version =>
         /\ t.cuenta = Cardinality(S)
         /\ x.fase \in {"listar", "pagina"} => x.total = Cardinality(S)
         /\ x.vistos = {filas[i] : i \in Hasta(filas, S, S, Listado(x))}

Renders(t) ==
  [fase : {"leyendo", "listo"}, u : Usuarios, f : Filtros, foto : {t.foto}, version : Nat,
   v : {t.v}, fallos : {t.fallos}]

(* The render holds what its producers make of the snapshot, which is the    *)
(* data of now if nothing was written since.                                *)
Render(t, e, d) ==
  t.fase \in {"leyendo", "listo"} =>
    /\ t \in Renders(t)
    /\ EsSuperuser(Rol[t.u])
    /\ t.version <= e
    /\ e = t.version => t.foto = d
    /\ \E V : t.v \in Seq(V)
    /\ t.fase = "leyendo" => Len(t.v) < 12
    /\ t.fase = "listo" => Len(t.v) = 12
    /\ \A i \in 1 .. Len(t.v) :
         Productores[i] \in t.fallos \/ t.v[i] = Producir(Productores[i], t.foto, t.f)

TabInv ==
  /\ Lectores
  /\ Exportado(exporta, bandeja, escrituras, Lista, auditoria)
  /\ bandeja \in Recorridos =>
       /\ Camino(bandeja, altas, Lista) /\ Propios(bandeja, asig)
       /\ Alertado(bandeja, tablero, escrituras, altas, Lista)
  /\ Render(tablero, escrituras, Datos)

-----------------------------------------------------------------------------
(***************************************************************************)
(* Places in the list, for any list and any population of it.              *)
(***************************************************************************)
LEMMA Inyecta ==
  ASSUME NEW S, NEW T, IsFiniteSet(T), NEW f \in [S -> T],
         \A x, y \in S : f[x] = f[y] => x = y
  PROVE  IsFiniteSet(S) /\ Cardinality(S) \in Nat /\ Cardinality(T) \in Nat /\ Cardinality(S) <= Cardinality(T)
<1>1. f \in Injection(S, T)
  BY DEF Injection, IsInjective
<1> QED
  BY <1>1, FS_Injection, FS_CardinalityType

LEMMA Cubre ==
  ASSUME NEW S, NEW T, IsFiniteSet(S), NEW f \in [S -> T], \A y \in T : \E x \in S : f[x] = y
  PROVE  IsFiniteSet(T) /\ Cardinality(S) \in Nat /\ Cardinality(T) \in Nat /\ Cardinality(T) <= Cardinality(S)
<1>1. f \in Surjection(S, T)
  BY DEF Surjection
<1> QED
  BY <1>1, FS_Surjection, FS_CardinalityType

LEMMA Intervalo ==
  ASSUME NEW p \in Nat, NEW q \in Nat
  PROVE  /\ IsFiniteSet(p + 1 .. q) /\ Cardinality(p + 1 .. q) \in Nat
         /\ Cardinality(p + 1 .. q) <= (IF q <= p THEN 0 ELSE q - p)
<1>1. p + 1 \in Int /\ q \in Int
  OBVIOUS
<1>2. IsFiniteSet(p + 1 .. q) /\ Cardinality(p + 1 .. q) = IF p + 1 > q THEN 0 ELSE q - (p + 1) + 1
  BY <1>1, FS_Interval
<1> QED
  BY <1>2

LEMMA PuestoEs ==
  ASSUME NEW filas \in Seq(Leads), NEW S, NEW i \in 1 .. Len(filas)
  PROVE  /\ IsFiniteSet({j \in i .. Len(filas) : filas[j] \in S})
         /\ Puesto(filas, S, i) \in Nat
         /\ filas[i] \in S => Puesto(filas, S, i) >= 1
<1> DEFINE D == {j \in i .. Len(filas) : filas[j] \in S}
<1>1. i \in Int /\ Len(filas) \in Int
  OBVIOUS
<1>2. IsFiniteSet(i .. Len(filas))
  BY <1>1, FS_Interval
<1>3. D \in SUBSET (i .. Len(filas))
  OBVIOUS
<1>4. IsFiniteSet(D) /\ Cardinality(D) \in Nat
  BY <1>2, <1>3, FS_Subset, FS_CardinalityType
<1>5. ASSUME filas[i] \in S
      PROVE  Cardinality(D) >= 1
  <2>1. i \in D
    BY <1>1, <1>5
  <2>2. Cardinality(D) # 0
    BY <1>4, <2>1, FS_EmptySet
  <2> QED
    BY <1>4, <2>2
<1> QED
  BY <1>4, <1>5 DEF Puesto

LEMMA PuestoDecrece ==
  ASSUME NEW filas \in Seq(Leads), NEW S,
         NEW i \in 1 .. Len(filas), NEW j \in 1 .. Len(filas), i < j, filas[i] \in S
  PROVE  Puesto(filas, S, j) < Puesto(filas, S, i)
<1> DEFINE D == {m \in i .. Len(filas) : filas[m] \in S}
           E == {m \in j .. Len(filas) : filas[m] \in S}
<1>1. IsFiniteSet(D) /\ IsFiniteSet(E) /\ Cardinality(D) \in Nat /\ Cardinality(E) \in Nat
  BY PuestoEs DEF Puesto
<1>2. E \cup {i} \in SUBSET D /\ i \notin E
  OBVIOUS
<1> HIDE DEF D, E
<1>3. Cardinality(E \cup {i}) = Cardinality(E) + 1
  BY <1>1, <1>2, FS_AddElement
<1>4. Cardinality(E \cup {i}) <= Cardinality(D)
  BY <1>1, <1>2, FS_Subset
<1>5. Cardinality(E) < Cardinality(D)
  BY <1>1, <1>3, <1>4
<1> QED
  BY <1>5 DEF D, E, Puesto

LEMMA PuestoDistinto ==
  ASSUME NEW filas \in Seq(Leads), NEW S,
         NEW i \in 1 .. Len(filas), NEW j \in 1 .. Len(filas),
         filas[i] \in S, filas[j] \in S, Puesto(filas, S, i) = Puesto(filas, S, j)
  PROVE  i = j
<1>0. i \in Nat /\ j \in Nat
  OBVIOUS
<1>1. Puesto(filas, S, i) \in Nat
  BY PuestoEs
<1>2. ~(i < j)
  BY <1>1, PuestoDecrece
<1>3. ~(j < i)
  BY <1>1, PuestoDecrece
<1> QED
  BY <1>0, <1>2, <1>3

(* Between two places there are no more than fit.                           *)
LEMMA EntrePuestos ==
  ASSUME NEW filas \in Seq(Leads), NEW S, NEW p \in Nat, NEW q \in Nat, NEW X,
         X \subseteq 1 .. Len(filas),
         \A i \in X : filas[i] \in S /\ Puesto(filas, S, i) \in p + 1 .. q
  PROVE  IsFiniteSet(X) /\ Cardinality(X) \in Nat /\ Cardinality(X) <= (IF q <= p THEN 0 ELSE q - p)
<1> DEFINE f == [i \in X |-> Puesto(filas, S, i)]
<1>1. f \in [X -> p + 1 .. q]
  OBVIOUS
<1>2. \A i, j \in X : f[i] = f[j] => i = j
  BY PuestoDistinto
<1> HIDE DEF f
<1>3. IsFiniteSet(X) /\ Cardinality(X) \in Nat /\ Cardinality(X) <= Cardinality(p + 1 .. q)
  BY <1>1, <1>2, Intervalo, Inyecta
<1>4. Cardinality(p + 1 .. q) \in Nat /\ Cardinality(p + 1 .. q) <= (IF q <= p THEN 0 ELSE q - p)
  BY Intervalo
<1> QED
  BY <1>3, <1>4

(* Each lead once: a set of them is as large as the set of its places.      *)
Unicas(filas) == \A i, j \in 1 .. Len(filas) : filas[i] = filas[j] => i = j

LEMMA PuestoCota ==
  ASSUME NEW filas \in Seq(Leads), Unicas(filas), NEW S, IsFiniteSet(S), NEW i \in 1 .. Len(filas)
  PROVE  Puesto(filas, S, i) <= Cardinality(S) /\ Cardinality(S) \in Nat
<1> DEFINE D == {j \in i .. Len(filas) : filas[j] \in S}
           f == [j \in D |-> filas[j]]
<1>1. f \in [D -> S]
  OBVIOUS
<1>2. \A j \in D : j \in 1 .. Len(filas) /\ f[j] = filas[j]
  OBVIOUS
<1> HIDE DEF f, D
<1>3. \A x, y \in D : f[x] = f[y] => x = y
  BY <1>2 DEF Unicas
<1>4. Cardinality(D) <= Cardinality(S) /\ Cardinality(S) \in Nat
  BY <1>1, <1>3, Inyecta
<1> QED
  BY <1>4 DEF D, Puesto

LEMMA Imagen ==
  ASSUME NEW filas \in Seq(Leads), NEW X, X \subseteq 1 .. Len(filas), NEW W,
         \A l \in W : \E i \in X : filas[i] = l
  PROVE  IsFiniteSet(W) /\ Cardinality(W) \in Nat /\ Cardinality(X) \in Nat /\ Cardinality(W) <= Cardinality(X)
<1> DEFINE Y == {i \in X : filas[i] \in W}
           f == [i \in Y |-> filas[i]]
<1>1. IsFiniteSet(1 .. Len(filas))
  BY FS_Interval
<1>2. X \in SUBSET (1 .. Len(filas)) /\ Y \in SUBSET X
  OBVIOUS
<1>3. f \in [Y -> W] /\ \A l \in W : \E i \in Y : f[i] = l
  OBVIOUS
<1> HIDE DEF f, Y
<1>4. IsFiniteSet(X) /\ Cardinality(X) \in Nat
  BY <1>1, <1>2, FS_Subset, FS_CardinalityType
<1>5. IsFiniteSet(Y) /\ Cardinality(Y) \in Nat /\ Cardinality(Y) <= Cardinality(X)
  BY <1>2, <1>4, FS_Subset, FS_CardinalityType
<1>6. IsFiniteSet(W) /\ Cardinality(W) \in Nat /\ Cardinality(W) <= Cardinality(Y)
  BY <1>3, <1>5, Cubre
<1> QED
  BY <1>4, <1>5, <1>6

LEMMA HastaEs ==
  ASSUME NEW filas \in Seq(Leads), NEW S, NEW W, NEW q
  PROVE  /\ Hasta(filas, S, W, q) \subseteq 1 .. Len(filas)
         /\ IsFiniteSet(Hasta(filas, S, W, q)) /\ Cardinality(Hasta(filas, S, W, q)) \in Nat
<1> DEFINE H == Hasta(filas, S, W, q)
<1>1. H \in SUBSET (1 .. Len(filas))
  BY DEF Hasta
<1>2. IsFiniteSet(1 .. Len(filas))
  BY FS_Interval
<1> HIDE DEF H
<1>3. IsFiniteSet(H) /\ Cardinality(H) \in Nat
  BY <1>1, <1>2, FS_Subset, FS_CardinalityType
<1> QED
  BY <1>1, <1>3 DEF H

(***************************************************************************)
(* What a write does to the places, what a page does to what was seen, and *)
(* what is left after the last one.                                        *)
(***************************************************************************)
Alarga(filas, tras) ==
  /\ tras \in Seq(Leads) /\ Len(filas) <= Len(tras) /\ Unicas(tras)
  /\ \A i \in 1 .. Len(filas) : tras[i] = filas[i]

(* A lead goes up as many places as leads leave, at most.                   *)
LEMMA PuestoSube ==
  ASSUME NEW filas \in Seq(Leads), Unicas(filas), NEW tras, Alarga(filas, tras),
         NEW S, NEW T, IsFiniteSet(S \ T), NEW i \in 1 .. Len(filas)
  PROVE  /\ Cardinality(S \ T) \in Nat /\ Puesto(tras, T, i) \in Nat
         /\ Puesto(filas, S, i) <= Puesto(tras, T, i) + Cardinality(S \ T)
<1> DEFINE D == {j \in i .. Len(filas) : filas[j] \in S}
           E == {j \in i .. Len(tras) : tras[j] \in T}
           B == {j \in i .. Len(filas) : filas[j] \in S \ T}
           f == [j \in B |-> filas[j]]
<1>1. i \in 1 .. Len(tras) /\ tras \in Seq(Leads)
  BY DEF Alarga
<1>2. IsFiniteSet(E) /\ Cardinality(E) \in Nat /\ Puesto(tras, T, i) = Cardinality(E)
  BY <1>1, PuestoEs DEF Puesto
<1>3. f \in [B -> S \ T] /\ \A j \in B : j \in 1 .. Len(filas) /\ f[j] = filas[j]
  OBVIOUS
<1>4. D \in SUBSET (E \cup B)
  BY DEF Alarga
<1>5. Puesto(filas, S, i) = Cardinality(D)
  BY DEF Puesto
<1> HIDE DEF f, B, D, E
<1>6. \A x, y \in B : f[x] = f[y] => x = y
  BY <1>3 DEF Unicas
<1>7. /\ IsFiniteSet(B) /\ Cardinality(B) \in Nat /\ Cardinality(S \ T) \in Nat
      /\ Cardinality(B) <= Cardinality(S \ T)
  BY <1>3, <1>6, Inyecta
<1>8. IsFiniteSet(E \cup B) /\ Cardinality(E \cup B) = Cardinality(E) + Cardinality(B) - Cardinality(E \cap B)
  BY <1>2, <1>7, FS_Union
<1>9. IsFiniteSet(E \cap B) /\ Cardinality(E \cap B) \in Nat
  BY <1>2, FS_Intersection, FS_CardinalityType
<1>10. IsFiniteSet(D) /\ Cardinality(D) \in Nat /\ Cardinality(D) <= Cardinality(E \cup B)
  BY <1>4, <1>8, FS_Subset, FS_CardinalityType
<1> QED
  BY <1>2, <1>5, <1>7, <1>8, <1>9, <1>10

LEMMA Juntas ==
  ASSUME NEW X, NEW Y, NEW Z, IsFiniteSet(X), IsFiniteSet(Y), Z \subseteq X \cup Y
  PROVE  /\ IsFiniteSet(Z) /\ {Cardinality(X), Cardinality(Y), Cardinality(Z)} \subseteq Nat
         /\ Cardinality(Z) <= Cardinality(X) + Cardinality(Y)
<1>1. Cardinality(X) \in Nat /\ Cardinality(Y) \in Nat
  BY FS_CardinalityType
<1>2. IsFiniteSet(X \cup Y) /\ Cardinality(X \cup Y) = Cardinality(X) + Cardinality(Y) - Cardinality(X \cap Y)
  BY FS_Union
<1>3. IsFiniteSet(X \cap Y) /\ Cardinality(X \cap Y) \in Nat
  BY FS_Intersection, FS_CardinalityType
<1>4. Z \in SUBSET (X \cup Y)
  OBVIOUS
<1>5. IsFiniteSet(Z) /\ Cardinality(Z) \in Nat /\ Cardinality(Z) <= Cardinality(X \cup Y)
  BY <1>2, <1>4, FS_Subset, FS_CardinalityType
<1> QED
  BY <1>1, <1>2, <1>3, <1>5

LEMMA HastaCambia ==
  ASSUME NEW filas \in Seq(Leads), Unicas(filas), NEW tras, Alarga(filas, tras),
         NEW S, NEW T, IsFiniteSet(S \ T), NEW q \in Nat,
         NEW W, NEW V, W \subseteq S, V \subseteq W,
         \A l \in W : \E i \in 1 .. Len(filas) : filas[i] = l
  PROVE  /\ Cardinality(S \ T) \in Nat
         /\ Cardinality(Hasta(tras, T, V, q)) <= Cardinality(Hasta(filas, S, W, q)) + Cardinality(S \ T)
<1> DEFINE n == Cardinality(S \ T)
           H == Hasta(filas, S, W, q)
           G == Hasta(tras, T, V, q)
           C == {i \in 1 .. Len(filas) : filas[i] \in S /\ Puesto(filas, S, i) \in q + 1 .. q + n}
<1>1. n \in Nat /\ IsFiniteSet(H)
  BY FS_CardinalityType, HastaEs
<1>2. G \subseteq H \cup C
  <2> SUFFICES ASSUME NEW i \in G, i \notin H
               PROVE  i \in C
    OBVIOUS
  <2>1. i \in 1 .. Len(tras) /\ tras[i] \in V /\ Puesto(tras, T, i) <= q
    BY DEF Hasta
  <2>2. PICK j \in 1 .. Len(filas) : filas[j] = tras[i]
    BY <2>1
  <2>3. i = j /\ i \in 1 .. Len(filas) /\ filas[i] \in W
    <3>1. j \in 1 .. Len(tras) /\ tras[j] = tras[i]
      BY <2>2 DEF Alarga
    <3>2. i = j
      BY <2>1, <3>1 DEF Alarga, Unicas
    <3> QED
      BY <2>1, <2>2, <3>2
  <2>4. Puesto(filas, S, i) \in Nat
    BY <2>3, PuestoEs
  <2>5. ~(Puesto(filas, S, i) <= q)
    BY <2>3 DEF Hasta
  <2>6. Puesto(tras, T, i) \in Nat /\ Puesto(filas, S, i) <= Puesto(tras, T, i) + n
    BY <2>3, PuestoSube
  <2>7. Puesto(filas, S, i) \in q + 1 .. q + n
    BY <1>1, <2>1, <2>4, <2>5, <2>6
  <2> QED
    BY <2>3, <2>7
<1>3. IsFiniteSet(C) /\ Cardinality(C) \in Nat /\ Cardinality(C) <= n
  <2>1. C \subseteq 1 .. Len(filas) /\ \A i \in C : filas[i] \in S /\ Puesto(filas, S, i) \in q + 1 .. q + n
    OBVIOUS
  <2>2. q + n \in Nat
    BY <1>1
  <2> HIDE DEF C, n
  <2>3. /\ IsFiniteSet(C) /\ Cardinality(C) \in Nat
        /\ Cardinality(C) <= (IF q + n <= q THEN 0 ELSE (q + n) - q)
    BY <2>1, <2>2, EntrePuestos
  <2>4. (IF q + n <= q THEN 0 ELSE (q + n) - q) = n
    BY <1>1
  <2> QED
    BY <2>3, <2>4
<1> HIDE DEF n, H, G, C
<1>4. /\ {Cardinality(H), Cardinality(C), Cardinality(G)} \subseteq Nat
      /\ Cardinality(G) <= Cardinality(H) + Cardinality(C)
  BY <1>1, <1>2, <1>3, Juntas
<1>5. Cardinality(G) <= Cardinality(H) + n
  BY <1>1, <1>3, <1>4
<1> QED
  BY <1>1, <1>5 DEF n, H, G

(* What a page shows is seen.                                               *)
LEMMA HastaListada ==
  ASSUME NEW filas \in Seq(Leads), NEW S, NEW W, W \subseteq S, NEW p \in Nat, NEW q \in Nat
  PROVE  Cardinality(Hasta(filas, S, W \ EnPuestos(filas, S, p, q), q)) <= Cardinality(Hasta(filas, S, W, p))
<1> DEFINE G == Hasta(filas, S, W \ EnPuestos(filas, S, p, q), q)
           H == Hasta(filas, S, W, p)
<1>1. G \subseteq H
  <2> SUFFICES ASSUME NEW i \in G
               PROVE  i \in H
    OBVIOUS
  <2>1. i \in 1 .. Len(filas) /\ filas[i] \in W /\ filas[i] \notin EnPuestos(filas, S, p, q)
        /\ Puesto(filas, S, i) <= q
    BY DEF Hasta
  <2>2. Puesto(filas, S, i) \in Nat
    BY <2>1, PuestoEs
  <2>3. Puesto(filas, S, i) \notin p + 1 .. q
    BY <2>1 DEF EnPuestos
  <2>4. Puesto(filas, S, i) <= p
    BY <2>1, <2>2, <2>3
  <2> QED
    BY <2>1, <2>4 DEF Hasta
<1>2. IsFiniteSet(H)
  BY HastaEs
<1>3. G \in SUBSET H
  BY <1>1
<1> HIDE DEF G, H
<1>4. Cardinality(G) <= Cardinality(H)
  BY <1>2, <1>3, FS_Subset
<1> QED
  BY <1>4 DEF G, H

(* After the last page only those are left that the pages passed over, and   *)
(* those that the count did not count.                                      *)
LEMMA Resto ==
  ASSUME NEW filas \in Seq(Leads), Unicas(filas), NEW S, IsFiniteSet(S), NEW q \in Nat,
         NEW W, W \subseteq S, \A l \in W : \E i \in 1 .. Len(filas) : filas[i] = l
  PROVE  /\ Cardinality(W) \in Nat /\ Cardinality(S) \in Nat
         /\ Cardinality(W) <= Cardinality(Hasta(filas, S, W, q))
                               + (IF Cardinality(S) <= q THEN 0 ELSE Cardinality(S) - q)
<1> DEFINE n == Cardinality(S)
           H == Hasta(filas, S, W, q)
           C == {i \in 1 .. Len(filas) : filas[i] \in S /\ Puesto(filas, S, i) \in q + 1 .. n}
           X == H \cup C
<1>1. n \in Nat /\ IsFiniteSet(H) /\ Cardinality(H) \in Nat /\ H \subseteq 1 .. Len(filas)
  BY FS_CardinalityType, HastaEs
<1>2. IsFiniteSet(C) /\ Cardinality(C) \in Nat /\ Cardinality(C) <= (IF n <= q THEN 0 ELSE n - q)
  <2>1. C \subseteq 1 .. Len(filas) /\ \A i \in C : filas[i] \in S /\ Puesto(filas, S, i) \in q + 1 .. n
    OBVIOUS
  <2> HIDE DEF C, n
  <2> QED
    BY <1>1, <2>1, EntrePuestos
<1>3. X \subseteq 1 .. Len(filas)
  BY <1>1
<1>4. ASSUME NEW l \in W
      PROVE  \E i \in X : filas[i] = l
  <2>1. PICK i \in 1 .. Len(filas) : filas[i] = l
    OBVIOUS
  <2>2. Puesto(filas, S, i) \in Nat /\ Puesto(filas, S, i) <= n
    BY PuestoEs, PuestoCota
  <2>3. CASE Puesto(filas, S, i) <= q
    BY <2>1, <2>3 DEF Hasta
  <2>4. CASE ~(Puesto(filas, S, i) <= q)
    <3>1. Puesto(filas, S, i) \in q + 1 .. n
      BY <1>1, <2>2, <2>4
    <3>2. i \in C
      BY <2>1, <3>1
    <3> QED
      BY <2>1, <3>2
  <2> QED
    BY <2>3, <2>4
<1> HIDE DEF n, H, C
<1>5. Cardinality(X) \in Nat /\ Cardinality(X) <= Cardinality(H) + Cardinality(C)
  <2>1. X \subseteq H \cup C
    OBVIOUS
  <2> HIDE DEF X
  <2> QED
    BY <1>1, <1>2, <2>1, Juntas
<1> HIDE DEF X
<1>6. Cardinality(W) \in Nat /\ Cardinality(W) <= Cardinality(X)
  BY <1>3, <1>4, Imagen
<1>7. Cardinality(W) <= Cardinality(H) + (IF n <= q THEN 0 ELSE n - q)
  BY <1>1, <1>2, <1>5, <1>6
<1> QED
  BY <1>1, <1>6, <1>7 DEF n, H

-----------------------------------------------------------------------------
(***************************************************************************)
(* What a write leaves.                                                    *)
(***************************************************************************)
LEMMA FiltradosIngresados ==
  ASSUME NEW d, NEW u, NEW b
  PROVE  Filtrados(d, u, b) \subseteq Ingresados(d)
BY DEF Filtrados, Poblacion

LEMMA IngresadosEs == Ingresados(Datos) = {l \in Leads : alta[l] # Nada}
BY DEF Ingresados, Datos

LEMMA FiltradosFinitos ==
  ASSUME AltasEnOrden, NEW u, NEW b
  PROVE  /\ IsFiniteSet(Filtrados(Datos, u, b)) /\ Cardinality(Filtrados(Datos, u, b)) \in Nat
         /\ Filtrados(Datos, u, b) \in SUBSET Leads
         /\ \A l \in Filtrados(Datos, u, b) : \E i \in 1 .. Len(altas) : altas[i] = l
<1> DEFINE S == Filtrados(Datos, u, b)
<1>1. S \subseteq Ingresados(Datos) /\ Ingresados(Datos) \subseteq Leads
  BY FiltradosIngresados, IngresadosEs
<1> HIDE DEF S
<1>2. \A l \in S : \E i \in 1 .. Len(altas) : altas[i] = l
  BY <1>1 DEF AltasEnOrden
<1>3. altas \in Seq(Leads)
  BY DEF AltasEnOrden
<1>4. IsFiniteSet(S) /\ Cardinality(S) \in Nat
  BY <1>2, <1>3, Imagen
<1> QED
  BY <1>1, <1>2, <1>4 DEF S

LEMMA FiltradosTras ==
  ASSUME AltasEnOrden', NEW u, NEW b
  PROVE  /\ IsFiniteSet(Filtrados(Datos', u, b)) /\ Cardinality(Filtrados(Datos', u, b)) \in Nat
         /\ Filtrados(Datos', u, b) \in SUBSET Leads
<1> DEFINE S == Filtrados(Datos', u, b)
           filas == altas'
           J == {l \in Leads : alta'[l] # Nada}
<1>1. S \subseteq Ingresados(Datos')
  BY FiltradosIngresados
<1>2. Ingresados(Datos') = J
  BY DEF Ingresados, Datos
<1>3. filas \in Seq(Leads) /\ {filas[i] : i \in 1 .. Len(filas)} = J
  BY DEF AltasEnOrden, Ingresados, Datos
<1>4. S \in SUBSET Leads
  BY <1>1, <1>2
<1>5. \A l \in S : \E i \in 1 .. Len(filas) : filas[i] = l
  BY <1>1, <1>2, <1>3
<1> HIDE DEF S, filas, J
<1>6. IsFiniteSet(S) /\ Cardinality(S) \in Nat
  BY <1>3, <1>5, Imagen
<1> QED
  BY <1>4, <1>6 DEF S

(* The advisor of a lead, once it has one, is the one it has.               *)
Asignados_ ==
  /\ asig' \in [Leads -> SUBSET Asesores]
  /\ \A l \in Leads : asig'[l] = asig[l] \/ (asig[l] = {} /\ \E a \in Asesores : asig'[l] = {a})

LEMMA EscrituraDatos ==
  ASSUME Lectores, Escritura
  PROVE  /\ Escribir /\ AltasEnOrden' /\ Alarga(altas, altas') /\ Asignados_
         /\ hoy' \in Dias /\ alta' \in [Leads -> [dia : Dias, origen : Origenes] \cup {Nada}]
<1>0. /\ altas \in Seq(Leads) /\ Unicas(altas) /\ {altas[i] : i \in 1 .. Len(altas)} = Ingresados(Datos)
      /\ hoy \in Dias /\ alta \in [Leads -> [dia : Dias, origen : Origenes] \cup {Nada}]
      /\ asig \in [Leads -> SUBSET Asesores]
  BY DEF Lectores, Base, AltasEnOrden, Unicas
<1>1. ASSUME UNCHANGED <<alta, altas>>
      PROVE  AltasEnOrden' /\ Alarga(altas, altas')
  <2>1. Ingresados(Datos)' = Ingresados(Datos)
    BY <1>1 DEF Ingresados, Datos
  <2> QED
    BY <1>0, <1>1, <2>1 DEF AltasEnOrden, Alarga, Unicas
<1>2. ASSUME NEW l \in Leads, NEW o \in Origenes, Ingresar(l, o)
      PROVE  /\ Escribir /\ AltasEnOrden' /\ Alarga(altas, altas') /\ asig' = asig /\ hoy' = hoy
             /\ alta' \in [Leads -> [dia : Dias, origen : Origenes] \cup {Nada}]
  <2> DEFINE r == [dia |-> hoy, origen |-> o]
  <2>1. /\ Escribir /\ asig' = asig /\ hoy' = hoy /\ alta[l] = Nada
        /\ alta' = [alta EXCEPT ![l] = r] /\ altas' = Append(altas, l)
    BY <1>2 DEF Ingresar, ledger
  <2>2. r \in [dia : Dias, origen : Origenes] /\ r # Nada
    <3>1. r \in [dia : Dias, origen : Origenes]
      BY <1>0
    <3> QED
      BY <3>1, TableroAssumption
  <2> HIDE DEF r
  <2>3. alta' \in [Leads -> [dia : Dias, origen : Origenes] \cup {Nada}]
    BY <1>0, <2>1, <2>2
  <2>4. {k \in Leads : alta'[k] # Nada} = {k \in Leads : alta[k] # Nada} \cup {l}
    BY <1>0, <2>1, <2>2
  <2>5. Ingresados(Datos)' = Ingresados(Datos) \cup {l} /\ l \notin Ingresados(Datos)
    BY <2>1, <2>4 DEF Ingresados, Datos
  <2>6. /\ altas' \in Seq(Leads) /\ Len(altas') = Len(altas) + 1 /\ Len(altas) \in Nat
        /\ \A i \in 1 .. Len(altas) : altas'[i] = altas[i]
        /\ altas'[Len(altas) + 1] = l
    BY <1>0, <2>1
  <2>7. \A i \in 1 .. Len(altas) : altas[i] # l
    BY <1>0, <2>5
  <2>8. \A i \in 1 .. Len(altas') : i \in 1 .. Len(altas) \/ i = Len(altas) + 1
    BY <2>6
  <2>9. Unicas(altas')
    BY <1>0, <2>6, <2>7, <2>8 DEF Unicas
  <2>10. {altas'[i] : i \in 1 .. Len(altas')} = {altas[i] : i \in 1 .. Len(altas)} \cup {l}
    <3>1. 1 .. Len(altas') = 1 .. Len(altas) \cup {Len(altas) + 1}
      BY <2>6
    <3> QED
      BY <2>6, <3>1
  <2>11. AltasEnOrden'
    BY <1>0, <2>5, <2>6, <2>9, <2>10 DEF AltasEnOrden, Unicas
  <2>12. Alarga(altas, altas')
    BY <2>6, <2>9 DEF Alarga
  <2> QED
    BY <2>1, <2>3, <2>11, <2>12
<1>3. ASSUME NEW u \in Usuarios, NEW l \in Leads, NEW e \in Manuales, Mover(u, l, e)
      PROVE  Escribir /\ UNCHANGED <<hoy, alta, altas, asig>>
  BY <1>3 DEF Mover, CambiarEstado
<1>4. ASSUME NEW u \in Usuarios, NEW l \in Leads, NEW a \in Asesores, Repartir(u, l, a)
      PROVE  Escribir /\ UNCHANGED <<hoy, alta, altas>> /\ Asignados_
  <2>1. /\ Escribir /\ UNCHANGED <<hoy, alta, altas>>
        /\ asig[l] = {} /\ asig' = [asig EXCEPT ![l] = {a}]
    BY <1>4 DEF Repartir, Asignar
  <2> QED
    BY <1>0, <2>1 DEF Asignados_
<1>5. ASSUME NEW u \in Usuarios, NEW l \in Leads, Anotar(u, l)
      PROVE  Escribir /\ UNCHANGED <<hoy, alta, altas, asig>>
  BY <1>5 DEF Anotar, ledger
<1>6. CASE PasarDia
  <2>1. Escribir /\ UNCHANGED <<alta, altas, asig>> /\ hoy' \in Dias
    BY <1>6 DEF PasarDia, ledger
  <2> QED
    BY <1>0, <1>1, <2>1 DEF Asignados_
<1> QED
  BY <1>0, <1>1, <1>2, <1>3, <1>4, <1>5, <1>6 DEF Escritura, Asignados_

(* What a walk keeps account of when the list changes under it.             *)
Cuenta(x, y, S, T) ==
  /\ y \in Recorridos
  /\ y.fase = x.fase /\ y.u = x.u /\ y.b = x.b /\ y.k = x.k /\ y.total = x.total
  /\ y.vistos = x.vistos
  /\ IF x.siempre = Nada THEN y.siempre = Nada /\ y.salidas = x.salidas
     ELSE /\ y.siempre = x.siempre \cap T
          /\ y.salidas = x.salidas + Cardinality(S \ T)
          /\ x.fase = "listar" => y.coladas = x.coladas + Cardinality(T \ S)
          /\ x.fase # "listar" => y.coladas = x.coladas

LEMMA EscribirEs ==
  ASSUME Lectores, Escribir, AltasEnOrden'
  PROVE  /\ escrituras' = escrituras + 1 /\ UNCHANGED <<tablero, exporta, auditoria>>
         /\ exporta.fase \in {"libre", "contar", "leer"}
         /\ bandeja = BandejaLibre => bandeja' = BandejaLibre
         /\ bandeja \in Recorridos =>
              Cuenta(bandeja, bandeja', Lista, Filtrados(Datos', bandeja.u, bandeja.b))
<1> DEFINE x == bandeja
           S == Filtrados(Datos, x.u, x.b)
           T == Filtrados(Datos', x.u, x.b)
           y == [x EXCEPT !.siempre = @ \cap T, !.salidas = @ + Cardinality(S \ T),
                          !.coladas = @ + (IF x.fase = "listar" THEN Cardinality(T \ S) ELSE 0)]
<1>1. /\ escrituras' = escrituras + 1 /\ UNCHANGED <<tablero, exporta, auditoria>>
      /\ exporta.fase \in {"libre", "contar", "leer"}
      /\ bandeja' = IF x.fase = "libre" \/ x.siempre = Nada THEN x ELSE y
  BY DEF Escribir
<1>2. x = BandejaLibre => bandeja' = BandejaLibre
  BY <1>1 DEF BandejaLibre
<1>3. ASSUME x \in Recorridos
      PROVE  Cuenta(x, bandeja', S, T)
  <2>1. x.fase # "libre" /\ x.salidas \in Nat /\ x.coladas \in Nat /\ x.siempre \in (SUBSET Leads) \cup {Nada}
    BY <1>3 DEF Recorridos
  <2>2. CASE x.siempre = Nada
    BY <1>1, <1>3, <2>1, <2>2 DEF Cuenta
  <2>3. CASE x.siempre # Nada
    <3>1. bandeja' = y
      BY <1>1, <2>1, <2>3
    <3>2. IsFiniteSet(S) /\ IsFiniteSet(T)
      BY FiltradosFinitos, FiltradosTras DEF Lectores, Base
    <3> HIDE DEF S, T
    <3>3. Cardinality(S \ T) \in Nat /\ Cardinality(T \ S) \in Nat
      BY <3>2, FS_Difference, FS_CardinalityType
    <3> DEFINE c == IF x.fase = "listar" THEN Cardinality(T \ S) ELSE 0
    <3>4. c \in Nat /\ x.salidas + Cardinality(S \ T) \in Nat /\ x.coladas + c \in Nat
      BY <2>1, <3>3
    <3>5. x.siempre \cap T \in SUBSET Leads
      <4>1. x.siempre \in SUBSET Leads
        BY <2>1, <2>3
      <4> QED
        BY <4>1
    <3>6. y = [x EXCEPT !.siempre = @ \cap T, !.salidas = @ + Cardinality(S \ T), !.coladas = @ + c]
      OBVIOUS
    <3>7. x.fase # "listar" => x.coladas + c = x.coladas
      BY <2>1
    <3>8. x.fase = "listar" => c = Cardinality(T \ S)
      OBVIOUS
    <3> HIDE DEF c
    <3>9. y \in Recorridos
      BY <1>3, <3>4, <3>5, <3>6 DEF Recorridos
    <3>10. /\ y.fase = x.fase /\ y.u = x.u /\ y.b = x.b /\ y.k = x.k /\ y.total = x.total
           /\ y.vistos = x.vistos /\ y.siempre = x.siempre \cap T
           /\ y.salidas = x.salidas + Cardinality(S \ T) /\ y.coladas = x.coladas + c
      BY <1>3, <3>6 DEF Recorridos
    <3> HIDE DEF y
    <3> QED
      BY <2>3, <3>1, <3>7, <3>8, <3>9, <3>10 DEF Cuenta
  <2> QED
    BY <2>2, <2>3
<1> QED
  BY <1>1, <1>2, <1>3 DEF Lista

-----------------------------------------------------------------------------
(***************************************************************************)
(* The account of the walk, step by step.                                  *)
(***************************************************************************)
LEMMA Paginas ==
  ASSUME NEW k \in Nat \ {0}
  PROVE  /\ k * TamPagina \in Nat /\ (k - 1) * TamPagina \in Nat
         /\ (k + 1) - 1 = k /\ 0 * TamPagina = 0
<1>1. TamPagina \in Nat
  BY TableroAssumption
<1>2. k \in Nat /\ k - 1 \in Nat /\ (k + 1) - 1 = k
  OBVIOUS
<1> QED
  BY <1>1, <1>2

LEMMA ListadoEs ==
  ASSUME NEW x \in Recorridos
  PROVE  /\ Listado(x) \in Nat /\ x.k \in Nat \ {0}
         /\ x.fase = "pagina" => Listado(x) = x.k * TamPagina
         /\ x.fase # "pagina" => Listado(x) = (x.k - 1) * TamPagina
<1>1. x.k \in Nat \ {0}
  BY DEF Recorridos
<1> QED
  BY <1>1, Paginas DEF Listado

LEMMA CaminoEscribir ==
  ASSUME NEW x \in Recorridos, NEW y, NEW filas \in Seq(Leads), Unicas(filas), NEW tras, Alarga(filas, tras),
         NEW S, NEW T, IsFiniteSet(S), IsFiniteSet(T), \A l \in S : \E i \in 1 .. Len(filas) : filas[i] = l,
         Cuenta(x, y, S, T), Camino(x, filas, S)
  PROVE  Camino(y, tras, T)
<1>1. /\ y \in Recorridos /\ y.fase = x.fase /\ y.k = x.k /\ y.total = x.total /\ y.vistos = x.vistos
      /\ x.siempre = Nada => y.siempre = Nada
  BY DEF Cuenta
<1>2. CASE x.siempre = Nada
  BY <1>1, <1>2 DEF Camino
<1>3. CASE x.siempre # Nada
  <2> DEFINE q == Listado(x)
             W == x.siempre \ x.vistos
             V == y.siempre \ y.vistos
  <2>1. /\ y.siempre = x.siempre \cap T /\ y.salidas = x.salidas + Cardinality(S \ T)
        /\ x.fase = "listar" => y.coladas = x.coladas + Cardinality(T \ S)
        /\ x.fase # "listar" => y.coladas = x.coladas
    BY <1>3 DEF Cuenta
  <2>2. /\ x.siempre \subseteq S /\ Cardinality(Hasta(filas, S, W, q)) <= x.salidas
        /\ x.fase = "listar" => Cardinality(S) <= x.total + x.coladas
        /\ x.fase = "pagina" /\ UltimaPagina(x) => Cardinality(W) <= x.salidas + x.coladas
    BY <1>3 DEF Camino
  <2>3. /\ x.siempre \in SUBSET Leads /\ x.salidas \in Nat /\ x.coladas \in Nat /\ x.total \in Nat
        /\ y.siempre \in (SUBSET Leads) \cup {Nada}
    BY <1>1, <1>3 DEF Recorridos
  <2>4. y.siempre # Nada
    <3>1. y.siempre \in SUBSET Leads
      BY <2>1, <2>3
    <3> QED
      BY <3>1, TableroAssumption
  <2>5. q \in Nat /\ Listado(y) = q /\ (UltimaPagina(y) <=> UltimaPagina(x))
    BY <1>1, ListadoEs DEF Listado, UltimaPagina
  <2>6. IsFiniteSet(S \ T) /\ IsFiniteSet(T \ S) /\ Cardinality(S \ T) \in Nat /\ Cardinality(T \ S) \in Nat
    BY FS_Difference, FS_CardinalityType
  <2>7. W \subseteq S /\ V \subseteq W /\ y.siempre \subseteq T
    BY <1>1, <2>1, <2>2
  <2>8. \A l \in W : \E i \in 1 .. Len(filas) : filas[i] = l
    BY <2>7
  <2> HIDE DEF q, V, W
  <2>9. Cardinality(Hasta(tras, T, V, q)) <= y.salidas
    <3>1. Cardinality(Hasta(tras, T, V, q)) <= Cardinality(Hasta(filas, S, W, q)) + Cardinality(S \ T)
      BY <2>5, <2>6, <2>7, <2>8, HastaCambia
    <3>2. Cardinality(Hasta(tras, T, V, q)) \in Nat /\ Cardinality(Hasta(filas, S, W, q)) \in Nat
      BY HastaEs DEF Alarga
    <3> QED
      BY <2>1, <2>2, <2>3, <2>6, <3>1, <3>2
  <2>10. ASSUME x.fase = "listar"
         PROVE  Cardinality(T) <= y.total + y.coladas
    <3>1. /\ {Cardinality(S), Cardinality(T \ S), Cardinality(T)} \subseteq Nat
          /\ Cardinality(T) <= Cardinality(S) + Cardinality(T \ S)
      <4>1. T \subseteq S \cup (T \ S)
        OBVIOUS
      <4> QED
        BY <2>6, <4>1, Juntas
    <3> QED
      BY <1>1, <2>1, <2>2, <2>3, <2>10, <3>1
  <2>11. ASSUME x.fase = "pagina", UltimaPagina(x)
         PROVE  Cardinality(V) <= y.salidas + y.coladas
    <3>1. W \in SUBSET S /\ V \in SUBSET W
      BY <2>7
    <3>2. IsFiniteSet(W)
      BY <3>1, FS_Subset
    <3>3. Cardinality(W) \in Nat /\ Cardinality(V) \in Nat /\ Cardinality(V) <= Cardinality(W)
      BY <3>1, <3>2, FS_Subset, FS_CardinalityType
    <3>4. y.coladas = x.coladas
      BY <2>1, <2>11
    <3> QED
      BY <2>1, <2>2, <2>3, <2>6, <2>11, <3>3, <3>4
  <2> QED
    BY <1>1, <2>4, <2>5, <2>7, <2>9, <2>10, <2>11 DEF Camino, V, q
<1> QED
  BY <1>2, <1>3

Contado(x, y, S) ==
  /\ x.fase = "contar" /\ y \in Recorridos
  /\ y.fase = "listar" /\ y.u = x.u /\ y.b = x.b /\ y.k = x.k /\ y.vistos = x.vistos
  /\ y.salidas = x.salidas /\ y.coladas = 0 /\ y.total = Cardinality(S)
  /\ y.siempre = IF x.k = 1 THEN S ELSE x.siempre

LEMMA CaminoContar ==
  ASSUME NEW x \in Recorridos, NEW y, NEW filas \in Seq(Leads), NEW S, IsFiniteSet(S), S \in SUBSET Leads,
         Contado(x, y, S), Camino(x, filas, S)
  PROVE  Camino(y, filas, S)
<1>1. /\ x.fase = "contar" /\ y \in Recorridos
      /\ y.fase = "listar" /\ y.k = x.k /\ y.vistos = x.vistos
      /\ y.salidas = x.salidas /\ y.coladas = 0 /\ y.total = Cardinality(S)
      /\ y.siempre = IF x.k = 1 THEN S ELSE x.siempre
  BY DEF Contado
<1>2. S # Nada /\ Cardinality(S) \in Nat
  BY TableroAssumption, FS_CardinalityType
<1>3. Listado(y) = Listado(x) /\ x.salidas \in Nat
  BY <1>1 DEF Listado, Recorridos
<1>4. CASE x.k = 1
  <2> DEFINE W == y.siempre \ y.vistos
             H == Hasta(filas, S, W, Listado(y))
  <2>1. Listado(y) = 0
    BY <1>1, <1>3, <1>4, ListadoEs, Paginas
  <2>2. H = {}
    <3> SUFFICES ASSUME NEW i \in H
                 PROVE  FALSE
      OBVIOUS
    <3>1. i \in 1 .. Len(filas) /\ filas[i] \in S /\ Puesto(filas, S, i) <= 0
      BY <1>1, <1>4, <2>1 DEF Hasta
    <3>2. Puesto(filas, S, i) \in Nat /\ Puesto(filas, S, i) >= 1
      BY <3>1, PuestoEs
    <3> QED
      BY <3>1, <3>2
  <2> HIDE DEF H
  <2>3. Cardinality(H) <= y.salidas
    BY <1>1, <1>3, <2>2, FS_EmptySet
  <2> QED
    BY <1>1, <1>2, <1>4, <2>3 DEF Camino, H
<1>5. CASE x.k # 1
  BY <1>1, <1>2, <1>3, <1>5 DEF Camino
<1> QED
  BY <1>4, <1>5

Listada(x, y, P) ==
  /\ x.fase = "listar" /\ y \in Recorridos
  /\ y.fase = "pagina" /\ y.u = x.u /\ y.b = x.b /\ y.k = x.k /\ y.vistos = x.vistos \cup P
  /\ y.salidas = x.salidas /\ y.coladas = x.coladas /\ y.total = x.total /\ y.siempre = x.siempre

LEMMA CaminoListar ==
  ASSUME NEW x \in Recorridos, NEW y, NEW filas \in Seq(Leads), Unicas(filas), NEW S, IsFiniteSet(S),
         \A l \in S : \E i \in 1 .. Len(filas) : filas[i] = l,
         Listada(x, y, EnPuestos(filas, S, (x.k - 1) * TamPagina, x.k * TamPagina)), Camino(x, filas, S)
  PROVE  Camino(y, filas, S)
<1> DEFINE p == (x.k - 1) * TamPagina
           q == x.k * TamPagina
           P == EnPuestos(filas, S, p, q)
           W == x.siempre \ x.vistos
           V == y.siempre \ y.vistos
<1>1. /\ x.fase = "listar" /\ y \in Recorridos /\ y.fase = "pagina" /\ y.k = x.k /\ y.vistos = x.vistos \cup P
      /\ y.salidas = x.salidas /\ y.coladas = x.coladas /\ y.total = x.total /\ y.siempre = x.siempre
  BY DEF Listada
<1>2. p \in Nat /\ q \in Nat /\ Listado(x) = p /\ Listado(y) = q /\ (UltimaPagina(y) <=> q >= x.total)
  BY <1>1, ListadoEs, Paginas DEF UltimaPagina
<1>3. /\ x.siempre # Nada /\ x.siempre \subseteq S
      /\ Cardinality(Hasta(filas, S, W, p)) <= x.salidas
      /\ Cardinality(S) <= x.total + x.coladas
  BY <1>1, <1>2 DEF Camino
<1>4. x.salidas \in Nat /\ x.coladas \in Nat /\ x.total \in Nat
  BY DEF Recorridos
<1>5. V = W \ P /\ W \subseteq S /\ V \subseteq S
  BY <1>1, <1>3
<1>6. \A l \in V : \E i \in 1 .. Len(filas) : filas[i] = l
  BY <1>5
<1> HIDE DEF p, q, V, W
<1>7. Cardinality(Hasta(filas, S, W \ EnPuestos(filas, S, p, q), q)) <= Cardinality(Hasta(filas, S, W, p))
  BY <1>2, <1>5, HastaListada
<1>8. Cardinality(Hasta(filas, S, V, q)) <= Cardinality(Hasta(filas, S, W, p))
  BY <1>5, <1>7
<1>9. Cardinality(Hasta(filas, S, V, q)) \in Nat /\ Cardinality(Hasta(filas, S, W, p)) \in Nat
  BY HastaEs
<1>10. Cardinality(Hasta(filas, S, V, q)) <= y.salidas
  BY <1>1, <1>3, <1>4, <1>8, <1>9
<1>11. ASSUME q >= x.total
       PROVE  Cardinality(V) <= y.salidas + y.coladas
  <2>1. /\ Cardinality(V) \in Nat /\ Cardinality(S) \in Nat
        /\ Cardinality(V) <= Cardinality(Hasta(filas, S, V, q))
                               + (IF Cardinality(S) <= q THEN 0 ELSE Cardinality(S) - q)
    BY <1>2, <1>5, <1>6, Resto
  <2>2. (IF Cardinality(S) <= q THEN 0 ELSE Cardinality(S) - q) <= y.coladas
    BY <1>1, <1>2, <1>3, <1>4, <1>11, <2>1
  <2> QED
    BY <1>1, <1>2, <1>4, <1>9, <1>10, <2>1, <2>2
<1> QED
  BY <1>1, <1>2, <1>3, <1>10, <1>11 DEF Camino, V

Siguiente(x, y) ==
  /\ x.fase = "pagina" /\ y \in Recorridos
  /\ y.fase = "contar" /\ y.u = x.u /\ y.b = x.b /\ y.k = x.k + 1 /\ y.vistos = x.vistos
  /\ y.salidas = x.salidas /\ y.coladas = x.coladas /\ y.total = x.total /\ y.siempre = x.siempre

LEMMA CaminoSiguiente ==
  ASSUME NEW x \in Recorridos, NEW y, NEW filas, NEW S, Siguiente(x, y), Camino(x, filas, S)
  PROVE  Camino(y, filas, S)
<1>1. /\ x.fase = "pagina" /\ y \in Recorridos /\ y.fase = "contar" /\ y.k = x.k + 1 /\ y.vistos = x.vistos
      /\ y.salidas = x.salidas /\ y.siempre = x.siempre
  BY DEF Siguiente
<1>2. Listado(y) = Listado(x)
  BY <1>1, ListadoEs, Paginas
<1> QED
  BY <1>1, <1>2 DEF Camino

-----------------------------------------------------------------------------
(***************************************************************************)
(* The walk that an alert led to, and the portfolio.                       *)
(***************************************************************************)
LEMMA AlertadoEscribir ==
  ASSUME NEW x, NEW y, NEW t, NEW e \in Nat, NEW filas, NEW tras, NEW S, NEW T,
         y.b = x.b, Alertado(x, t, e, filas, S)
  PROVE  Alertado(y, t, e + 1, tras, T)
<1>1. ASSUME y.b.alerta # Nada
      PROVE  t.fase = "dejado" /\ t.version \in Nat /\ t.version <= e
  BY <1>1 DEF Alertado
<1>2. ASSUME NEW n \in Nat, n <= e
      PROVE  n <= e + 1 /\ e + 1 # n
  BY <1>2
<1> QED
  BY <1>1, <1>2 DEF Alertado

LEMMA AlertadoContar ==
  ASSUME NEW x \in Recorridos, NEW y, NEW t, NEW e, NEW filas, NEW S,
         Contado(x, y, S), Alertado(x, t, e, filas, S)
  PROVE  Alertado(y, t, e, filas, S)
BY DEF Alertado, Contado, Listado

LEMMA AlertadoSiguiente ==
  ASSUME NEW x \in Recorridos, NEW y, NEW t, NEW e, NEW filas, NEW S,
         Siguiente(x, y), Alertado(x, t, e, filas, S)
  PROVE  Alertado(y, t, e, filas, S)
<1>1. y \in Recorridos /\ x.fase = "pagina" /\ y.fase = "contar" /\ y.b = x.b /\ y.vistos = x.vistos /\ y.k = x.k + 1
  BY DEF Siguiente
<1>2. Listado(y) = Listado(x)
  BY <1>1, ListadoEs, Paginas
<1> QED
  BY <1>1, <1>2 DEF Alertado

LEMMA AlertadoListar ==
  ASSUME NEW x \in Recorridos, NEW y, NEW t, NEW e, NEW filas \in Seq(Leads), NEW S,
         Listada(x, y, EnPuestos(filas, S, (x.k - 1) * TamPagina, x.k * TamPagina)),
         Alertado(x, t, e, filas, S)
  PROVE  Alertado(y, t, e, filas, S)
<1> DEFINE p == (x.k - 1) * TamPagina
           q == x.k * TamPagina
           P == EnPuestos(filas, S, p, q)
<1>1. /\ x.fase = "listar" /\ y \in Recorridos /\ y.fase = "pagina" /\ y.k = x.k /\ y.vistos = x.vistos \cup P
      /\ y.b = x.b /\ y.total = x.total
  BY DEF Listada
<1>2. p \in Nat /\ q \in Nat /\ Listado(x) = p /\ Listado(y) = q
  BY <1>1, ListadoEs, Paginas
<1>3. p <= q
  <2>1. x.k \in Nat \ {0} /\ TamPagina \in Nat
    BY TableroAssumption DEF Recorridos
  <2>2. q = p + TamPagina
    BY <2>1
  <2> QED
    BY <1>2, <2>1, <2>2
<1> HIDE DEF p, q
<1>4. {filas[i] : i \in Hasta(filas, S, S, q)} = {filas[i] : i \in Hasta(filas, S, S, p)} \cup P
  <2>1. ASSUME NEW i \in 1 .. Len(filas), filas[i] \in S
        PROVE  Puesto(filas, S, i) <= q <=> (Puesto(filas, S, i) <= p \/ Puesto(filas, S, i) \in p + 1 .. q)
    <3>1. Puesto(filas, S, i) \in Nat
      BY PuestoEs
    <3> QED
      BY <1>2, <1>3, <3>1
  <2> QED
    BY <2>1 DEF Hasta, EnPuestos
<1> QED
  BY <1>1, <1>2, <1>4 DEF Alertado

LEMMA HastaCero ==
  ASSUME NEW filas \in Seq(Leads), NEW S
  PROVE  {filas[i] : i \in Hasta(filas, S, S, 0)} = {}
<1> SUFFICES ASSUME NEW i \in Hasta(filas, S, S, 0)
             PROVE  FALSE
  OBVIOUS
<1>1. i \in 1 .. Len(filas) /\ filas[i] \in S /\ Puesto(filas, S, i) <= 0
  BY DEF Hasta
<1>2. Puesto(filas, S, i) \in Nat /\ Puesto(filas, S, i) >= 1
  BY <1>1, PuestoEs
<1> QED
  BY <1>1, <1>2

(* A Socio follows an alert to the leads it counted.                        *)
LEMMA PoblacionDeEnlace ==
  ASSUME NEW d, NEW f, NEW a
  PROVE  Poblacion(d, Enlace(f, a)) = Poblacion(d, f)
BY DEF Poblacion, Dimensiones, Enlace

LEMMA AlertaCuenta ==
  ASSUME NEW d, NEW u, EsSuperuser(Rol[u]), NEW f
  PROVE  /\ Filtrados(d, u, Enlace(f, "estancados")) = Estancados(d, Poblacion(d, f))
         /\ Filtrados(d, u, Enlace(f, "sin_asignar")) = {l \in Poblacion(d, f) : SinAsignar(d, l)}
<1>1. ~TieneCartera(Rol[u])
  BY DEF TieneCartera, EsSuperuser
<1>2. \A a : Enlace(f, a).alerta = a
  BY DEF Enlace
<1> QED
  BY <1>1, <1>2, PoblacionDeEnlace DEF Filtrados, Estancados

LEMMA RenderCuenta ==
  ASSUME NEW t, NEW e, NEW d, Render(t, e, d), t.fase = "listo", ~SeccionFallida(t, "resumen")
  PROVE  /\ Valor(t, "estancados") = Cardinality(Estancados(t.foto, Poblacion(t.foto, t.f)))
         /\ Valor(t, "kpis").sinAsignar = Cardinality({l \in Poblacion(t.foto, t.f) : SinAsignar(t.foto, l)})
<1>1. /\ Len(t.v) = 12
      /\ \A i \in 1 .. Len(t.v) :
           Productores[i] \in t.fallos \/ t.v[i] = Producir(Productores[i], t.foto, t.f)
  BY DEF Render
<1>2. "kpis" \notin t.fallos /\ "estancados" \notin t.fallos
  BY DEF SeccionFallida, SeccionDe
<1>3. Productores[1] = "kpis" /\ Productores[2] = "estancados" /\ DOMAIN Productores = 1 .. 12
  BY DEF Productores
<1>4. \A i \in 1 .. 12 : (Productores[i] = "kpis" => i = 1) /\ (Productores[i] = "estancados" => i = 2)
  BY DEF Productores
<1>5. t.v[1] = Producir("kpis", t.foto, t.f) /\ t.v[2] = Producir("estancados", t.foto, t.f)
  BY <1>1, <1>2, <1>3
<1>6. Valor(t, "kpis") = t.v[1] /\ Valor(t, "estancados") = t.v[2]
  <2>1. (CHOOSE i \in DOMAIN Productores : Productores[i] = "kpis") = 1
    BY <1>3, <1>4
  <2>2. (CHOOSE i \in DOMAIN Productores : Productores[i] = "estancados") = 2
    BY <1>3, <1>4
  <2> QED
    BY <2>1, <2>2 DEF Valor
<1>7. /\ Producir("estancados", t.foto, t.f) = Cardinality(Estancados(t.foto, Poblacion(t.foto, t.f)))
      /\ Producir("kpis", t.foto, t.f) = get_kpi_snapshot(t.foto, Poblacion(t.foto, t.f))
  BY DEF Producir
<1>8. get_kpi_snapshot(t.foto, Poblacion(t.foto, t.f)).sinAsignar =
        Cardinality({l \in Poblacion(t.foto, t.f) : SinAsignar(t.foto, l)})
  BY DEF get_kpi_snapshot
<1> QED
  BY <1>5, <1>6, <1>7, <1>8

LEMMA CarteraPropia ==
  ASSUME Lectores, NEW u, NEW b \in Enlaces, TieneCartera(Rol[u])
  PROVE  \A l \in Filtrados(Datos, u, b) : l \in Leads /\ asig[l] = {Ficha[u]}
<1> DEFINE c == [b EXCEPT !.asesor = Ficha[u]]
<1>1. c.asesor = Ficha[u]
  BY DEF Enlaces, Enlace
<1>2. \A l \in Filtrados(Datos, u, b) : l \in Leads /\ Ficha[u] # Nada /\ Dimensiones(Datos, c, l)
  BY DEF Filtrados, Poblacion, Ingresados
<1> HIDE DEF c
<1>3. \A l \in Filtrados(Datos, u, b) : Ficha[u] \in asig[l]
  BY <1>1, <1>2 DEF Dimensiones, Datos
<1> QED
  BY <1>2, <1>3 DEF Lectores, Base

-----------------------------------------------------------------------------
(***************************************************************************)
(* Every step.                                                             *)
(***************************************************************************)
LEMMA DatosQuietos ==
  ASSUME Base, UNCHANGED datos
  PROVE  /\ Base' /\ Datos' = Datos /\ escrituras' = escrituras /\ altas' = altas /\ asig' = asig
         /\ Lista' = Filtrados(Datos, bandeja'.u, bandeja'.b)
<1>1. UNCHANGED <<hoy, alta, altas, dias, escrituras, estado, asig, histEstado>>
  BY DEF datos, ledger
<1>2. Datos' = Datos
  BY <1>1 DEF Datos
<1>3. Lista' = Filtrados(Datos', bandeja'.u, bandeja'.b)
  BY DEF Lista
<1>4. AltasEnOrden'
  <2>1. Ingresados(Datos)' = Ingresados(Datos)
    BY <1>1 DEF Ingresados, Datos
  <2> QED
    BY <1>1, <2>1 DEF Base, AltasEnOrden
<1> QED
  BY <1>1, <1>2, <1>3, <1>4 DEF Base

(* A step of the walk that is one of those of its account.                  *)
Nuevo(y, t) ==
  /\ y \in Recorridos
  /\ Camino(y, altas, Filtrados(Datos, y.u, y.b)) /\ Propios(y, asig)
  /\ Alertado(y, t, escrituras, altas, Filtrados(Datos, y.u, y.b))

LEMMA PasoBandeja ==
  ASSUME TabInv, UNCHANGED <<datos, exporta, auditoria>>, exporta = ExportaLibre,
         Nuevo(bandeja', tablero'), Render(tablero', escrituras, Datos)
  PROVE  TabInv'
<1> DEFINE y == bandeja'
           t == tablero'
           S == Filtrados(Datos, y.u, y.b)
<1>1. /\ Base' /\ Datos' = Datos /\ escrituras' = escrituras /\ altas' = altas /\ asig' = asig
      /\ Lista' = S
  BY DatosQuietos DEF TabInv, Lectores
<1>2. y \in Recorridos /\ Camino(y, altas, S) /\ Propios(y, asig) /\ Alertado(y, t, escrituras, altas, S)
  BY DEF Nuevo
<1>3. auditoria = << >>
  BY DEF TabInv, Exportado
<1> HIDE DEF S
<1>4. Lectores'
  BY <1>1, <1>2 DEF Lectores
<1>5. Exportado(exporta, bandeja, escrituras, Lista, auditoria)'
  BY <1>3 DEF Exportado
<1>6. /\ Camino(bandeja, altas, Lista)' /\ Propios(bandeja, asig)'
      /\ Alertado(bandeja, tablero, escrituras, altas, Lista)'
  BY <1>1, <1>2
<1>7. Render(tablero, escrituras, Datos)'
  BY <1>1
<1> QED
  BY <1>4, <1>5, <1>6, <1>7 DEF TabInv

LEMMA Cuentas ==
  ASSUME TabInv, bandeja \in Recorridos
  PROVE  /\ Camino(bandeja, altas, Lista) /\ Propios(bandeja, asig)
         /\ Alertado(bandeja, tablero, escrituras, altas, Lista)
         /\ Lista = Filtrados(Datos, bandeja.u, bandeja.b) /\ bandeja.b \in Enlaces
         /\ IsFiniteSet(Lista) /\ Cardinality(Lista) \in Nat /\ Lista \in SUBSET Leads
         /\ \A l \in Lista : \E i \in 1 .. Len(altas) : altas[i] = l
         /\ altas \in Seq(Leads) /\ Unicas(altas)
<1>1. bandeja.b \in Enlaces
  BY DEF Recorridos
<1>2. Lista = Filtrados(Datos, bandeja.u, bandeja.b)
  BY DEF Lista
<1>3. AltasEnOrden
  BY DEF TabInv, Lectores, Base
<1> QED
  BY <1>1, <1>2, <1>3, FiltradosFinitos DEF TabInv, AltasEnOrden, Unicas

LEMMA EnMarcha ==
  ASSUME Lectores, bandeja.fase # "libre"
  PROVE  bandeja \in Recorridos /\ (bandeja.fase # "pagina" => exporta = ExportaLibre)
BY DEF Lectores, BandejaLibre

LEMMA ContarFilasPaso ==
  ASSUME TabInv, ContarFilas
  PROVE  TabInv'
<1> DEFINE x == bandeja
           y == [x EXCEPT !.fase = "listar", !.total = Cardinality(Lista), !.coladas = 0,
                          !.siempre = IF x.k = 1 THEN Lista ELSE @]
<1>1. x.fase = "contar" /\ UNCHANGED <<datos, tablero, exporta, auditoria>> /\ bandeja' = y
  BY DEF ContarFilas, Lista
<1>2. x \in Recorridos /\ exporta = ExportaLibre
  BY <1>1, EnMarcha DEF TabInv
<1>3. /\ IsFiniteSet(Lista) /\ Cardinality(Lista) \in Nat /\ Lista \in SUBSET Leads
      /\ Camino(x, altas, Lista) /\ Propios(x, asig) /\ Alertado(x, tablero, escrituras, altas, Lista)
      /\ Lista = Filtrados(Datos, x.u, x.b) /\ altas \in Seq(Leads)
  BY <1>2, Cuentas
<1>4. y \in Recorridos
  BY <1>2, <1>3 DEF Recorridos
<1>5. Contado(x, y, Lista)
  BY <1>1, <1>2, <1>4 DEF Contado, Recorridos
<1> HIDE DEF y
<1>6. Camino(y, altas, Lista) /\ Alertado(y, tablero, escrituras, altas, Lista)
  BY <1>2, <1>3, <1>5, CaminoContar, AlertadoContar
<1>7. y.u = x.u /\ y.b = x.b /\ y.vistos = x.vistos
  BY <1>5 DEF Contado
<1>8. Propios(y, asig)
  BY <1>3, <1>7 DEF Propios
<1>9. Nuevo(y, tablero)
  BY <1>3, <1>4, <1>6, <1>7, <1>8 DEF Nuevo
<1>10. Nuevo(bandeja', tablero') /\ Render(tablero', escrituras, Datos)
  BY <1>1, <1>9 DEF TabInv
<1> QED
  BY <1>1, <1>2, <1>10, PasoBandeja

LEMMA ListarPaginaPaso ==
  ASSUME TabInv, ListarPagina
  PROVE  TabInv'
<1> DEFINE x == bandeja
           P == EnPuestos(altas, Lista, (x.k - 1) * TamPagina, x.k * TamPagina)
           y == [x EXCEPT !.fase = "pagina", !.vistos = @ \cup P]
<1>1. x.fase = "listar" /\ UNCHANGED <<datos, tablero, exporta, auditoria>> /\ bandeja' = y
  BY DEF ListarPagina, Lista, Pagina, Datos
<1>2. x \in Recorridos /\ exporta = ExportaLibre
  BY <1>1, EnMarcha DEF TabInv
<1>3. /\ IsFiniteSet(Lista) /\ Lista \in SUBSET Leads
      /\ Camino(x, altas, Lista) /\ Propios(x, asig) /\ Alertado(x, tablero, escrituras, altas, Lista)
      /\ Lista = Filtrados(Datos, x.u, x.b) /\ x.b \in Enlaces
      /\ altas \in Seq(Leads) /\ Unicas(altas) /\ \A l \in Lista : \E i \in 1 .. Len(altas) : altas[i] = l
  BY <1>2, Cuentas
<1>4. P \subseteq Lista
  BY DEF EnPuestos
<1> HIDE DEF P
<1>5. y \in Recorridos
  BY <1>2, <1>3, <1>4 DEF Recorridos
<1>6. Listada(x, y, P)
  BY <1>1, <1>2, <1>5 DEF Listada, Recorridos
<1> HIDE DEF y
<1>7. Camino(y, altas, Lista) /\ Alertado(y, tablero, escrituras, altas, Lista)
  BY <1>2, <1>3, <1>6, CaminoListar, AlertadoListar DEF P
<1>8. y.u = x.u /\ y.b = x.b /\ y.vistos = x.vistos \cup P
  BY <1>6 DEF Listada
<1>9. Propios(y, asig)
  <2>1. TieneCartera(Rol[x.u]) => \A l \in Lista : asig[l] = {Ficha[x.u]}
    BY <1>3, CarteraPropia DEF TabInv
  <2> QED
    BY <1>3, <1>4, <1>8, <2>1 DEF Propios
<1>10. Nuevo(y, tablero)
  BY <1>3, <1>5, <1>7, <1>8, <1>9 DEF Nuevo
<1>11. Nuevo(bandeja', tablero') /\ Render(tablero', escrituras, Datos)
  BY <1>1, <1>10 DEF TabInv
<1> QED
  BY <1>1, <1>2, <1>11, PasoBandeja

LEMMA SiguientePaginaPaso ==
  ASSUME TabInv, SiguientePagina
  PROVE  TabInv'
<1> DEFINE x == bandeja
           y == [x EXCEPT !.fase = "contar", !.k = @ + 1]
<1>1. x.fase = "pagina" /\ exporta.fase = "libre" /\ UNCHANGED <<datos, tablero, exporta, auditoria>> /\ bandeja' = y
  BY DEF SiguientePagina
<1>2. x \in Recorridos /\ exporta = ExportaLibre
  BY <1>1, EnMarcha DEF TabInv, Lectores, Exportaciones
<1>3. /\ Camino(x, altas, Lista) /\ Propios(x, asig) /\ Alertado(x, tablero, escrituras, altas, Lista)
      /\ Lista = Filtrados(Datos, x.u, x.b)
  BY <1>2, Cuentas
<1>4. y \in Recorridos /\ Siguiente(x, y)
  <2>1. x.k \in Nat \ {0}
    BY <1>2 DEF Recorridos
  <2>2. x.k + 1 \in Nat \ {0}
    BY <2>1
  <2>3. y \in Recorridos
    BY <1>2, <2>2 DEF Recorridos
  <2> QED
    BY <1>1, <1>2, <2>3 DEF Recorridos, Siguiente
<1> HIDE DEF y
<1>5. Camino(y, altas, Lista) /\ Alertado(y, tablero, escrituras, altas, Lista)
  BY <1>2, <1>3, <1>4, CaminoSiguiente, AlertadoSiguiente
<1>6. y.u = x.u /\ y.b = x.b /\ y.vistos = x.vistos
  BY <1>4 DEF Siguiente
<1>7. Propios(y, asig)
  BY <1>3, <1>6 DEF Propios
<1>8. Nuevo(y, tablero)
  BY <1>3, <1>4, <1>5, <1>6, <1>7 DEF Nuevo
<1>9. Nuevo(bandeja', tablero') /\ Render(tablero', escrituras, Datos)
  BY <1>1, <1>8 DEF TabInv
<1> QED
  BY <1>1, <1>2, <1>9, PasoBandeja

LEMMA RecorridoNuevo ==
  ASSUME NEW u \in Usuarios, NEW b \in Enlaces, NEW t, altas \in Seq(Leads),
         b.alerta # Nada =>
           /\ t.fase = "dejado" /\ t.version \in Nat /\ t.version <= escrituras
           /\ escrituras = t.version => t.cuenta = Cardinality(Filtrados(Datos, u, b))
  PROVE  Nuevo(Recorrido(u, b), t)
<1> DEFINE y == Recorrido(u, b)
           S == Filtrados(Datos, u, b)
<1>1. /\ y.fase = "contar" /\ y.u = u /\ y.b = b /\ y.k = 1 /\ y.vistos = {} /\ y.siempre = Nada
      /\ y \in Recorridos
  BY DEF Recorrido, Recorridos
<1> HIDE DEF y
<1>2. Camino(y, altas, S) /\ Propios(y, asig)
  BY <1>1 DEF Camino, Propios
<1>3. Listado(y) = 0
  BY <1>1, ListadoEs, Paginas
<1>4. y.vistos = {altas[i] : i \in Hasta(altas, S, S, Listado(y))}
  BY <1>1, <1>3, HastaCero
<1>5. Alertado(y, t, escrituras, altas, S)
  BY <1>1, <1>4 DEF Alertado
<1> QED
  BY <1>1, <1>2, <1>5 DEF Nuevo, y

LEMMA AbrirBandejaPaso ==
  ASSUME TabInv, NEW u \in Usuarios, NEW f \in Filtros, AbrirBandeja(u, f)
  PROVE  TabInv'
<1>1. /\ bandeja.fase = "libre" /\ bandeja' = Recorrido(u, SinAlerta(f))
      /\ UNCHANGED <<datos, tablero, exporta, auditoria>>
  BY DEF AbrirBandeja
<1>2. exporta = ExportaLibre /\ altas \in Seq(Leads)
  BY <1>1 DEF TabInv, Lectores, Base, AltasEnOrden
<1>3. SinAlerta(f) \in Enlaces /\ SinAlerta(f).alerta = Nada
  BY DEF SinAlerta, Enlaces, Enlace
<1>4. Nuevo(Recorrido(u, SinAlerta(f)), tablero')
  BY <1>2, <1>3, RecorridoNuevo
<1>5. Nuevo(bandeja', tablero') /\ Render(tablero', escrituras, Datos)
  BY <1>1, <1>4 DEF TabInv
<1> QED
  BY <1>1, <1>2, <1>5, PasoBandeja

LEMMA SeguirAlertaPaso ==
  ASSUME TabInv, NEW alerta \in Alertas, SeguirAlerta(alerta)
  PROVE  TabInv'
<1> DEFINE t == tablero
           b == Enlace(t.f, alerta)
           n == IF alerta = "estancados" THEN Valor(t, "estancados") ELSE Valor(t, "kpis").sinAsignar
           s == [fase |-> "dejado", version |-> t.version, cuenta |-> n]
<1>1. /\ t.fase = "listo" /\ bandeja.fase = "libre" /\ ~SeccionFallida(t, "resumen")
      /\ bandeja' = Recorrido(t.u, b) /\ tablero' = s
      /\ UNCHANGED <<datos, exporta, auditoria>>
  BY DEF SeguirAlerta
<1>2. exporta = ExportaLibre /\ altas \in Seq(Leads)
  BY <1>1 DEF TabInv, Lectores, Base, AltasEnOrden
<1>3. /\ Render(t, escrituras, Datos) /\ t \in Renders(t) /\ EsSuperuser(Rol[t.u])
      /\ t.version <= escrituras /\ (escrituras = t.version => t.foto = Datos)
  BY <1>1 DEF TabInv, Render
<1>4. t.u \in Usuarios /\ t.f \in Filtros /\ t.version \in Nat
  BY <1>3 DEF Renders
<1>5. b \in Enlaces
  BY <1>4 DEF Enlaces
<1>6. ASSUME escrituras = t.version
      PROVE  n = Cardinality(Filtrados(Datos, t.u, b))
  <2>1. /\ Valor(t, "estancados") = Cardinality(Estancados(Datos, Poblacion(Datos, t.f)))
        /\ Valor(t, "kpis").sinAsignar = Cardinality({l \in Poblacion(Datos, t.f) : SinAsignar(Datos, l)})
    BY <1>1, <1>3, <1>6, RenderCuenta
  <2>2. /\ Filtrados(Datos, t.u, Enlace(t.f, "estancados")) = Estancados(Datos, Poblacion(Datos, t.f))
        /\ Filtrados(Datos, t.u, Enlace(t.f, "sin_asignar")) = {l \in Poblacion(Datos, t.f) : SinAsignar(Datos, l)}
    BY <1>3, AlertaCuenta
  <2>3. alerta = "estancados" \/ alerta = "sin_asignar"
    BY DEF Alertas
  <2>4. CASE alerta = "estancados"
    BY <2>1, <2>2, <2>4
  <2>5. CASE alerta = "sin_asignar"
    BY <2>1, <2>2, <2>5
  <2> QED
    BY <2>3, <2>4, <2>5
<1>7. s.fase = "dejado" /\ s.version = t.version /\ s.cuenta = n
  OBVIOUS
<1> HIDE DEF s, n, b
<1>8. Nuevo(Recorrido(t.u, b), s)
  BY <1>2, <1>3, <1>4, <1>5, <1>6, <1>7, RecorridoNuevo
<1>9. Render(s, escrituras, Datos)
  BY <1>7 DEF Render
<1>10. Nuevo(bandeja', tablero') /\ Render(tablero', escrituras, Datos)
  BY <1>1, <1>8, <1>9
<1> QED
  BY <1>1, <1>2, <1>10, PasoBandeja

(* A step of the render or of the export leaves the walk as it was.          *)
LEMMA PasoQuieto ==
  ASSUME TabInv, UNCHANGED <<datos, bandeja>>,
         exporta' = ExportaLibre \/ exporta' \in Exportaciones,
         exporta' # ExportaLibre => bandeja.fase = "pagina",
         Exportado(exporta', bandeja, escrituras, Lista, auditoria'),
         tablero' = tablero \/ bandeja = BandejaLibre \/ tablero.fase # "dejado",
         Render(tablero', escrituras, Datos)
  PROVE  TabInv'
<1>1. /\ Base' /\ Datos' = Datos /\ escrituras' = escrituras /\ altas' = altas /\ asig' = asig
      /\ Lista' = Lista
  BY DatosQuietos DEF TabInv, Lectores, Lista
<1>2. Lectores'
  BY <1>1 DEF TabInv, Lectores
<1>3. Exportado(exporta, bandeja, escrituras, Lista, auditoria)'
  BY <1>1
<1>4. ASSUME bandeja \in Recorridos
      PROVE  Camino(bandeja, altas, Lista)' /\ Propios(bandeja, asig)'
             /\ Alertado(bandeja, tablero, escrituras, altas, Lista)'
  <2>1. /\ Camino(bandeja, altas, Lista) /\ Propios(bandeja, asig)
        /\ Alertado(bandeja, tablero, escrituras, altas, Lista)
    BY <1>4, Cuentas
  <2>2. bandeja # BandejaLibre
    BY <1>4 DEF BandejaLibre, Recorridos
  <2>3. Alertado(bandeja, tablero', escrituras, altas, Lista)
    BY <2>1, <2>2 DEF Alertado
  <2> QED
    BY <1>1, <2>1, <2>3
<1>5. Render(tablero, escrituras, Datos)'
  BY <1>1
<1> QED
  BY <1>2, <1>3, <1>4, <1>5 DEF TabInv

LEMMA PasoTablero ==
  ASSUME TabInv, UNCHANGED <<datos, bandeja, exporta, auditoria>>,
         bandeja.fase = "libre" \/ tablero.fase # "dejado", Render(tablero', escrituras, Datos)
  PROVE  TabInv'
<1>1. /\ exporta' = ExportaLibre \/ exporta' \in Exportaciones
      /\ exporta' # ExportaLibre => bandeja.fase = "pagina"
      /\ Exportado(exporta', bandeja, escrituras, Lista, auditoria')
  BY DEF TabInv, Lectores
<1>2. bandeja = BandejaLibre \/ tablero.fase # "dejado"
  BY DEF TabInv, Lectores, Recorridos
<1> QED
  BY <1>1, <1>2, PasoQuieto

LEMMA AbrirTableroPaso ==
  ASSUME TabInv, NEW u \in Usuarios, NEW f \in Filtros, AbrirTablero(u, f)
  PROVE  TabInv'
<1> DEFINE t == [fase |-> "leyendo", u |-> u, f |-> f, foto |-> Datos, version |-> escrituras,
                 v |-> << >>, fallos |-> {}]
<1>1. /\ bandeja.fase = "libre" /\ EsSuperuser(Rol[u]) /\ tablero' = t
      /\ UNCHANGED <<datos, bandeja, exporta, auditoria>>
  BY DEF AbrirTablero
<1>2. escrituras \in Nat
  BY DEF TabInv, Lectores, Base
<1>3. Render(t, escrituras, Datos)
  <2>1. t \in Renders(t) /\ EsSuperuser(Rol[t.u]) /\ t.version <= escrituras /\ t.foto = Datos
    BY <1>1, <1>2 DEF Renders
  <2>2. t.v \in Seq({}) /\ Len(t.v) = 0 /\ t.fase = "leyendo"
    OBVIOUS
  <2> HIDE DEF t
  <2>3. 1 .. Len(t.v) = {} /\ Len(t.v) < 12
    BY <2>2
  <2>4. \E V : t.v \in Seq(V)
    BY <2>2
  <2> QED
    BY <2>1, <2>2, <2>3, <2>4 DEF Render
<1> QED
  BY <1>1, <1>3, PasoTablero

(* The result of a producer, or its failure, goes after the ones there are.  *)
LEMMA GuardarEs ==
  ASSUME TabInv, tablero.fase = "leyendo", NEW x, NEW fallos, Guardar(x, fallos), tablero.fallos \subseteq fallos,
         Turno \in fallos \/ x = Producir(Turno, tablero.foto, tablero.f)
  PROVE  Render(tablero', escrituras, Datos)
<1> DEFINE t == tablero
           w == Append(t.v, x)
           n == Len(t.v)
           fase == IF n + 1 = Len(Productores) THEN "listo" ELSE t.fase
           s == [t EXCEPT !.v = w, !.fallos = fallos, !.fase = fase]
<1>1. tablero' = s
  BY DEF Guardar
<1>2. /\ t \in Renders(t) /\ EsSuperuser(Rol[t.u]) /\ t.version <= escrituras
      /\ (escrituras = t.version => t.foto = Datos)
      /\ \E V : t.v \in Seq(V)
      /\ n < 12
      /\ \A i \in 1 .. n : Productores[i] \in t.fallos \/ t.v[i] = Producir(Productores[i], t.foto, t.f)
  BY DEF TabInv, Render
<1>3. PICK V : t.v \in Seq(V)
  BY <1>2
<1>4. /\ w \in Seq(V \cup {x}) /\ Len(w) = n + 1 /\ n \in Nat /\ w[n + 1] = x
      /\ \A i \in 1 .. n : w[i] = t.v[i]
  <2>1. t.v \in Seq(V \cup {x})
    BY <1>3
  <2> QED
    BY <2>1
<1>5. Len(Productores) = 12
  BY DEF Productores
<1>6. fase \in {"leyendo", "listo"} /\ (fase = "listo" <=> n + 1 = 12)
  BY <1>5
<1> HIDE DEF w, fase
<1>7. /\ s.fase = fase /\ s.v = w /\ s.fallos = fallos /\ s.u = t.u /\ s.f = t.f /\ s.foto = t.foto
      /\ s.version = t.version /\ s \in Renders(s)
  BY <1>2, <1>6 DEF Renders
<1> HIDE DEF s
<1>8. \A i \in 1 .. Len(s.v) : Productores[i] \in s.fallos \/ s.v[i] = Producir(Productores[i], s.foto, s.f)
  <2> SUFFICES ASSUME NEW i \in 1 .. Len(s.v)
               PROVE  Productores[i] \in s.fallos \/ s.v[i] = Producir(Productores[i], s.foto, s.f)
    OBVIOUS
  <2>1. i \in 1 .. n \/ i = n + 1
    BY <1>4, <1>7
  <2>2. CASE i \in 1 .. n
    BY <1>2, <1>4, <1>7, <2>2
  <2>3. CASE i = n + 1
    BY <1>4, <1>7, <2>3 DEF Turno
  <2> QED
    BY <2>1, <2>2, <2>3
<1>9. /\ s.fase = "leyendo" => Len(s.v) < 12
      /\ s.fase = "listo" => Len(s.v) = 12
  <2>1. Len(s.v) = n + 1 /\ n \in Nat /\ n < 12
    BY <1>2, <1>4, <1>7
  <2>2. s.fase = "listo" => n + 1 = 12
    BY <1>6, <1>7
  <2>3. s.fase = "leyendo" => n + 1 # 12
    BY <1>6, <1>7
  <2>4. n + 1 # 12 => n + 1 < 12
    BY <2>1
  <2> QED
    BY <2>1, <2>2, <2>3, <2>4
<1>10. Render(s, escrituras, Datos)
  BY <1>2, <1>4, <1>7, <1>8, <1>9 DEF Render
<1> QED
  BY <1>1, <1>10

LEMMA RenderPaso ==
  ASSUME TabInv, Leer \/ Fallar \/ PerderConexion
  PROVE  TabInv'
<1>1. tablero.fase = "leyendo" /\ UNCHANGED <<datos, bandeja, exporta, auditoria>>
  BY DEF Leer, Fallar, PerderConexion
<1>2. Render(tablero', escrituras, Datos)
  <2>1. CASE Leer
    BY <1>1, <2>1, GuardarEs DEF Leer
  <2>2. CASE Fallar
    BY <1>1, <2>2, GuardarEs DEF Fallar
  <2>3. CASE PerderConexion
    BY <2>3 DEF PerderConexion, Render
  <2> QED
    BY <2>1, <2>2, <2>3
<1> QED
  BY <1>1, <1>2, PasoTablero

LEMMA ExportaPaso ==
  ASSUME TabInv,
         \/ PedirExportacion \/ ContarExportacion \/ LeerExportacion
         \/ AuditarExportacion \/ Entregar \/ FallarExportacion
  PROVE  TabInv'
<1> DEFINE x == exporta
           w == bandeja
           e == escrituras
           S == Lista
<1>0. /\ e \in Nat /\ Exportado(x, w, e, S, auditoria) /\ (x = ExportaLibre \/ x \in Exportaciones)
      /\ (x # ExportaLibre => w.fase = "pagina")
      /\ Render(tablero, e, Datos) /\ S = Filtrados(Datos, w.u, w.b)
  BY DEF TabInv, Lectores, Base, Lista
<1>1. ASSUME w.fase = "pagina"
      PROVE  Cardinality(S) \in Nat /\ S \in SUBSET Leads /\ w \in Recorridos
  BY <1>1, EnMarcha, Cuentas DEF TabInv
<1>2. ASSUME x.fase # "libre"
      PROVE  x # ExportaLibre /\ x \in Exportaciones /\ w.fase = "pagina"
  BY <1>0, <1>2 DEF ExportaLibre
<1> HIDE DEF S
<1>3. CASE PedirExportacion
  <2> DEFINE y == [fase |-> "contar", version |-> e, total |-> 0, filas |-> {}]
  <2>1. /\ w.fase = "pagina" /\ x.fase = "libre" /\ EsSuperuser(Rol[w.u]) /\ exporta' = y
        /\ UNCHANGED <<datos, tablero, bandeja, auditoria>>
    BY <1>3 DEF PedirExportacion
  <2>2. auditoria = << >>
    BY <1>0, <2>1 DEF Exportado, Exportaciones
  <2>3. y \in Exportaciones /\ Exportado(y, w, e, S, auditoria)
    BY <1>0, <2>1, <2>2 DEF Exportaciones, Exportado
  <2> HIDE DEF y
  <2> QED
    BY <1>0, <2>1, <2>3, PasoQuieto DEF S
<1>4. CASE ContarExportacion
  <2> DEFINE n == Cardinality(S)
             y == [x EXCEPT !.total = n, !.version = e,
                            !.fase = IF n > EXPORT_MAX_ROWS THEN "rechazada" ELSE "leer"]
  <2>1. /\ x.fase = "contar" /\ exporta' = y /\ UNCHANGED <<datos, tablero, bandeja, auditoria>>
    BY <1>0, <1>4 DEF ContarExportacion
  <2>2. x # ExportaLibre /\ x \in Exportaciones /\ w.fase = "pagina"
    BY <1>2, <2>1
  <2>3. n \in Nat
    BY <1>1, <2>2
  <2> HIDE DEF n
  <2>4. y \in Exportaciones
    BY <1>0, <2>2, <2>3 DEF Exportaciones
  <2>5. y.version = e /\ (n > EXPORT_MAX_ROWS => y.fase = "rechazada") /\ (~(n > EXPORT_MAX_ROWS) => y.fase = "leer")
    BY <2>2 DEF Exportaciones
  <2>6. auditoria = << >> /\ EsSuperuser(Rol[w.u])
    BY <1>0, <2>1, <2>2 DEF Exportado
  <2> HIDE DEF y
  <2>7. y # ExportaLibre
    BY <2>5 DEF ExportaLibre
  <2>8. Exportado(y, w, e, S, auditoria)
    BY <1>0, <2>5, <2>6, <2>7 DEF Exportado, n
  <2> QED
    BY <1>0, <2>1, <2>2, <2>4, <2>8, PasoQuieto DEF S
<1>5. CASE LeerExportacion
  <2> DEFINE y == [x EXCEPT !.fase = "auditar", !.filas = S]
  <2>1. /\ x.fase = "leer" /\ exporta' = y /\ UNCHANGED <<datos, tablero, bandeja, auditoria>>
    BY <1>0, <1>5 DEF LeerExportacion
  <2>2. x # ExportaLibre /\ x \in Exportaciones /\ w.fase = "pagina"
    BY <1>2, <2>1
  <2>3. /\ auditoria = << >> /\ EsSuperuser(Rol[w.u]) /\ x.version <= e
        /\ (e = x.version => ~(Cardinality(S) > EXPORT_MAX_ROWS))
    BY <1>0, <2>1, <2>2 DEF Exportado
  <2>4. /\ y \in Exportaciones /\ y.fase = "auditar" /\ y.filas = S /\ y.version = x.version
        /\ x.version \in Nat
    BY <1>1, <2>2 DEF Exportaciones
  <2> HIDE DEF y
  <2>5. Cardinality(S) > EXPORT_MAX_ROWS => e > y.version
    <3>1. e # x.version /\ x.version <= e /\ x.version \in Nat /\ e \in Nat => e > x.version
      OBVIOUS
    <3> QED
      BY <1>0, <2>3, <2>4, <3>1
  <2>6. y # ExportaLibre
    BY <2>4 DEF ExportaLibre
  <2>7. Exportado(y, w, e, S, auditoria)
    BY <2>3, <2>4, <2>5, <2>6 DEF Exportado
  <2> QED
    BY <1>0, <2>1, <2>2, <2>4, <2>7, PasoQuieto DEF S
<1>6. CASE AuditarExportacion
  <2> DEFINE y == [x EXCEPT !.fase = "responder"]
             r == [por |-> w.u, n |-> Cardinality(x.filas)]
  <2>1. /\ x.fase = "auditar" /\ exporta' = y /\ auditoria' = Append(auditoria, r)
        /\ UNCHANGED <<datos, tablero, bandeja>>
    BY <1>6 DEF AuditarExportacion
  <2>2. x # ExportaLibre /\ x \in Exportaciones /\ w.fase = "pagina"
    BY <1>2, <2>1
  <2>3. /\ auditoria = << >> /\ EsSuperuser(Rol[w.u]) /\ x.version <= e /\ x.filas = S
        /\ (Cardinality(x.filas) > EXPORT_MAX_ROWS => e > x.version)
    BY <1>0, <2>1, <2>2 DEF Exportado
  <2>4. y \in Exportaciones /\ y.fase = "responder" /\ y.filas = x.filas /\ y.version = x.version
    BY <2>2 DEF Exportaciones
  <2> HIDE DEF y, r
  <2>5. auditoria' = <<r>>
    BY <2>1, <2>3
  <2>6. y # ExportaLibre
    BY <2>4 DEF ExportaLibre
  <2>7. Exportado(y, w, e, S, auditoria')
    BY <2>3, <2>4, <2>5, <2>6 DEF Exportado, r
  <2> QED
    BY <1>0, <2>1, <2>2, <2>4, <2>7, PasoQuieto DEF S
<1>7. CASE Entregar
  <2> DEFINE y == [x EXCEPT !.fase = "entregada"]
  <2>1. /\ x.fase = "responder" /\ exporta' = y /\ UNCHANGED <<datos, tablero, bandeja, auditoria>>
    BY <1>7 DEF Entregar
  <2>2. x # ExportaLibre /\ x \in Exportaciones /\ w.fase = "pagina"
    BY <1>2, <2>1
  <2>3. y \in Exportaciones /\ y.fase = "entregada" /\ y.filas = x.filas /\ y.version = x.version
    BY <2>2 DEF Exportaciones
  <2> HIDE DEF y
  <2>4. y # ExportaLibre
    BY <2>3 DEF ExportaLibre
  <2>5. Exportado(y, w, e, S, auditoria)
    BY <1>0, <2>1, <2>2, <2>3, <2>4 DEF Exportado
  <2> QED
    BY <1>0, <2>1, <2>2, <2>3, <2>5, PasoQuieto DEF S
<1>8. CASE FallarExportacion
  <2> DEFINE y == [x EXCEPT !.fase = "fallida"]
  <2>1. /\ x.fase # "libre" /\ exporta' = y /\ UNCHANGED <<datos, tablero, bandeja, auditoria>>
    BY <1>8 DEF FallarExportacion
  <2>2. x # ExportaLibre /\ x \in Exportaciones /\ w.fase = "pagina"
    BY <1>2, <2>1
  <2>3. y \in Exportaciones /\ y.fase = "fallida" /\ y.filas = x.filas /\ y.version = x.version
    BY <2>2 DEF Exportaciones
  <2> HIDE DEF y
  <2>4. y # ExportaLibre
    BY <2>3 DEF ExportaLibre
  <2>5. Exportado(y, w, e, S, auditoria)
    BY <1>0, <2>2, <2>3, <2>4 DEF Exportado
  <2> QED
    BY <1>0, <2>1, <2>2, <2>3, <2>5, PasoQuieto DEF S
<1> QED
  BY <1>3, <1>4, <1>5, <1>6, <1>7, <1>8

(***************************************************************************)
(* A write, under whoever is reading.                                      *)
(***************************************************************************)
LEMMA EscrituraPaso ==
  ASSUME TabInv, Escritura
  PROVE  TabInv'
<1> DEFINE x == bandeja
           T == Filtrados(Datos', x.u, x.b)
<1>1. /\ Lectores /\ Escribir /\ AltasEnOrden' /\ Alarga(altas, altas') /\ Asignados_
      /\ hoy' \in Dias /\ alta' \in [Leads -> [dia : Dias, origen : Origenes] \cup {Nada}]
  BY EscrituraDatos DEF TabInv
<1>2. /\ escrituras' = escrituras + 1 /\ UNCHANGED <<tablero, exporta, auditoria>>
      /\ exporta.fase \in {"libre", "contar", "leer"}
      /\ (x = BandejaLibre => bandeja' = BandejaLibre)
      /\ (x \in Recorridos => Cuenta(x, bandeja', Lista, T))
  BY <1>1, EscribirEs
<1>3. /\ escrituras \in Nat /\ asig \in [Leads -> SUBSET Asesores]
      /\ \A l \in Leads : \A a, b \in asig[l] : a = b
      /\ (x = BandejaLibre \/ x \in Recorridos)
      /\ (exporta # ExportaLibre => x.fase = "pagina")
  BY <1>1 DEF Lectores, Base
<1>4. Base'
  <2>1. \A l \in Leads : \A a, b \in asig'[l] : a = b
    <3> SUFFICES ASSUME NEW l \in Leads, NEW a \in asig'[l], NEW b \in asig'[l]
                 PROVE  a = b
      OBVIOUS
    <3> QED
      BY <1>1, <1>3 DEF Asignados_
  <2>2. escrituras' \in Nat
    BY <1>2, <1>3
  <2> QED
    BY <1>1, <2>1, <2>2 DEF Base, Asignados_
<1>5. /\ (x = BandejaLibre => bandeja' = BandejaLibre)
      /\ (x \in Recorridos => bandeja' \in Recorridos /\ bandeja'.fase = x.fase /\ bandeja'.u = x.u /\ bandeja'.b = x.b)
  BY <1>2 DEF Cuenta
<1>6. Lectores'
  <2>1. exporta' = exporta /\ (exporta = ExportaLibre \/ exporta \in Exportaciones)
    BY <1>1, <1>2 DEF Lectores
  <2>2. exporta # ExportaLibre => bandeja'.fase = "pagina"
    BY <1>3, <1>5 DEF BandejaLibre
  <2> QED
    BY <1>3, <1>4, <1>5, <2>1, <2>2 DEF Lectores
<1>7. Exportado(exporta, bandeja, escrituras, Lista, auditoria)'
  <2>1. Exportado(exporta, x, escrituras, Lista, auditoria)
    BY DEF TabInv
  <2>2. CASE exporta = ExportaLibre
    BY <1>2, <2>1, <2>2 DEF Exportado
  <2>3. CASE exporta # ExportaLibre
    <3>1. x \in Recorridos /\ bandeja'.u = x.u
      BY <1>3, <1>5, <2>3 DEF BandejaLibre
    <3>2. exporta.fase \in {"contar", "leer"} /\ exporta.version \in Nat
      BY <1>1, <1>2, <2>3 DEF Lectores, Exportaciones
    <3>3. EsSuperuser(Rol[x.u]) /\ exporta.version <= escrituras /\ auditoria = << >>
      BY <2>1, <2>3, <3>2 DEF Exportado
    <3>4. exporta.version <= escrituras + 1 /\ escrituras + 1 # exporta.version
      BY <1>3, <3>2, <3>3
    <3> QED
      BY <1>2, <2>3, <3>1, <3>2, <3>3, <3>4 DEF Exportado
  <2> QED
    BY <2>2, <2>3
<1>8. ASSUME x \in Recorridos
      PROVE  /\ Camino(bandeja, altas, Lista)' /\ Propios(bandeja, asig)'
             /\ Alertado(bandeja, tablero, escrituras, altas, Lista)'
  <2>1. /\ Camino(x, altas, Lista) /\ Propios(x, asig)
        /\ Alertado(x, tablero, escrituras, altas, Lista)
        /\ IsFiniteSet(Lista) /\ \A l \in Lista : \E i \in 1 .. Len(altas) : altas[i] = l
        /\ altas \in Seq(Leads) /\ Unicas(altas)
    BY <1>8, Cuentas
  <2>2. Cuenta(x, bandeja', Lista, T) /\ bandeja'.u = x.u /\ bandeja'.b = x.b /\ bandeja'.vistos = x.vistos
    BY <1>2, <1>8 DEF Cuenta
  <2>3. IsFiniteSet(T)
    BY <1>1, FiltradosTras
  <2>4. Lista' = T
    BY <2>2 DEF Lista
  <2> HIDE DEF T
  <2>5. Camino(bandeja', altas', T)
    BY <1>1, <1>8, <2>1, <2>2, <2>3, CaminoEscribir
  <2>6. Alertado(bandeja', tablero, escrituras + 1, altas', T)
    BY <1>3, <2>1, <2>2, AlertadoEscribir
  <2>7. Propios(bandeja', asig')
    <3> SUFFICES ASSUME TieneCartera(Rol[x.u]), NEW l \in x.vistos
                 PROVE  asig'[l] = {Ficha[x.u]}
      BY <2>2 DEF Propios
    <3>1. l \in Leads
      BY <1>8 DEF Recorridos
    <3>2. asig[l] = {Ficha[x.u]}
      BY <2>1 DEF Propios
    <3>3. asig[l] # {}
      BY <3>2
    <3> QED
      BY <1>1, <3>1, <3>2, <3>3 DEF Asignados_
  <2> QED
    BY <1>2, <2>4, <2>5, <2>6, <2>7
<1>9. Render(tablero, escrituras, Datos)'
  <2>1. Render(tablero, escrituras, Datos)
    BY DEF TabInv
  <2>2. CASE tablero.fase \in {"leyendo", "listo"}
    <3>1. tablero.version \in Nat /\ tablero.version <= escrituras
      BY <2>1, <2>2 DEF Render, Renders
    <3>2. tablero.version <= escrituras + 1 /\ escrituras + 1 # tablero.version
      BY <1>3, <3>1
    <3> QED
      BY <1>2, <2>1, <2>2, <3>2 DEF Render
  <2>3. CASE tablero.fase \notin {"leyendo", "listo"}
    BY <1>2, <2>3 DEF Render
  <2> QED
    BY <2>2, <2>3
<1>10. bandeja' \in Recorridos => x \in Recorridos
  BY <1>3, <1>5 DEF BandejaLibre, Recorridos
<1> QED
  BY <1>6, <1>7, <1>8, <1>9, <1>10 DEF TabInv

LEMMA TabInicio ==
  ASSUME InitTablero
  PROVE  TabInv
<1>1. PICK h \in [Leads -> Historias], orden \in UNION {[1 .. n -> Leads] : n \in 0 .. Cardinality(Leads)} :
        /\ hoy = Hoy
        /\ alta = [l \in Leads |-> h[l].alta]
        /\ {orden[i] : i \in DOMAIN orden} = {l \in Leads : h[l].alta # Nada}
        /\ \A i, j \in DOMAIN orden :
             /\ orden[i] = orden[j] => i = j
             /\ i < j => h[orden[i]].alta.dia <= h[orden[j]].alta.dia
        /\ altas = orden
        /\ asig = [l \in Leads |-> h[l].asig]
        /\ escrituras = 0 /\ tablero = TableroLibre /\ bandeja = BandejaLibre /\ exporta = ExportaLibre
        /\ auditoria = << >>
  BY DEF InitTablero
<1>2. PICK n \in 0 .. Cardinality(Leads) : orden \in [1 .. n -> Leads]
  OBVIOUS
<1>3. n \in Nat /\ orden \in Seq(Leads) /\ Len(orden) = n /\ DOMAIN orden = 1 .. n
  <2>1. n \in Nat
    OBVIOUS
  <2> QED
    BY <1>2, <2>1
<1>4. Ingresados(Datos) = {l \in Leads : h[l].alta # Nada}
  BY <1>1, IngresadosEs
<1>5. AltasEnOrden
  BY <1>1, <1>3, <1>4 DEF AltasEnOrden
<1>6. \A l \in Leads :
        /\ h[l].alta \in [dia : Dias, origen : Origenes] \cup {Nada} /\ h[l].asig \in SUBSET Asesores
        /\ \A a, b \in h[l].asig : a = b
  BY HistoriasAssumption DEF Historia
<1>7. Base
  BY <1>1, <1>5, <1>6, TableroAssumption DEF Base
<1>8. Lectores /\ bandeja \notin Recorridos
  BY <1>1, <1>7 DEF Lectores, BandejaLibre, Recorridos
<1>9. Exportado(exporta, bandeja, escrituras, Lista, auditoria)
  BY <1>1 DEF Exportado
<1>10. Render(tablero, escrituras, Datos)
  BY <1>1 DEF Render, TableroLibre
<1> QED
  BY <1>8, <1>9, <1>10 DEF TabInv

LEMMA TabPaso ==
  ASSUME TabInv, [NextTablero]_vars
  PROVE  TabInv'
<1>1. CASE UNCHANGED vars
  <2>1. UNCHANGED <<datos, bandeja, exporta, auditoria>> /\ tablero' = tablero
    BY <1>1 DEF vars
  <2>2. /\ exporta' = ExportaLibre \/ exporta' \in Exportaciones
        /\ exporta' # ExportaLibre => bandeja.fase = "pagina"
        /\ Exportado(exporta', bandeja, escrituras, Lista, auditoria')
        /\ Render(tablero', escrituras, Datos)
    BY <2>1 DEF TabInv, Lectores
  <2> QED
    BY <2>1, <2>2, PasoQuieto
<1>2. CASE Escritura
  BY <1>2, EscrituraPaso
<1>3. CASE Lectura
  BY <1>3, AbrirTableroPaso, AbrirBandejaPaso, RenderPaso, SeguirAlertaPaso, ContarFilasPaso,
     ListarPaginaPaso, SiguientePaginaPaso, ExportaPaso DEF Lectura
<1> QED
  BY <1>1, <1>2, <1>3 DEF NextTablero

(* Whatever is written meanwhile, the readers keep their account: the walk  *)
(* its order, the export its one audit, the render its snapshot.            *)
THEOREM TableroInductivo == SpecTablero => []TabInv
<1>1. InitTablero => TabInv
  BY TabInicio
<1>2. TabInv /\ [NextTablero]_vars => TabInv'
  BY TabPaso
<1> QED
  BY <1>1, <1>2, PTL DEF SpecTablero

LEMMA TabExporta ==
  ASSUME TabInv
  PROVE  ExportacionAuditada
<1>1. Exportado(exporta, bandeja, escrituras, Lista, auditoria)
  BY DEF TabInv
<1>2. CASE exporta = ExportaLibre
  <2>1. auditoria = << >> /\ exporta.fase = "libre"
    BY <1>1, <1>2 DEF Exportado, ExportaLibre
  <2> QED
    BY <2>1 DEF ExportacionAuditada
<1>3. CASE exporta # ExportaLibre
  <2> DEFINE r == [por |-> bandeja.u, n |-> Cardinality(exporta.filas)]
  <2>1. /\ EsSuperuser(Rol[bandeja.u])
        /\ exporta.fase \in {"contar", "leer", "auditar", "rechazada"} => auditoria = << >>
        /\ exporta.fase \in {"auditar", "responder", "entregada"} =>
             (Cardinality(exporta.filas) > EXPORT_MAX_ROWS => escrituras > exporta.version)
        /\ exporta.fase \in {"responder", "entregada"} => auditoria = <<r>>
        /\ auditoria = << >> \/ auditoria = <<r>>
    BY <1>1, <1>3 DEF Exportado
  <2>2. r.por = bandeja.u
    OBVIOUS
  <2> HIDE DEF r
  <2>3. \A i \in 1 .. Len(auditoria) : auditoria[i].por = bandeja.u
    BY <2>1, <2>2
  <2>4. \A i \in 1 .. Len(auditoria) : EsSuperuser(Rol[auditoria[i].por])
    BY <2>1, <2>3
  <2> QED
    BY <2>1, <2>4 DEF ExportacionAuditada, r
<1> QED
  BY <1>2, <1>3

(* AC-8: every file that leaves has its audit event, by a Socio, with the    *)
(* rows it carries.                                                         *)
THEOREM SiempreAuditada == SpecTablero => []ExportacionAuditada
<1>1. TabInv => ExportacionAuditada
  BY TabExporta
<1> QED
  BY TableroInductivo, <1>1, PTL

(* Whoever walks the pages misses a lead only for one that left or came in    *)
(* between, and sees none of another portfolio.                             *)
THEOREM SiempreCompleto == SpecTablero => []RecorridoCompleto
<1>1. TabInv => RecorridoCompleto
  <2> SUFFICES ASSUME TabInv, bandeja.fase = "pagina"
               PROVE  /\ UltimaPagina(bandeja) =>
                           Cardinality(bandeja.siempre \ bandeja.vistos) <= bandeja.salidas + bandeja.coladas
                      /\ TieneCartera(Rol[bandeja.u]) => \A l \in bandeja.vistos : asig[l] = {Ficha[bandeja.u]}
    BY DEF RecorridoCompleto
  <2>1. bandeja \in Recorridos
    BY EnMarcha DEF TabInv
  <2> QED
    BY <2>1, Cuentas DEF Camino, Propios
<1> QED
  BY TableroInductivo, <1>1, PTL

LEMMA TabPoblacion ==
  ASSUME TabInv
  PROVE  MismaPoblacion
<1> SUFFICES ASSUME bandeja.fase \in {"listar", "pagina"}, bandeja.b.alerta # Nada, escrituras = tablero.version
             PROVE  /\ bandeja.total = tablero.cuenta
                    /\ bandeja.fase = "pagina" /\ UltimaPagina(bandeja) =>
                         Cardinality(bandeja.vistos) = bandeja.total
                    /\ exporta.fase \in {"auditar", "responder", "entregada"} =>
                         /\ Cardinality(exporta.filas) = bandeja.total
                         /\ bandeja.vistos \subseteq exporta.filas
  BY DEF MismaPoblacion
<1> DEFINE S == Lista
           q == Listado(bandeja)
<1>1. bandeja \in Recorridos
  BY EnMarcha DEF TabInv
<1>2. /\ IsFiniteSet(S) /\ Cardinality(S) \in Nat /\ altas \in Seq(Leads) /\ Unicas(altas)
      /\ \A l \in S : \E i \in 1 .. Len(altas) : altas[i] = l
      /\ Alertado(bandeja, tablero, escrituras, altas, S)
  BY <1>1, Cuentas
<1>3. /\ tablero.cuenta = Cardinality(S) /\ bandeja.total = Cardinality(S)
      /\ bandeja.vistos = {altas[i] : i \in Hasta(altas, S, S, q)}
  BY <1>2 DEF Alertado
<1>4. bandeja.vistos \subseteq S
  BY <1>3 DEF Hasta
<1>5. ASSUME bandeja.fase = "pagina", UltimaPagina(bandeja)
      PROVE  bandeja.vistos = S
  <2>1. q \in Nat /\ q >= Cardinality(S)
    BY <1>1, <1>3, <1>5, ListadoEs DEF UltimaPagina
  <2> SUFFICES ASSUME NEW l \in S
               PROVE  l \in bandeja.vistos
    BY <1>4
  <2>2. PICK i \in 1 .. Len(altas) : altas[i] = l
    BY <1>2
  <2> HIDE DEF S, q
  <2>3. Puesto(altas, S, i) \in Nat /\ Puesto(altas, S, i) <= Cardinality(S)
    BY <1>2, PuestoEs, PuestoCota
  <2>4. Puesto(altas, S, i) <= q
    BY <1>2, <2>1, <2>3
  <2>5. i \in Hasta(altas, S, S, q)
    BY <2>2, <2>4 DEF Hasta
  <2> QED
    BY <1>3, <2>2, <2>5
<1>6. ASSUME exporta.fase \in {"auditar", "responder", "entregada"}
      PROVE  exporta.filas = S
  BY <1>6 DEF TabInv, Exportado, ExportaLibre
<1> QED
  BY <1>3, <1>4, <1>5, <1>6

(* While nothing is written, the number of the alert, the total of the       *)
(* board, its rows and those of the file are the same leads.                *)
THEOREM SiempreLaMisma == SpecTablero => []MismaPoblacion
<1>1. TabInv => MismaPoblacion
  BY TabPoblacion
<1> QED
  BY TableroInductivo, <1>1, PTL

-----------------------------------------------------------------------------
(***************************************************************************)
(* Sums: the groups of a finite population add up to it.                   *)
(***************************************************************************)
(* The recursion that a sum unfolds to.                                     *)
EsIter(h, it) ==
  it = [s \in SUBSET DOMAIN h |->
         IF s = {} THEN 0 ELSE h[CHOOSE x \in s : TRUE] + it[s \ {CHOOSE x \in s : TRUE}]]

LEMMA TotalIter ==
  ASSUME NEW h
  PROVE  Total(h) = (CHOOSE it : EsIter(h, it))[DOMAIN h]
BY DEF Total, MapThenSumSet, MapThenFoldSet, EsIter

(* A function of the subsets that grows by h[x] with each x is the sum.     *)
LEMMA TotalEs ==
  ASSUME NEW h, IsFiniteSet(DOMAIN h), NEW F,
         F = [s \in SUBSET DOMAIN h |-> F[s]], F[{}] = 0,
         \A s \in SUBSET DOMAIN h : \A x \in s : F[s] = h[x] + F[s \ {x}]
  PROVE  Total(h) = F[DOMAIN h]
<1> DEFINE D == DOMAIN h
           G == CHOOSE it : EsIter(h, it)
           B == {s \in SUBSET D : G[s] # F[s]}
           R == StrictSubsetOrdering(D)
           e(s) == CHOOSE x \in s : TRUE
<1>1. EsIter(h, F)
  <2>1. \A s \in SUBSET D : F[s] = IF s = {} THEN 0 ELSE h[e(s)] + F[s \ {e(s)}]
    OBVIOUS
  <2> HIDE DEF e
  <2>2. F = [s \in SUBSET D |-> IF s = {} THEN 0 ELSE h[e(s)] + F[s \ {e(s)}]]
    BY <2>1
  <2> QED
    BY <2>2 DEF EsIter, e
<1>2. EsIter(h, G)
  BY <1>1
<1>3. \A s \in SUBSET D : G[s] = IF s = {} THEN 0 ELSE h[e(s)] + G[s \ {e(s)}]
  <2> HIDE DEF G
  <2> QED
    BY <1>2 DEF EsIter
<1>4. \A s \in SUBSET D : s # {} => e(s) \in s
  OBVIOUS
<1>5. IsWellFoundedOn(R, FiniteSubsetsOf(D))
  BY FS_StrictSubsetOrderingWellFounded
<1>6. B \subseteq FiniteSubsetsOf(D)
  BY FS_Subset DEF FiniteSubsetsOf
<1>7. \A s, t \in SUBSET D : t \subseteq s /\ t # s => <<t, s>> \in R
  BY DEF StrictSubsetOrdering
<1> HIDE DEF G, R, e
<1>8. B = {}
  <2> SUFFICES ASSUME B # {} PROVE FALSE
    OBVIOUS
  <2>1. PICK s \in B : \A t \in B : ~(<<t, s>> \in R)
    BY <1>5, <1>6, WFMin
  <2>2. s \in SUBSET D /\ G[s] # F[s]
    OBVIOUS
  <2>3. s # {}
    BY <1>3, <2>2
  <2> DEFINE t == s \ {e(s)}
  <2>4. t \in SUBSET D /\ t \subseteq s /\ t # s /\ e(s) \in s
    BY <1>4, <2>2, <2>3
  <2>5. G[t] = F[t]
    BY <1>7, <2>1, <2>2, <2>4
  <2> QED
    BY <1>3, <2>2, <2>3, <2>4, <2>5
<1>9. D \in SUBSET D
  OBVIOUS
<1> QED
  BY <1>8, <1>9, TotalIter DEF G

(* The parts of a population add up to it.                                  *)
LEMMA Particion ==
  ASSUME NEW h, IsFiniteSet(DOMAIN h), NEW X, IsFiniteSet(X), NEW c \in [X -> DOMAIN h],
         \A k \in DOMAIN h : h[k] = Cardinality({x \in X : c[x] = k})
  PROVE  Total(h) = Cardinality(X)
<1> DEFINE D == DOMAIN h
           P(s) == {x \in X : c[x] \in s}
           F == [s \in SUBSET D |-> Cardinality(P(s))]
<1>1. F = [s \in SUBSET D |-> F[s]]
  OBVIOUS
<1>2. F[{}] = 0
  <2>1. P({}) = {}
    OBVIOUS
  <2> QED
    BY <2>1, FS_EmptySet
<1>3. \A s \in SUBSET D : IsFiniteSet(P(s)) /\ Cardinality(P(s)) \in Nat
  BY FS_Subset, FS_CardinalityType
<1>4. ASSUME NEW s \in SUBSET D, NEW k \in s
      PROVE  F[s] = h[k] + F[s \ {k}]
  <2> DEFINE S == P(s \ {k})
             T == {x \in X : c[x] = k}
  <2>1. P(s) = S \cup T /\ S \cap T = {}
    OBVIOUS
  <2>2. IsFiniteSet(S) /\ IsFiniteSet(T) /\ Cardinality(S) \in Nat /\ Cardinality(T) \in Nat
    BY <1>3, FS_Subset, FS_CardinalityType
  <2>3. h[k] = Cardinality(T) /\ F[s] = Cardinality(P(s)) /\ F[s \ {k}] = Cardinality(S)
    OBVIOUS
  <2> HIDE DEF S, T, F, P
  <2>4. Cardinality(P(s)) = Cardinality(S) + Cardinality(T)
    <3>1. Cardinality(S \cup T) = Cardinality(S) + Cardinality(T) - Cardinality(S \cap T)
      BY <2>2, FS_Union
    <3>2. Cardinality(S \cap T) = 0
      BY <2>1, FS_EmptySet
    <3> QED
      BY <2>1, <2>2, <3>1, <3>2
  <2> QED
    BY <2>2, <2>3, <2>4
<1>5. P(D) = X
  OBVIOUS
<1> HIDE DEF P
<1>6. F[D] = Cardinality(X)
  BY <1>5
<1> HIDE DEF F
<1>7. Total(h) = F[D]
  BY <1>1, <1>2, <1>4, TotalEs
<1> QED
  BY <1>6, <1>7

(* The same over any finite K where every value of c is.                    *)
LEMMA EnTotal ==
  ASSUME NEW K, IsFiniteSet(K), NEW Y, IsFiniteSet(Y), NEW c \in [Y -> K],
         NEW h, DOMAIN h = K, \A k \in K : h[k] = Cardinality({x \in Y : c[x] = k})
  PROVE  Total(h) = Cardinality(Y)
BY Particion

(* A GROUP BY over c of the rows of Y, with a group for each of X.           *)
LEMMA GrupoTotal ==
  ASSUME NEW X, IsFiniteSet(X), NEW c, NEW Y \in SUBSET X
  PROVE  Total([k \in {c[x] : x \in X} |-> Cardinality({x \in Y : c[x] = k})]) = Cardinality(Y)
<1> DEFINE D == {c[x] : x \in X}
           f == [x \in X |-> c[x]]
           g == [y \in Y |-> c[y]]
           h == [k \in D |-> Cardinality({x \in Y : c[x] = k})]
<1>1. f \in [X -> D] /\ \A k \in D : \E x \in X : f[x] = k
  OBVIOUS
<1>2. DOMAIN h = D
  OBVIOUS
<1>3. g \in [Y -> D] /\ \A k \in D : h[k] = Cardinality({x \in Y : g[x] = k})
  <2>1. g \in [Y -> D]
    OBVIOUS
  <2>2. \A k \in D : {x \in Y : g[x] = k} = {x \in Y : c[x] = k}
    OBVIOUS
  <2> HIDE DEF g
  <2> QED
    BY <2>1, <2>2
<1>4. IsFiniteSet(D)
  <2> HIDE DEF D, f
  <2> QED
    BY <1>1, Cubre
<1>5. IsFiniteSet(Y)
  BY FS_Subset
<1>6. Total(h) = Cardinality(Y)
  <2> HIDE DEF D, h, g
  <2> QED
    BY <1>2, <1>3, <1>4, <1>5, EnTotal
<1> QED
  BY <1>6

LEMMA EstadosFinitos == IsFiniteSet(EstadosLead)
<1> DEFINE q == <<"nuevo", "asignado", "sin_contacto", "en_seguimiento", "reunion_agendada",
                  "reunion_realizada", "ficha_generada", "cerrado", "no_interesado",
                  "datos_erroneos", "no_contactado", "perdido">>
           f == [i \in 1 .. 12 |-> q[i]]
<1>1. f \in [1 .. 12 -> EstadosLead]
  BY DEF EstadosLead
<1>2. \A e \in EstadosLead : \E i \in 1 .. 12 : f[i] = e
  <2>1. \A i \in 1 .. 12 : f[i] = q[i]
    OBVIOUS
  <2>2. \A e \in EstadosLead :
          e = q[1] \/ e = q[2] \/ e = q[3] \/ e = q[4] \/ e = q[5] \/ e = q[6] \/ e = q[7]
          \/ e = q[8] \/ e = q[9] \/ e = q[10] \/ e = q[11] \/ e = q[12]
    BY DEF EstadosLead
  <2> HIDE DEF f, q
  <2> QED
    <3>1. /\ 1 \in 1 .. 12 /\ 2 \in 1 .. 12 /\ 3 \in 1 .. 12 /\ 4 \in 1 .. 12
          /\ 5 \in 1 .. 12 /\ 6 \in 1 .. 12 /\ 7 \in 1 .. 12 /\ 8 \in 1 .. 12
          /\ 9 \in 1 .. 12 /\ 10 \in 1 .. 12 /\ 11 \in 1 .. 12 /\ 12 \in 1 .. 12
      OBVIOUS
    <3> QED
      BY <2>1, <2>2, <3>1, Zenon
<1> HIDE DEF f
<1>3. IsFiniteSet(1 .. 12)
  <2>1. 1 \in Int /\ 12 \in Int
    OBVIOUS
  <2> QED
    BY <2>1, FS_Interval
<1> QED
  BY <1>1, <1>2, <1>3, Cubre

-----------------------------------------------------------------------------
(***************************************************************************)
(* One instant.  Besides TabInv, what a snapshot is of: finitely many      *)
(* leads, each in a state of the machine and with advisors of the table.   *)
(***************************************************************************)
FotoBien(d) ==
  /\ IsFiniteSet(Ingresados(d))
  /\ d.estado \in [Leads -> EstadosLead]
  /\ d.asig \in [Leads -> SUBSET Asesores]

Fotografiado(t) == t.fase \in {"leyendo", "listo"} => FotoBien(t.foto)

Movimientos == [Leads -> [asig : SUBSET Dias, cambio : SUBSET Dias, nota : SUBSET Dias]]

TipoInv ==
  /\ TypeOK
  /\ dias \in Movimientos
  /\ escrituras \in 0 .. MaxEscrituras
  /\ tablero.fase \in {"libre", "leyendo", "listo", "dejado", "error"}
  /\ Fotografiado(tablero)

LEMMA IngresadosFinitos ==
  ASSUME AltasEnOrden
  PROVE  IsFiniteSet(Ingresados(Datos)) /\ Len(altas) = Cardinality(Ingresados(Datos))
<1> DEFINE n == Len(altas)
           S == Ingresados(Datos)
           f == [i \in 1 .. n |-> altas[i]]
<1>1. /\ altas \in Seq(Leads) /\ {altas[i] : i \in 1 .. n} = S
      /\ \A i, j \in 1 .. n : altas[i] = altas[j] => i = j
  BY DEF AltasEnOrden
<1>2. n \in Nat
  BY <1>1
<1>3. IsFiniteSet(1 .. n) /\ Cardinality(1 .. n) = n
  <2>1. 1 \in Int /\ n \in Int
    BY <1>2
  <2>2. IsFiniteSet(1 .. n) /\ Cardinality(1 .. n) = IF 1 > n THEN 0 ELSE n - 1 + 1
    BY <2>1, FS_Interval
  <2> QED
    BY <1>2, <2>2
<1> HIDE DEF n, S
<1>4. f \in [1 .. n -> S] /\ (\A i, j \in 1 .. n : f[i] = f[j] => i = j)
      /\ \A l \in S : \E i \in 1 .. n : f[i] = l
  <2>1. \A i \in 1 .. n : f[i] = altas[i] /\ altas[i] \in S
    BY <1>1
  <2>2. \A l \in S : \E i \in 1 .. n : altas[i] = l
    BY <1>1
  <2> QED
    BY <1>1, <2>1, <2>2
<1> HIDE DEF f
<1> DEFINE K == 1 .. n
<1>5. /\ IsFiniteSet(K) /\ Cardinality(K) = n /\ f \in [K -> S]
      /\ \A i, j \in K : f[i] = f[j] => i = j
      /\ \A l \in S : \E i \in K : f[i] = l
  BY <1>3, <1>4
<1> HIDE DEF K
<1>6. IsFiniteSet(S) /\ Cardinality(S) <= n /\ Cardinality(S) \in Nat
  BY <1>5, Cubre
<1>7. n <= Cardinality(S)
  BY <1>5, <1>6, Inyecta
<1> QED
  BY <1>2, <1>6, <1>7 DEF n, S

LEMMA TablaTipos ==
  ASSUME TabInv, TipoInv
  PROVE  TypeOKTablero
<1>1. /\ hoy \in Dias /\ alta \in [Leads -> [dia : Dias, origen : Origenes] \cup {Nada}]
      /\ AltasEnOrden /\ (bandeja = BandejaLibre \/ bandeja \in Recorridos)
      /\ (exporta = ExportaLibre \/ exporta \in Exportaciones)
  BY DEF TabInv, Lectores, Base
<1>2. bandeja.fase \in {"libre", "contar", "listar", "pagina"}
  BY <1>1 DEF BandejaLibre, Recorridos
<1>3. exporta.fase \in {"libre", "contar", "leer", "auditar", "responder", "entregada", "rechazada", "fallida"}
  BY <1>1 DEF ExportaLibre, Exportaciones
<1>4. Len(altas) = Cardinality(Ingresados(Datos)) /\ {altas[i] : i \in 1 .. Len(altas)} = Ingresados(Datos)
  BY <1>1, IngresadosFinitos DEF AltasEnOrden
<1> QED
  BY <1>1, <1>2, <1>3, <1>4 DEF TipoInv, TypeOKTablero, Movimientos

LEMMA TipoEscritura ==
  ASSUME TabInv, TipoInv, Escritura
  PROVE  TipoInv'
<1>0. /\ TypeOK /\ dias \in Movimientos /\ escrituras \in 0 .. MaxEscrituras /\ hoy \in Dias
  BY DEF TipoInv, TabInv, Lectores, Base
<1>1. Escribir
  BY EscrituraDatos DEF TabInv
<1>2. UNCHANGED ledger => TypeOK'
  BY <1>0 DEF TypeOK, ledger
<1>3. ASSUME NEW l \in Leads, NEW o \in Origenes, Ingresar(l, o)
      PROVE  TypeOK' /\ dias' \in Movimientos
  BY <1>0, <1>2, <1>3 DEF Ingresar
<1>4. ASSUME NEW u \in Usuarios, NEW l \in Leads, NEW e \in Manuales, Mover(u, l, e)
      PROVE  TypeOK' /\ dias' \in Movimientos
  <2>1. CambiarEstado(u, l, e) /\ dias' = [dias EXCEPT ![l].cambio = @ \cup {hoy}]
    BY <1>4 DEF Mover
  <2>2. Next
    BY <2>1 DEF Next
  <2> QED
    BY <1>0, <2>1, <2>2, NextTypeOK DEF Movimientos
<1>5. ASSUME NEW u \in Usuarios, NEW l \in Leads, NEW a \in Asesores, Repartir(u, l, a)
      PROVE  TypeOK' /\ dias' \in Movimientos
  <2>1. Asignar(u, l, a) /\ dias' = [dias EXCEPT ![l].asig = @ \cup {hoy}]
    BY <1>5 DEF Repartir
  <2>2. Next
    BY <2>1 DEF Next
  <2> QED
    BY <1>0, <2>1, <2>2, NextTypeOK DEF Movimientos
<1>6. ASSUME NEW u \in Usuarios, NEW l \in Leads, Anotar(u, l)
      PROVE  TypeOK' /\ dias' \in Movimientos
  <2>1. UNCHANGED ledger /\ dias' = [dias EXCEPT ![l].nota = @ \cup {hoy}]
    BY <1>6 DEF Anotar
  <2> QED
    BY <1>0, <1>2, <2>1 DEF Movimientos
<1>7. ASSUME PasarDia
      PROVE  TypeOK' /\ dias' \in Movimientos
  <2>1. UNCHANGED ledger /\ dias' = dias
    BY <1>7 DEF PasarDia
  <2> QED
    BY <1>0, <1>2, <2>1
<1>8. TypeOK' /\ dias' \in Movimientos
  BY <1>3, <1>4, <1>5, <1>6, <1>7 DEF Escritura
<1>9. escrituras' \in 0 .. MaxEscrituras /\ tablero' = tablero
  BY <1>0, <1>1, TableroAssumption DEF Escribir
<1> QED
  BY <1>8, <1>9 DEF TipoInv

LEMMA TipoLectura ==
  ASSUME TabInv, TipoInv, Lectura \/ UNCHANGED vars
  PROVE  TipoInv'
<1>1. UNCHANGED datos
  BY DEF Lectura, AbrirTablero, AbrirBandeja, Leer, Fallar, PerderConexion, SeguirAlerta, ContarFilas,
     ListarPagina, SiguientePagina, PedirExportacion, ContarExportacion, LeerExportacion,
     AuditarExportacion, Entregar, FallarExportacion, vars
<1>2. TypeOK' /\ dias' \in Movimientos /\ escrituras' \in 0 .. MaxEscrituras
  BY <1>1 DEF TipoInv, TypeOK, datos, ledger
<1>3. ASSUME NEW u \in Usuarios, NEW f \in Filtros, AbrirTablero(u, f)
      PROVE  tablero'.fase = "leyendo" /\ Fotografiado(tablero')
  <2>1. tablero'.fase = "leyendo" /\ tablero'.foto = Datos
    BY <1>3 DEF AbrirTablero
  <2>2. IsFiniteSet(Ingresados(Datos))
    BY IngresadosFinitos DEF TabInv, Lectores, Base
  <2>3. Datos.estado = estado /\ Datos.asig = asig
    BY DEF Datos
  <2>4. FotoBien(Datos)
    BY <2>2, <2>3 DEF FotoBien, TipoInv, TypeOK
  <2> QED
    BY <2>1, <2>4 DEF Fotografiado
<1>4. ASSUME NEW x, NEW fallos, Guardar(x, fallos), tablero.fase = "leyendo"
      PROVE  tablero'.fase \in {"leyendo", "listo"} /\ Fotografiado(tablero')
  <2> DEFINE w == Append(tablero.v, x)
             fase == IF Len(tablero.v) + 1 = Len(Productores) THEN "listo" ELSE tablero.fase
             s == [tablero EXCEPT !.v = w, !.fallos = fallos, !.fase = fase]
  <2>1. tablero' = s
    BY <1>4 DEF Guardar
  <2>2. tablero \in Renders(tablero) /\ Fotografiado(tablero)
    BY <1>4 DEF TabInv, Render, TipoInv
  <2>3. fase \in {"leyendo", "listo"}
    BY <1>4
  <2> HIDE DEF w, fase
  <2>4. s.fase = fase /\ s.foto = tablero.foto
    BY <2>2 DEF Renders
  <2> QED
    BY <1>4, <2>1, <2>2, <2>3, <2>4 DEF Fotografiado
<1>5. CASE Leer \/ Fallar
  <2>1. tablero'.fase \in {"leyendo", "listo"} /\ Fotografiado(tablero')
    BY <1>4, <1>5 DEF Leer, Fallar
  <2> QED
    BY <1>2, <2>1 DEF TipoInv
<1>6. CASE PerderConexion \/ \E alerta \in Alertas : SeguirAlerta(alerta)
  <2>1. tablero'.fase \in {"error", "dejado"}
    BY <1>6 DEF PerderConexion, SeguirAlerta
  <2> QED
    BY <1>2, <2>1 DEF TipoInv, Fotografiado
<1>7. CASE UNCHANGED tablero
  BY <1>2, <1>7 DEF TipoInv
<1>8. CASE \E u \in Usuarios, f \in Filtros : AbrirTablero(u, f)
  BY <1>2, <1>3, <1>8 DEF TipoInv
<1>9. \/ UNCHANGED tablero \/ Leer \/ Fallar \/ PerderConexion
      \/ \E alerta \in Alertas : SeguirAlerta(alerta)
      \/ \E u \in Usuarios, f \in Filtros : AbrirTablero(u, f)
  BY DEF Lectura, AbrirBandeja, ContarFilas,
     ListarPagina, SiguientePagina, PedirExportacion, ContarExportacion, LeerExportacion,
     AuditarExportacion, Entregar, FallarExportacion, vars
<1> QED
  BY <1>5, <1>6, <1>7, <1>8, <1>9

LEMMA TipoInicio ==
  ASSUME InitTablero
  PROVE  TipoInv
<1>1. PICK h \in [Leads -> Historias] :
        /\ dias = [l \in Leads |-> h[l].dias]
        /\ estado = [l \in Leads |-> h[l].estado]
        /\ asig = [l \in Leads |-> h[l].asig]
        /\ cita = [c \in Citas |-> Nada]
        /\ histEstado = [l \in Leads |-> h[l].hist]
        /\ histCita = [c \in Citas |-> << >>]
        /\ escrituras = 0 /\ tablero = TableroLibre
  BY DEF InitTablero
<1>2. \A l \in Leads :
        /\ h[l].dias \in [asig : SUBSET Dias, cambio : SUBSET Dias, nota : SUBSET Dias]
        /\ h[l].estado \in EstadosLead /\ h[l].asig \in SUBSET Asesores
        /\ h[l].hist \in Seq(EventoEstado)
  BY HistoriasAssumption DEF Historia
<1>3. TypeOK /\ dias \in Movimientos
  BY <1>1, <1>2 DEF TypeOK, Movimientos
<1>4. escrituras \in 0 .. MaxEscrituras
  BY <1>1, TableroAssumption
<1> QED
  BY <1>1, <1>3, <1>4 DEF TipoInv, TableroLibre, Fotografiado

LEMMA TableroTipado == SpecTablero => [](TabInv /\ TipoInv)
<1>1. InitTablero => TabInv /\ TipoInv
  BY TabInicio, TipoInicio
<1>2. TabInv /\ TipoInv /\ [NextTablero]_vars => (TabInv /\ TipoInv)'
  BY TabPaso, TipoEscritura, TipoLectura DEF NextTablero
<1> QED
  BY <1>1, <1>2, PTL DEF SpecTablero

(* A section that is shown holds what its producer makes of the snapshot.   *)
LEMMA ProductorUnico ==
  /\ DOMAIN Productores = 1 .. 12
  /\ \A i, j \in 1 .. 12 : Productores[i] = Productores[j] => i = j
BY DEF Productores

LEMMA ValorEs ==
  ASSUME NEW t, NEW e, NEW d, Render(t, e, d), t.fase \in {"leyendo", "listo"},
         NEW P, Recien(t, P), NEW p \in P
  PROVE  Valor(t, p) = Producir(p, t.foto, t.f)
<1>1. /\ \E V : t.v \in Seq(V)
      /\ t.fase = "leyendo" => Len(t.v) < 12
      /\ t.fase = "listo" => Len(t.v) = 12
      /\ \A i \in 1 .. Len(t.v) :
           Productores[i] \in t.fallos \/ t.v[i] = Producir(Productores[i], t.foto, t.f)
  BY DEF Render
<1>2. PICK i \in DOMAIN t.v : Productores[i] = p
  BY DEF Recien, Bien
<1>3. p \notin t.fallos
  BY DEF Recien, Bien, SeccionFallida
<1>4. Len(t.v) \in Nat /\ DOMAIN t.v = 1 .. Len(t.v)
  BY <1>1
<1>5. Len(t.v) <= 12
  <2> DEFINE n == Len(t.v)
  <2>1. n \in Nat /\ (n < 12 \/ n = 12)
    BY <1>1, <1>4
  <2> HIDE DEF n
  <2>2. n <= 12
    BY <2>1
  <2> QED
    BY <2>2 DEF n
<1>6. i \in 1 .. Len(t.v) /\ i \in 1 .. 12
  BY <1>4, <1>5
<1>7. (CHOOSE j \in DOMAIN Productores : Productores[j] = p) = i
  BY <1>2, <1>6, ProductorUnico
<1> QED
  BY <1>1, <1>2, <1>3, <1>6, <1>7 DEF Valor

(* The rows of a snapshot d that pass the filter f.                         *)
LEMMA PoblacionFinita ==
  ASSUME NEW d, FotoBien(d), NEW f
  PROVE  /\ IsFiniteSet(Poblacion(d, f)) /\ IsFiniteSet(Periodo(d, f))
         /\ Poblacion(d, f) \in SUBSET Leads
<1>1. Poblacion(d, f) \in SUBSET Ingresados(d) /\ Periodo(d, f) \in SUBSET Ingresados(d)
  BY DEF Poblacion, Periodo
<1>2. Ingresados(d) \subseteq Leads
  BY DEF Ingresados
<1> QED
  BY <1>1, <1>2, FS_Subset DEF FotoBien

LEMMA AsesorEs ==
  ASSUME NEW d, FotoBien(d), NEW l \in Leads
  PROVE  AsesorActivo(d, l) \in Asesores \cup {Nada} /\ (AsesorActivo(d, l) = Nada <=> d.asig[l] = {})
<1>1. d.asig[l] \in SUBSET Asesores /\ Nada \notin Asesores
  BY DatosAssumption DEF FotoBien
<1> QED
  BY <1>1 DEF AsesorActivo

(* The groups of one column.                                                *)
LEMMA TotalEstado ==
  ASSUME NEW d, NEW S, IsFiniteSet(S)
  PROVE  Total(get_casos_por_estado(d, S)) = Cardinality(S)
<1> DEFINE c == [l \in S |-> d.estado[l]]
<1>1. get_casos_por_estado(d, S) = [k \in {c[l] : l \in S} |-> Cardinality({l \in S : c[l] = k})]
  BY DEF get_casos_por_estado, Contar, Agrupar
<1> HIDE DEF c
<1>2. S \in SUBSET S
  OBVIOUS
<1> QED
  BY <1>1, <1>2, GrupoTotal

LEMMA TotalOrigen ==
  ASSUME NEW d, NEW S, IsFiniteSet(S)
  PROVE  Total(get_distribucion_origen(d, S)) = Cardinality(S)
<1> DEFINE c == [l \in S |-> d.alta[l].origen]
<1>1. get_distribucion_origen(d, S) = [k \in {c[l] : l \in S} |-> Cardinality({l \in S : c[l] = k})]
  BY DEF get_distribucion_origen, Contar, Agrupar
<1> HIDE DEF c
<1>2. S \in SUBSET S
  OBVIOUS
<1> QED
  BY <1>1, <1>2, GrupoTotal

LEMMA TotalEdad ==
  ASSUME NEW d, NEW S, IsFiniteSet(S)
  PROVE  /\ Total(get_antiguedad(d, S)) = Cardinality({l \in S : Activo(d, l)})
         /\ Total(get_estancados_por_antiguedad(d, S)) = Cardinality(Estancados(d, S))
<1> DEFINE c == [l \in S |-> Antiguedad(d, l)]
           G(X) == [k \in {c[l] : l \in X} |-> Cardinality({l \in X : c[l] = k})]
           A == {l \in S : Activo(d, l)}
           E == Estancados(d, S)
<1>1. A \in SUBSET S /\ E \in SUBSET S
  BY DEF Estancados
<1>2. ASSUME NEW X \in SUBSET S
      PROVE  Total(G(X)) = Cardinality(X)
  <2> HIDE DEF c
  <2>1. IsFiniteSet(X) /\ X \in SUBSET X
    BY FS_Subset
  <2> QED
    BY <2>1, GrupoTotal
<1>3. \A l \in S : c[l] = Antiguedad(d, l)
  OBVIOUS
<1>4. get_antiguedad(d, S) = G(A)
  <2> HIDE DEF c
  <2>1. get_antiguedad(d, S) = [k \in {Antiguedad(d, l) : l \in A} |-> Cardinality({l \in A : Antiguedad(d, l) = k})]
    BY DEF get_antiguedad, Contar, Agrupar
  <2>2. {Antiguedad(d, l) : l \in A} = {c[l] : l \in A}
    BY <1>3
  <2>3. \A k : {l \in A : Antiguedad(d, l) = k} = {l \in A : c[l] = k}
    BY <1>3
  <2> QED
    BY <2>1, <2>2, <2>3
<1>5. get_estancados_por_antiguedad(d, S) = G(E)
  <2> HIDE DEF c
  <2>1. get_estancados_por_antiguedad(d, S) = [k \in {Antiguedad(d, l) : l \in E} |-> Cardinality({l \in E : Antiguedad(d, l) = k})]
    BY DEF get_estancados_por_antiguedad, Contar, Agrupar
  <2> HIDE DEF E
  <2>2. {Antiguedad(d, l) : l \in E} = {c[l] : l \in E}
    BY <1>1, <1>3
  <2>3. \A k : {l \in E : Antiguedad(d, l) = k} = {l \in E : c[l] = k}
    BY <1>1, <1>3
  <2> QED
    BY <2>1, <2>2, <2>3
<1> HIDE DEF G
<1> QED
  BY <1>1, <1>2, <1>4, <1>5

LEMMA TotalEvolucion ==
  ASSUME NEW d, FotoBien(d), NEW f
  PROVE  Total(get_evolucion(d, f)) = Cardinality(Periodo(d, f))
<1> DEFINE S == Periodo(d, f)
           c == [l \in S |-> d.alta[l].dia]
<1>1. get_evolucion(d, f) = [k \in {c[l] : l \in S} |-> Cardinality({l \in S : c[l] = k})]
  BY DEF get_evolucion, Contar, Agrupar
<1>2. S \in SUBSET S /\ IsFiniteSet(S)
  BY PoblacionFinita
<1> HIDE DEF c, S
<1>3. Total(get_evolucion(d, f)) = Cardinality(S)
  BY <1>1, <1>2, GrupoTotal
<1> QED
  BY <1>3 DEF S

(* The table of advisors: its columns add up, the row of nobody holds the    *)
(* unassigned.                                                              *)
TablaAsesores(d, S) ==
  Agrupar(S, LAMBDA l : AsesorActivo(d, l), LAMBDA T : FilaAsesor(d, T))

Grupo(d, S, k) == {l \in S : AsesorActivo(d, l) = k}

Celda(d, S, a, e) == {l \in S : AsesorActivo(d, l) = a /\ d.estado[l] = e}

LEMMA TablaAsesoresEs ==
  ASSUME NEW d, NEW S
  PROVE  /\ DOMAIN TablaAsesores(d, S) = {AsesorActivo(d, l) : l \in S}
         /\ \A k \in DOMAIN TablaAsesores(d, S) :
              TablaAsesores(d, S)[k] = FilaAsesor(d, Grupo(d, S, k))
BY DEF TablaAsesores, Agrupar, Grupo

LEMMA ColumnaTotal ==
  ASSUME NEW d, NEW S, IsFiniteSet(S), NEW Y \in SUBSET S, NEW h,
         h = [k \in DOMAIN TablaAsesores(d, S) |-> Cardinality(Grupo(d, Y, k))]
  PROVE  Total(h) = Cardinality(Y)
<1> DEFINE c == [l \in S |-> AsesorActivo(d, l)]
<1>1. \A l \in S : c[l] = AsesorActivo(d, l)
  OBVIOUS
<1> HIDE DEF c
<1>2. {AsesorActivo(d, l) : l \in S} = {c[l] : l \in S}
  BY <1>1
<1>3. \A k : Grupo(d, Y, k) = {l \in Y : c[l] = k}
  BY <1>1 DEF Grupo
<1>4. h = [k \in {c[l] : l \in S} |-> Cardinality({l \in Y : c[l] = k})]
  BY <1>2, <1>3, TablaAsesoresEs
<1>5. Total([k \in {c[l] : l \in S} |-> Cardinality({l \in Y : c[l] = k})]) = Cardinality(Y)
  BY GrupoTotal
<1> QED
  BY <1>4, <1>5

Activas(d, S) == {l \in S : Activo(d, l)}

LEMMA TotalAsesores ==
  ASSUME NEW d, NEW S, IsFiniteSet(S)
  PROVE  LET filas == TablaAsesores(d, S) IN
         /\ Sumar(filas, LAMBDA r : r.total) = Cardinality(S)
         /\ Sumar(filas, LAMBDA r : r.activa) = Cardinality(Activas(d, S))
         /\ Sumar(filas, LAMBDA r : r.estancados) = Cardinality(Estancados(d, S))
         /\ Sumar(filas, LAMBDA r : r.asignacion) = Asignados(d, S)
         /\ Sumar(filas, LAMBDA r : r.gestion) = Gestionados(d, S)
<1> DEFINE filas == TablaAsesores(d, S)
           G(k) == Grupo(d, S, k)
           A == {l \in S : Activo(d, l)}
           E == {l \in S : Estancado(d, l)}
           I == {l \in S : d.dias[l].asig # {}}
           M == {l \in S : Gestiones(d, l) # {}}
           C(Y, k) == Cardinality(Grupo(d, Y, k))
<1>1. \A k \in DOMAIN filas : filas[k] = FilaAsesor(d, G(k))
  BY TablaAsesoresEs
<1>2. \A k : /\ FilaAsesor(d, G(k)).total = Cardinality(G(k))
             /\ FilaAsesor(d, G(k)).activa = Cardinality({l \in G(k) : Activo(d, l)})
             /\ FilaAsesor(d, G(k)).estancados = Cardinality({l \in G(k) : Estancado(d, l)})
             /\ FilaAsesor(d, G(k)).asignacion = Cardinality({l \in G(k) : d.dias[l].asig # {}})
             /\ FilaAsesor(d, G(k)).gestion = Cardinality({l \in G(k) : Gestiones(d, l) # {}})
  <2> HIDE DEF G
  <2> QED
    BY DEF FilaAsesor, Estancados, Asignados, Gestionados
<1>3. \A k : /\ {l \in G(k) : Activo(d, l)} = Grupo(d, A, k)
             /\ {l \in G(k) : Estancado(d, l)} = Grupo(d, E, k)
             /\ {l \in G(k) : d.dias[l].asig # {}} = Grupo(d, I, k)
             /\ {l \in G(k) : Gestiones(d, l) # {}} = Grupo(d, M, k)
  BY DEF Grupo
<1>4. S \in SUBSET S /\ A \in SUBSET S /\ E \in SUBSET S /\ I \in SUBSET S /\ M \in SUBSET S
  OBVIOUS
<1>5. \A k \in DOMAIN filas :
        /\ filas[k].total = C(S, k) /\ filas[k].activa = C(A, k) /\ filas[k].estancados = C(E, k)
        /\ filas[k].asignacion = C(I, k) /\ filas[k].gestion = C(M, k)
  <2> HIDE DEF filas, A, E, I, M
  <2> QED
    BY <1>1, <1>2, <1>3
<1>6. /\ Estancados(d, S) = E /\ Asignados(d, S) = Cardinality(I) /\ Gestionados(d, S) = Cardinality(M)
  BY DEF Estancados, Asignados, Gestionados
<1>7. \A Y \in SUBSET S : Total([k \in DOMAIN filas |-> C(Y, k)]) = Cardinality(Y)
  BY ColumnaTotal
<1> HIDE DEF filas, A, E, I, M, C
<1>8. /\ Sumar(filas, LAMBDA r : r.total) = Total([k \in DOMAIN filas |-> C(S, k)])
      /\ Sumar(filas, LAMBDA r : r.activa) = Total([k \in DOMAIN filas |-> C(A, k)])
      /\ Sumar(filas, LAMBDA r : r.estancados) = Total([k \in DOMAIN filas |-> C(E, k)])
      /\ Sumar(filas, LAMBDA r : r.asignacion) = Total([k \in DOMAIN filas |-> C(I, k)])
      /\ Sumar(filas, LAMBDA r : r.gestion) = Total([k \in DOMAIN filas |-> C(M, k)])
  <2>1. /\ [k \in DOMAIN filas |-> filas[k].total] = [k \in DOMAIN filas |-> C(S, k)]
        /\ [k \in DOMAIN filas |-> filas[k].activa] = [k \in DOMAIN filas |-> C(A, k)]
        /\ [k \in DOMAIN filas |-> filas[k].estancados] = [k \in DOMAIN filas |-> C(E, k)]
        /\ [k \in DOMAIN filas |-> filas[k].asignacion] = [k \in DOMAIN filas |-> C(I, k)]
        /\ [k \in DOMAIN filas |-> filas[k].gestion] = [k \in DOMAIN filas |-> C(M, k)]
    BY <1>5
  <2> QED
    BY <2>1 DEF Sumar
<1>9. /\ Sumar(filas, LAMBDA r : r.total) = Cardinality(S)
      /\ Sumar(filas, LAMBDA r : r.activa) = Cardinality(A)
      /\ Sumar(filas, LAMBDA r : r.estancados) = Cardinality(E)
      /\ Sumar(filas, LAMBDA r : r.asignacion) = Cardinality(I)
      /\ Sumar(filas, LAMBDA r : r.gestion) = Cardinality(M)
  BY <1>4, <1>7, <1>8
<1> QED
  BY <1>6, <1>9 DEF filas, A, Activas

LEMMA FilaTotal ==
  ASSUME NEW d, NEW T
  PROVE  FilaAsesor(d, T).total = Cardinality(T)
BY DEF FilaAsesor

LEMMA FilaDeNadie ==
  ASSUME NEW d, FotoBien(d), NEW S \in SUBSET Leads
  PROVE  LET filas == TablaAsesores(d, S) IN
         (IF Nada \in DOMAIN filas THEN filas[Nada].total ELSE 0) =
           Cardinality({l \in S : SinAsignar(d, l)})
<1> DEFINE filas == TablaAsesores(d, S)
           N == Grupo(d, S, Nada)
<1>1. {l \in S : SinAsignar(d, l)} = N
  BY AsesorEs DEF SinAsignar, Grupo
<1>2. Nada \in DOMAIN filas => filas[Nada].total = Cardinality(N)
  BY TablaAsesoresEs, FilaTotal
<1>3. Nada \notin DOMAIN filas => N = {}
  <2>1. DOMAIN filas = {AsesorActivo(d, l) : l \in S}
    BY TablaAsesoresEs
  <2> HIDE DEF filas
  <2> QED
    BY <2>1 DEF Grupo
<1> HIDE DEF filas, N
<1>4. Nada \notin DOMAIN filas => Cardinality(N) = 0
  BY <1>3, FS_EmptySet
<1> QED
  BY <1>1, <1>2, <1>4 DEF filas

(* The matrix of advisors by states, and its margins.                       *)
LEMMA MatrizEs ==
  ASSUME NEW d, NEW S, NEW a, NEW e
  PROVE  En(get_casos_por_estado_y_asesor(d, S), <<a, e>>) =
           Cardinality(Celda(d, S, a, e))
<1> DEFINE m == get_casos_por_estado_y_asesor(d, S)
           D == {<<AsesorActivo(d, l), d.estado[l]>> : l \in S}
           Y == Celda(d, S, a, e)
           k == <<a, e>>
<1>1. m = [q \in D |-> Cardinality({l \in S : <<AsesorActivo(d, l), d.estado[l]>> = q})]
  BY DEF get_casos_por_estado_y_asesor, Contar, Agrupar
<1>2. {l \in S : <<AsesorActivo(d, l), d.estado[l]>> = k} = Y
  BY DEF Celda
<1>3. k \notin D => Y = {}
  BY DEF Celda
<1> HIDE DEF m, Y
<1>4. DOMAIN m = D /\ (k \in D => m[k] = Cardinality(Y))
  BY <1>1, <1>2
<1>5. k \notin D => Cardinality(Y) = 0
  BY <1>3, FS_EmptySet
<1> QED
  BY <1>4, <1>5 DEF En, m, Y

LEMMA MargenAsesor ==
  ASSUME NEW d, FotoBien(d), NEW S \in SUBSET Leads, IsFiniteSet(S),
         NEW a \in DOMAIN TablaAsesores(d, S)
  PROVE  TablaAsesores(d, S)[a].total =
           Total([e \in EstadosLead |-> En(get_casos_por_estado_y_asesor(d, S), <<a, e>>)])
<1> DEFINE Y == Grupo(d, S, a)
           c == [l \in Y |-> d.estado[l]]
           h == [e \in EstadosLead |-> En(get_casos_por_estado_y_asesor(d, S), <<a, e>>)]
<1>1. TablaAsesores(d, S)[a].total = Cardinality(Y)
  BY TablaAsesoresEs, FilaTotal
<1>2. Y \in SUBSET S
  BY DEF Grupo
<1>2a. IsFiniteSet(Y)
  BY <1>2, FS_Subset
<1>3. c \in [Y -> EstadosLead]
  BY <1>2 DEF FotoBien
<1>4. \A e \in EstadosLead : {l \in Y : c[l] = e} = Celda(d, S, a, e)
  BY DEF Grupo, Celda
<1> HIDE DEF Y, c
<1>5. \A e \in EstadosLead : h[e] = Cardinality({l \in Y : c[l] = e})
  <2> TAKE e \in EstadosLead
  <2>1. h[e] = En(get_casos_por_estado_y_asesor(d, S), <<a, e>>)
    OBVIOUS
  <2>2. h[e] = Cardinality(Celda(d, S, a, e))
    BY <2>1, MatrizEs
  <2> QED
    BY <1>4, <2>2
<1>6. DOMAIN h = EstadosLead
  OBVIOUS
<1> HIDE DEF h
<1>7. Total(h) = Cardinality(Y)
  BY <1>2a, <1>3, <1>5, <1>6, EstadosFinitos, EnTotal
<1> QED
  BY <1>1, <1>7 DEF h

LEMMA MargenEstado ==
  ASSUME NEW d, FotoBien(d), NEW S \in SUBSET Leads, IsFiniteSet(S),
         NEW e \in DOMAIN get_casos_por_estado(d, S)
  PROVE  get_casos_por_estado(d, S)[e] =
           Total([a \in Asesores \cup {Nada} |-> En(get_casos_por_estado_y_asesor(d, S), <<a, e>>)])
<1> DEFINE K == Asesores \cup {Nada}
           Y == {l \in S : d.estado[l] = e}
           c == [l \in Y |-> AsesorActivo(d, l)]
           h == [a \in K |-> En(get_casos_por_estado_y_asesor(d, S), <<a, e>>)]
<1>1. get_casos_por_estado(d, S)[e] = Cardinality(Y)
  BY DEF get_casos_por_estado, Contar, Agrupar
<1>2. IsFiniteSet(Y) /\ IsFiniteSet(K)
  BY FS_Subset, FS_AddElement, TableroAssumption
<1>3. c \in [Y -> K]
  BY AsesorEs
<1>4. \A a \in K : {l \in Y : c[l] = a} = Celda(d, S, a, e)
  BY DEF Celda
<1> HIDE DEF K, Y, c
<1>5. \A a \in K : h[a] = Cardinality({l \in Y : c[l] = a})
  BY <1>4, MatrizEs
<1>6. DOMAIN h = K
  OBVIOUS
<1> HIDE DEF h
<1>7. Total(h) = Cardinality(Y)
  BY <1>2, <1>3, <1>5, <1>6, EnTotal
<1> QED
  BY <1>1, <1>7 DEF h, K

(* The funnel of a period: its steps are of leads that have a history.       *)
Cubiertos(d, f) == {l \in Periodo(d, f) : Cutover # Nada /\ Cutover <= d.alta[l].dia}

Salidas(d, f) == {<<p[1], p[2][1]>> : p \in Pasos(d, Cubiertos(d, f))}

Recorren(d, f, t) == {p \in Pasos(d, Cubiertos(d, f)) : p[2] = t}

Dejan(d, f, e) == {q \in Salidas(d, f) : q[2] = e}

LEMMA FunnelEs ==
  ASSUME NEW d, NEW f
  PROVE  LET x == Funnel(d, f) IN
         /\ x.excluidos = Cardinality(IF Cutover = Nada THEN {} ELSE Periodo(d, f) \ Cubiertos(d, f))
         /\ x.denominador = Cardinality(Cubiertos(d, f))
         /\ DOMAIN x.pasos = {p[2] : p \in Pasos(d, Cubiertos(d, f))}
         /\ \A t \in DOMAIN x.pasos :
              x.pasos[t] = Cardinality(Recorren(d, f, t))
         /\ DOMAIN x.bases = {q[2] : q \in Salidas(d, f)}
         /\ \A e \in DOMAIN x.bases : x.bases[e] = Cardinality(Dejan(d, f, e))
BY DEF Funnel, Contar, Agrupar, Cubiertos, Salidas, Recorren, Dejan

LEMMA FunnelCubre ==
  ASSUME NEW d, FotoBien(d), NEW f, Disponible(f, Funnel(d, f))
  PROVE  Funnel(d, f).denominador = Cardinality(Periodo(d, f))
<1> DEFINE S == Periodo(d, f)
           P == Cubiertos(d, f)
<1>1. Cutover # Nada /\ Funnel(d, f).excluidos = 0
  BY DEF Disponible
<1>2. /\ Funnel(d, f).excluidos = Cardinality(IF Cutover = Nada THEN {} ELSE S \ P)
      /\ Funnel(d, f).denominador = Cardinality(P)
  BY FunnelEs
<1>3. IsFiniteSet(S) /\ P \subseteq S
  BY PoblacionFinita DEF Cubiertos
<1> HIDE DEF S, P
<1>4. Cardinality(S \ P) = 0
  BY <1>1, <1>2
<1>5. IsFiniteSet(S \ P)
  BY <1>3, FS_Difference
<1>6. S \ P = {}
  BY <1>4, <1>5, FS_EmptySet
<1>7. S = P
  BY <1>3, <1>6
<1> QED
  BY <1>2, <1>7 DEF S

LEMMA FunnelDecrece ==
  ASSUME NEW d, FotoBien(d), NEW f, NEW t \in DOMAIN Funnel(d, f).pasos
  PROVE  /\ Funnel(d, f).pasos[t] <= En(Funnel(d, f).bases, t[1])
         /\ En(Funnel(d, f).bases, t[1]) <= Funnel(d, f).denominador
<1> DEFINE P == Cubiertos(d, f)
           Z == Pasos(d, P)
           A == Recorren(d, f, t)
           B == Dejan(d, f, t[1])
           g == [p \in A |-> <<p[1], p[2][1]>>]
           b == [q \in B |-> q[1]]
           x == Funnel(d, f)
<1>1. IsFiniteSet(P)
  <2>1. P \in SUBSET Periodo(d, f)
    BY DEF Cubiertos
  <2> QED
    BY <2>1, PoblacionFinita, FS_Subset
<1>2. \A p \in Z : p = <<p[1], p[2]>> /\ p[1] \in P
  <2> HIDE DEF P
  <2> QED
    BY DEF Pasos
<1>3. \A q \in Salidas(d, f) : \E p \in Z : q = <<p[1], p[2][1]>>
  BY DEF Salidas
<1>4. \A p \in Z : <<p[1], p[2][1]>> \in Salidas(d, f)
  BY DEF Salidas
<1>4a. A = {p \in Z : p[2] = t}
  BY DEF Recorren
<1> HIDE DEF Z, P, x
<1>5. b \in [B -> P] /\ \A y, z \in B : b[y] = b[z] => y = z
  BY <1>2, <1>3 DEF Dejan
<1>6. g \in [A -> B] /\ \A y, z \in A : g[y] = g[z] => y = z
  <2>1. g \in [A -> B]
    BY <1>4, <1>4a DEF Dejan
  <2>2. \A y, z \in A : g[y] = g[z] => y = z
    BY <1>2, <1>4a
  <2> QED
    BY <2>1, <2>2
<1>7. /\ x.denominador = Cardinality(P) /\ x.pasos[t] = Cardinality(A)
      /\ t[1] \in DOMAIN x.bases => x.bases[t[1]] = Cardinality(B)
      /\ DOMAIN x.bases = {q[2] : q \in Salidas(d, f)}
      /\ DOMAIN x.pasos = {p[2] : p \in Z}
  <2> HIDE DEF A, B
  <2>1. x.denominador = Cardinality(P)
    BY FunnelEs DEF x, P
  <2>2. DOMAIN x.pasos = {p[2] : p \in Z}
    BY FunnelEs DEF x, Z, P
  <2>3. DOMAIN x.bases = {q[2] : q \in Salidas(d, f)}
    BY FunnelEs DEF x
  <2>4. x.pasos[t] = Cardinality(A)
    BY FunnelEs DEF x, A
  <2>5. t[1] \in DOMAIN x.bases => x.bases[t[1]] = Cardinality(B)
    <3>1. \A e \in DOMAIN x.bases : x.bases[e] = Cardinality(Dejan(d, f, e))
      BY FunnelEs DEF x
    <3> HIDE DEF x
    <3> QED
      BY <3>1 DEF B
  <2> QED
    BY <2>1, <2>2, <2>3, <2>4, <2>5
<1>8. t[1] \in DOMAIN x.bases
  <2>1. PICK p \in Z : p[2] = t
    BY <1>7 DEF x
  <2>2. <<p[1], p[2][1]>> \in Salidas(d, f) /\ <<p[1], p[2][1]>>[2] = t[1]
    BY <1>4, <2>1
  <2> QED
    BY <1>7, <2>2
<1> HIDE DEF A, B, g, b
<1>9. IsFiniteSet(B) /\ Cardinality(B) <= Cardinality(P)
  BY <1>1, <1>5, Inyecta
<1>10. Cardinality(A) <= Cardinality(B)
  BY <1>6, <1>9, Inyecta
<1>11. En(x.bases, t[1]) = Cardinality(B)
  BY <1>7, <1>8 DEF En
<1> QED
  BY <1>7, <1>9, <1>10, <1>11 DEF x

(* What the producers make of one snapshot agrees.                          *)
LEMMA Producciones ==
  ASSUME NEW d, NEW f
  PROVE  LET S == Poblacion(d, f) IN
         /\ Producir("kpis", d, f).total = Cardinality(S)
         /\ Producir("kpis", d, f).activa = Cardinality({l \in S : Activo(d, l)})
         /\ Producir("kpis", d, f).sinAsignar = Cardinality({l \in S : SinAsignar(d, l)})
         /\ Producir("estancados", d, f) = Cardinality(Estancados(d, S))
         /\ Producir("estado", d, f) = get_casos_por_estado(d, S)
         /\ Producir("antiguedad", d, f) = get_antiguedad(d, S)
         /\ Producir("estancadosAntiguedad", d, f) = get_estancados_por_antiguedad(d, S)
         /\ Producir("asesores", d, f) = TablaAsesores(d, S)
         /\ Producir("matriz", d, f) = get_casos_por_estado_y_asesor(d, S)
         /\ Producir("categorias", d, f) = get_distribucion_origen(d, S)
         /\ Producir("ingresados", d, f) = Cardinality(Periodo(d, f))
         /\ Producir("evolucion", d, f) = get_evolucion(d, f)
         /\ Producir("funnel", d, f) = Funnel(d, f)
         /\ Producir("tiempos", d, f).asignacion = Asignados(d, S)
         /\ Producir("tiempos", d, f).gestion = Gestionados(d, S)
<1> DEFINE S == Poblacion(d, f)
<1>1. Producir("kpis", d, f) = get_kpi_snapshot(d, S)
  BY DEF Producir
<1>2. /\ Producir("estancados", d, f) = Cardinality(Estancados(d, S))
      /\ Producir("estado", d, f) = get_casos_por_estado(d, S)
      /\ Producir("antiguedad", d, f) = get_antiguedad(d, S)
      /\ Producir("estancadosAntiguedad", d, f) = get_estancados_por_antiguedad(d, S)
      /\ Producir("matriz", d, f) = get_casos_por_estado_y_asesor(d, S)
      /\ Producir("categorias", d, f) = get_distribucion_origen(d, S)
      /\ Producir("ingresados", d, f) = Cardinality(Periodo(d, f))
      /\ Producir("evolucion", d, f) = get_evolucion(d, f)
      /\ Producir("funnel", d, f) = Funnel(d, f)
  BY DEF Producir
<1>3. Producir("asesores", d, f) = TablaAsesores(d, S)
  BY DEF Producir, TablaAsesores
<1>4. Producir("tiempos", d, f) = [asignacion |-> Asignados(d, S), gestion |-> Gestionados(d, S)]
  BY DEF Producir
<1>5. /\ get_kpi_snapshot(d, S).total = Cardinality(S)
      /\ get_kpi_snapshot(d, S).activa = Cardinality({l \in S : Activo(d, l)})
      /\ get_kpi_snapshot(d, S).sinAsignar = Cardinality({l \in S : SinAsignar(d, l)})
  BY DEF get_kpi_snapshot
<1> QED
  BY <1>1, <1>2, <1>3, <1>4, <1>5

LEMMA TabCoherente ==
  ASSUME TabInv, TipoInv
  PROVE  TableroCoherente
<1> DEFINE t == tablero
           V(p) == Valor(t, p)
           d == t.foto
           f == t.f
           S == Poblacion(d, f)
<1>1. TypeOKTablero
  BY TablaTipos
<1> SUFFICES ASSUME t.fase \in {"leyendo", "listo"}
             PROVE
       /\ Recien(t, {"kpis", "estado"}) => Total(V("estado")) = V("kpis").total
       /\ Recien(t, {"kpis", "categorias"}) => Total(V("categorias")) = V("kpis").total
       /\ Recien(t, {"kpis", "antiguedad"}) => Total(V("antiguedad")) = V("kpis").activa
       /\ Recien(t, {"estancados", "estancadosAntiguedad"}) =>
            Total(V("estancadosAntiguedad")) = V("estancados")
       /\ Recien(t, {"kpis", "estancados", "asesores"}) =>
            LET filas == V("asesores") IN
            /\ Sumar(filas, LAMBDA r : r.total) = V("kpis").total
            /\ Sumar(filas, LAMBDA r : r.activa) = V("kpis").activa
            /\ Sumar(filas, LAMBDA r : r.estancados) = V("estancados")
            /\ (IF Nada \in DOMAIN filas THEN filas[Nada].total ELSE 0) = V("kpis").sinAsignar
       /\ Recien(t, {"asesores", "matriz"}) => \A a \in DOMAIN V("asesores") :
            V("asesores")[a].total = Total([e \in EstadosLead |-> En(V("matriz"), <<a, e>>)])
       /\ Recien(t, {"estado", "matriz"}) => \A e \in DOMAIN V("estado") :
            V("estado")[e] = Total([a \in Asesores \cup {Nada} |-> En(V("matriz"), <<a, e>>)])
       /\ Recien(t, {"asesores", "tiempos"}) =>
            /\ Sumar(V("asesores"), LAMBDA r : r.asignacion) = V("tiempos").asignacion
            /\ Sumar(V("asesores"), LAMBDA r : r.gestion) = V("tiempos").gestion
       /\ Recien(t, {"ingresados", "evolucion"}) => Total(V("evolucion")) = V("ingresados")
       /\ Recien(t, {"ingresados", "funnel"}) /\ Disponible(t.f, V("funnel")) =>
            V("funnel").denominador = V("ingresados")
       /\ Recien(t, {"funnel"}) => \A p \in DOMAIN V("funnel").pasos :
            /\ V("funnel").pasos[p] <= En(V("funnel").bases, p[1])
            /\ En(V("funnel").bases, p[1]) <= V("funnel").denominador
  BY <1>1 DEF TableroCoherente
<1>2. FotoBien(d)
  BY DEF TipoInv, Fotografiado
<1>3. Render(t, escrituras, Datos)
  BY DEF TabInv
<1>4. \A P : Recien(t, P) => \A p \in P : V(p) = Producir(p, d, f)
  BY <1>3, ValorEs
<1>5. IsFiniteSet(S) /\ S \in SUBSET Leads
  BY <1>2, PoblacionFinita
<1>6. /\ Producir("kpis", d, f).total = Cardinality(S)
      /\ Producir("kpis", d, f).activa = Cardinality({l \in S : Activo(d, l)})
      /\ Producir("kpis", d, f).sinAsignar = Cardinality({l \in S : SinAsignar(d, l)})
      /\ Producir("estancados", d, f) = Cardinality(Estancados(d, S))
      /\ Producir("estado", d, f) = get_casos_por_estado(d, S)
      /\ Producir("antiguedad", d, f) = get_antiguedad(d, S)
      /\ Producir("estancadosAntiguedad", d, f) = get_estancados_por_antiguedad(d, S)
      /\ Producir("asesores", d, f) = TablaAsesores(d, S)
      /\ Producir("matriz", d, f) = get_casos_por_estado_y_asesor(d, S)
      /\ Producir("categorias", d, f) = get_distribucion_origen(d, S)
      /\ Producir("ingresados", d, f) = Cardinality(Periodo(d, f))
      /\ Producir("evolucion", d, f) = get_evolucion(d, f)
      /\ Producir("funnel", d, f) = Funnel(d, f)
      /\ Producir("tiempos", d, f).asignacion = Asignados(d, S)
      /\ Producir("tiempos", d, f).gestion = Gestionados(d, S)
  BY Producciones
<1> HIDE DEF t, V, d, f, S
<1>7. ASSUME Recien(t, {"kpis", "estado"}) \/ Recien(t, {"kpis", "categorias"})
      PROVE  /\ Recien(t, {"kpis", "estado"}) => Total(V("estado")) = V("kpis").total
             /\ Recien(t, {"kpis", "categorias"}) => Total(V("categorias")) = V("kpis").total
  <2>1. V("kpis") = Producir("kpis", d, f)
    BY <1>4, <1>7
  <2>2. Recien(t, {"kpis", "estado"}) => V("estado") = Producir("estado", d, f)
    BY <1>4
  <2>3. Recien(t, {"kpis", "categorias"}) => V("categorias") = Producir("categorias", d, f)
    BY <1>4
  <2>4. Total(get_casos_por_estado(d, S)) = Cardinality(S) /\ Total(get_distribucion_origen(d, S)) = Cardinality(S)
    BY <1>5, TotalEstado, TotalOrigen
  <2> QED
    BY <1>6, <2>1, <2>2, <2>3, <2>4
<1>8. ASSUME Recien(t, {"kpis", "antiguedad"})
      PROVE  Total(V("antiguedad")) = V("kpis").activa
  <2>1. V("kpis") = Producir("kpis", d, f) /\ V("antiguedad") = Producir("antiguedad", d, f)
    BY <1>4, <1>8
  <2>2. Total(get_antiguedad(d, S)) = Cardinality({l \in S : Activo(d, l)})
    BY <1>5, TotalEdad
  <2> QED
    BY <1>6, <2>1, <2>2
<1>9. ASSUME Recien(t, {"estancados", "estancadosAntiguedad"})
      PROVE  Total(V("estancadosAntiguedad")) = V("estancados")
  <2>1. /\ V("estancados") = Producir("estancados", d, f)
        /\ V("estancadosAntiguedad") = Producir("estancadosAntiguedad", d, f)
    BY <1>4, <1>9
  <2>2. Total(get_estancados_por_antiguedad(d, S)) = Cardinality(Estancados(d, S))
    BY <1>5, TotalEdad
  <2> QED
    BY <1>6, <2>1, <2>2
<1>10. ASSUME Recien(t, {"kpis", "estancados", "asesores"})
       PROVE  LET filas == V("asesores") IN
              /\ Sumar(filas, LAMBDA r : r.total) = V("kpis").total
              /\ Sumar(filas, LAMBDA r : r.activa) = V("kpis").activa
              /\ Sumar(filas, LAMBDA r : r.estancados) = V("estancados")
              /\ (IF Nada \in DOMAIN filas THEN filas[Nada].total ELSE 0) = V("kpis").sinAsignar
  <2>1. /\ V("asesores") = TablaAsesores(d, S)
        /\ V("kpis").total = Cardinality(S)
        /\ V("kpis").activa = Cardinality({l \in S : Activo(d, l)})
        /\ V("kpis").sinAsignar = Cardinality({l \in S : SinAsignar(d, l)})
        /\ V("estancados") = Cardinality(Estancados(d, S))
    <3>1. /\ V("kpis") = Producir("kpis", d, f) /\ V("asesores") = Producir("asesores", d, f)
          /\ V("estancados") = Producir("estancados", d, f)
      BY <1>4, <1>10
    <3> QED
      BY <1>6, <3>1
  <2> DEFINE filas == V("asesores")
  <2>2. /\ Sumar(filas, LAMBDA r : r.total) = Cardinality(S)
        /\ Sumar(filas, LAMBDA r : r.activa) = Cardinality(Activas(d, S))
        /\ Sumar(filas, LAMBDA r : r.estancados) = Cardinality(Estancados(d, S))
    <3> HIDE DEF filas
    <3>1. filas = TablaAsesores(d, S)
      BY <2>1 DEF filas
    <3>2. Sumar(filas, LAMBDA r : r.total) = Cardinality(S)
      BY <1>5, <3>1, TotalAsesores
    <3>3. Sumar(filas, LAMBDA r : r.activa) = Cardinality(Activas(d, S))
      BY <1>5, <3>1, TotalAsesores
    <3>4. Sumar(filas, LAMBDA r : r.estancados) = Cardinality(Estancados(d, S))
      BY <1>5, <3>1, TotalAsesores
    <3> QED
      BY <3>2, <3>3, <3>4
  <2>3. (IF Nada \in DOMAIN filas THEN filas[Nada].total ELSE 0) = Cardinality({l \in S : SinAsignar(d, l)})
    BY <1>2, <1>5, <2>1, FilaDeNadie
  <2> QED
    BY <2>1, <2>2, <2>3 DEF Activas
<1>11. ASSUME Recien(t, {"asesores", "matriz"})
       PROVE  \A a \in DOMAIN V("asesores") :
                V("asesores")[a].total = Total([e \in EstadosLead |-> En(V("matriz"), <<a, e>>)])
  <2>1. V("asesores") = TablaAsesores(d, S) /\ V("matriz") = get_casos_por_estado_y_asesor(d, S)
    <3>1. V("asesores") = Producir("asesores", d, f) /\ V("matriz") = Producir("matriz", d, f)
      BY <1>4, <1>11
    <3> QED
      BY <1>6, <3>1
  <2> QED
    BY <1>2, <1>5, <2>1, MargenAsesor
<1>12. ASSUME Recien(t, {"estado", "matriz"})
       PROVE  \A e \in DOMAIN V("estado") :
                V("estado")[e] = Total([a \in Asesores \cup {Nada} |-> En(V("matriz"), <<a, e>>)])
  <2>1. V("estado") = get_casos_por_estado(d, S) /\ V("matriz") = get_casos_por_estado_y_asesor(d, S)
    <3>1. V("estado") = Producir("estado", d, f) /\ V("matriz") = Producir("matriz", d, f)
      BY <1>4, <1>12
    <3> QED
      BY <1>6, <3>1
  <2> QED
    BY <1>2, <1>5, <2>1, MargenEstado
<1>13. ASSUME Recien(t, {"asesores", "tiempos"})
       PROVE  /\ Sumar(V("asesores"), LAMBDA r : r.asignacion) = V("tiempos").asignacion
              /\ Sumar(V("asesores"), LAMBDA r : r.gestion) = V("tiempos").gestion
  <2>1. /\ V("asesores") = TablaAsesores(d, S)
        /\ V("tiempos").asignacion = Asignados(d, S) /\ V("tiempos").gestion = Gestionados(d, S)
    <3>1. V("asesores") = Producir("asesores", d, f) /\ V("tiempos") = Producir("tiempos", d, f)
      BY <1>4, <1>13
    <3> QED
      BY <1>6, <3>1
  <2> QED
    BY <1>5, <2>1, TotalAsesores
<1>14. ASSUME Recien(t, {"ingresados", "evolucion"})
       PROVE  Total(V("evolucion")) = V("ingresados")
  <2>1. V("ingresados") = Producir("ingresados", d, f) /\ V("evolucion") = Producir("evolucion", d, f)
    BY <1>4, <1>14
  <2>2. Total(get_evolucion(d, f)) = Cardinality(Periodo(d, f))
    BY <1>2, TotalEvolucion
  <2> QED
    BY <1>6, <2>1, <2>2
<1>15. ASSUME Recien(t, {"ingresados", "funnel"}), Disponible(t.f, V("funnel"))
       PROVE  V("funnel").denominador = V("ingresados")
  <2>1. V("funnel") = Funnel(d, f) /\ V("ingresados") = Cardinality(Periodo(d, f))
    <3>1. V("funnel") = Producir("funnel", d, f) /\ V("ingresados") = Producir("ingresados", d, f)
      BY <1>4, <1>15
    <3> QED
      BY <1>6, <3>1
  <2> QED
    BY <1>2, <1>15, <2>1, FunnelCubre DEF f
<1>16. ASSUME Recien(t, {"funnel"})
       PROVE  \A p \in DOMAIN V("funnel").pasos :
                /\ V("funnel").pasos[p] <= En(V("funnel").bases, p[1])
                /\ En(V("funnel").bases, p[1]) <= V("funnel").denominador
  <2>1. V("funnel") = Funnel(d, f)
    BY <1>4, <1>6, <1>16
  <2> QED
    BY <1>2, <2>1, FunnelDecrece
<1> QED
  BY <1>7, <1>8, <1>9, <1>10, <1>11, <1>12, <1>13, <1>14, <1>15, <1>16

(* Whatever is written during a render, the sections it shows are of one     *)
(* instant: they add up to one another, for any population, filter and      *)
(* history, and with any section failing.                                   *)
THEOREM SiempreUnInstante == SpecTablero => []TableroCoherente
<1>1. TabInv /\ TipoInv => TableroCoherente
  BY TabCoherente
<1> QED
  BY TableroTipado, <1>1, PTL
=============================================================================
