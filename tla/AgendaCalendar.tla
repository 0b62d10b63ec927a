---------------------------- MODULE AgendaCalendar ----------------------------
(***************************************************************************)
(* The hours of the agenda: which horarios the service accepts and where   *)
(* the week view of /agenda shows the meetings it accepted.  An instant is *)
(* a number of minutes of wall clock of America/Santiago since a Monday at *)
(* 00:00; datetime + timedelta is arithmetic on that clock.                *)
(*                                                                         *)
(* Who may book and what happens to the lead are the business of           *)
(* CrmLedger; here a meeting is its responsable, its hours and whether it  *)
(* is still booked.                                                        *)
(***************************************************************************)
EXTENDS Integers, Sequences, FiniteSets

R == INSTANCE CrmRules

CONSTANTS
  Ids,           \* id_cita values, ordered as the query orders them
  Responsables,  \* advisors who attend meetings
  Inicios,       \* instants the callers ask for
  Duraciones,    \* durations the callers ask for, any integers of the form
  Instantes,     \* values the clock takes
  SinCita        \* a row that was never inserted

HORARIO_INICIO == 540
HORARIO_FIN == 1140
INCREMENTO_MINUTOS == 15
CITA_DURACIONES == {30, 45, 60}

(* The CHECK of migration 010: a meeting ends after it starts. *)
Horas == {h \in [ini : Nat, fin : Nat] : R!EsHorario(h)}
FilaCita == [id : Ids, resp : Responsables, hor : Horas, agendada : BOOLEAN]

ASSUME CalendarioAssumption ==
  /\ Ids \subseteq Nat /\ IsFiniteSet(Ids)
  /\ Inicios \subseteq Nat
  /\ Duraciones \subseteq Nat
  /\ Instantes \subseteq Nat
  /\ SinCita \notin FilaCita

VARIABLES
  ahora,   \* datetime.now(AGENDA_TZ)
  citas    \* tpi.citas

vars == <<ahora, citas>>

Init ==
  /\ ahora \in Instantes
  /\ citas = [c \in Ids |-> SinCita]

-----------------------------------------------------------------------------
(***************************************************************************)
(* The checks of app/models/agenda.py.                                     *)
(***************************************************************************)
Dia(t) == t \div 1440
Minuto(t) == t % 1440
DiaSemana(t) == Dia(t) % 7

(* Faulty: the day of the week is left to the form.                         *)
InicioCualquierDia(t) ==
  /\ Minuto(t) >= HORARIO_INICIO
  /\ Minuto(t) % INCREMENTO_MINUTOS = 0

(* validate_inicio *)
InicioValido(t) ==
  /\ DiaSemana(t) < 5
  /\ Minuto(t) >= HORARIO_INICIO
  /\ Minuto(t) % INCREMENTO_MINUTOS = 0

(* validate_fin_dentro_de_horario compares hours of the day only. *)
FinDentroDeHorario(t, dur) == Minuto(t + dur) <= HORARIO_FIN

(* _validate_horario and the check of the end that follows it. *)
HorarioAceptado(t, dur) ==
  /\ InicioValido(t)
  /\ t > ahora
  /\ dur \in CITA_DURACIONES
  /\ FinDentroDeHorario(t, dur)

-----------------------------------------------------------------------------
(***************************************************************************)
(* The table.                                                              *)
(***************************************************************************)
Insertadas == {citas[c] : c \in Ids} \ {SinCita}

Agendada(f) == f # SinCita /\ f.agendada

(* The exclusion constraint of migration 010. *)
Disponible(c, r, hor) ==
  \A d \in Ids \ {c} :
    Agendada(citas[d]) /\ citas[d].resp = r => ~R!SePisan(citas[d].hor, hor)

(* fecha_hora and fecha_hora_fin of create_cita and update_cita *)
Guardar(c, r, t, dur) ==
  citas' = [citas EXCEPT ![c] =
    [id |-> c, resp |-> r, agendada |-> TRUE, hor |-> [ini |-> t, fin |-> t + dur]]]

Agendar(c, r, t, dur) ==
  /\ citas[c] = SinCita
  /\ HorarioAceptado(t, dur)
  /\ Disponible(c, r, [ini |-> t, fin |-> t + dur])
  /\ Guardar(c, r, t, dur)
  /\ UNCHANGED ahora

Reagendar(c, r, t, dur) ==
  /\ Agendada(citas[c])
  /\ HorarioAceptado(t, dur)
  /\ Disponible(c, r, [ini |-> t, fin |-> t + dur])
  /\ Guardar(c, r, t, dur)
  /\ UNCHANGED ahora

(* cancel_cita, complete_cita, no_show_cita: a closed meeting stays in the  *)
(* table and in the calendar, and no longer takes the time of anybody.      *)
Cerrar(c) ==
  /\ Agendada(citas[c])
  /\ citas' = [citas EXCEPT ![c].agendada = FALSE]
  /\ UNCHANGED ahora

Avanzar ==
  /\ \E t \in Instantes : t > ahora /\ ahora' = t
  /\ UNCHANGED citas

Next ==
  \/ \E c \in Ids, r \in Responsables, t \in Inicios, dur \in Duraciones :
       Agendar(c, r, t, dur) \/ Reagendar(c, r, t, dur)
  \/ \E c \in Ids : Cerrar(c)
  \/ Avanzar

Spec == Init /\ [][Next]_vars

-----------------------------------------------------------------------------
(***************************************************************************)
(* The week view of app/web/agenda_presentation.py, from the Monday with   *)
(* day number lunes.                                                       *)
(***************************************************************************)
Mayor(a, b) == IF a >= b THEN a ELSE b

(* agenda_page and list_citas: fecha_hora in [desde, hasta), every state.   *)
Semana(lunes) ==
  {f \in Insertadas : lunes * 1440 <= f.hor.ini /\ f.hor.ini < (lunes + 7) * 1440}

(* build_week_grid: a column for each of the five working days, every       *)
(* meeting at its offset from 09:00.                                        *)
Evento(f) ==
  [id    |-> f.id,
   start |-> Mayor(Minuto(f.hor.ini) - HORARIO_INICIO, 0),
   dur   |-> Mayor(f.hor.fin - f.hor.ini, 15)]

Columna(lunes, i) == {Evento(f) : f \in {g \in Semana(lunes) : Dia(g.hor.ini) = lunes + i}}

(* The order of the sort; the query put equal ones in order of id_cita. *)
Antes(e, f) ==
  \/ e.start < f.start
  \/ e.start = f.start /\ e.dur < f.dur
  \/ e.start = f.start /\ e.dur = f.dur /\ e.id < f.id

Orden(eventos, e) == Cardinality({f \in eventos : Antes(f, e)}) + 1

EnOrden(eventos) ==
  [k \in 1 .. Cardinality(eventos) |-> CHOOSE e \in eventos : Orden(eventos, e) = k]

Vacio == [grupo |-> {}, fin |-> -1, fines |-> <<>>, lane |-> <<>>, lanes |-> <<>>]

(* Faulty: the group ends where its last meeting does.                      *)
FinDelUltimo(fin, e) == e.start + e.dur

FinDeGrupo(fin, e) == Mayor(fin, e.start + e.dur)

(* Faulty: no lane is ever used again.                                      *)
CarrilNuevo(fines, e) == Len(fines) + 1

(* The first lane whose last meeting has ended, or a new one. *)
CarrilPara(fines, e) ==
  LET libres == {i \in DOMAIN fines : fines[i] <= e.start} IN
  IF libres = {} THEN Len(fines) + 1 ELSE CHOOSE i \in libres : \A j \in libres : i <= j

(* One meeting of _asignar_carriles.  A meeting that starts when all the    *)
(* previous ones have ended opens a group; lanes is the width of the group. *)
Ubicar(acc, e) ==
  LET mismo  == e.start < acc.fin
      previos == IF mismo THEN acc.fines ELSE <<>>
      carril == CarrilPara(previos, e)
      fines  == [i \in 1 .. Mayor(Len(previos), carril) |->
                  IF i = carril THEN e.start + e.dur ELSE previos[i]]
      grupo  == (IF mismo THEN acc.grupo ELSE {}) \cup {e.id}
  IN [grupo |-> grupo,
      fin   |-> FinDeGrupo(IF mismo THEN acc.fin ELSE -1, e),
      fines |-> fines,
      lane  |-> [c \in DOMAIN acc.lane \cup {e.id} |-> IF c = e.id THEN carril ELSE acc.lane[c]],
      lanes |-> [c \in DOMAIN acc.lanes \cup grupo |->
                  IF c \in grupo THEN Len(fines) ELSE acc.lanes[c]]]

AsignarCarriles(eventos) ==
  LET n == Cardinality(eventos)
      fila == EnOrden(eventos)
      tras[k \in 0 .. n] == IF k = 0 THEN Vacio ELSE Ubicar(tras[k - 1], fila[k])
  IN  tras[n]

-----------------------------------------------------------------------------
(***************************************************************************)
(* Properties.                                                             *)
(***************************************************************************)

(* The Mondays somebody looking for a meeting may open. *)
Lunes == {Dia(t) - DiaSemana(t) : t \in Inicios}

(* What the service accepts is what the calendar can show: every meeting is *)
(* in exactly one column of one week, with the length it really has and at  *)
(* its hour, not pushed to the top of the column.                           *)
CadaCitaEnSuColumna ==
  \A f \in Insertadas :
    LET veces == {x \in Lunes \X (0 .. 4) : \E e \in Columna(x[1], x[2]) : e.id = f.id} IN
    /\ Cardinality(veces) = 1
    /\ \A x \in veces : \A e \in Columna(x[1], x[2]) : e.id = f.id =>
         /\ (x[1] + x[2]) * 1440 + HORARIO_INICIO + e.start = f.hor.ini
         /\ e.start + e.dur = f.hor.fin - (x[1] + x[2]) * 1440 - HORARIO_INICIO

(* Those of the weeks with a meeting: the columns of the others are empty.   *)
LunesConCitas == {Dia(f.hor.ini) - DiaSemana(f.hor.ini) : f \in Insertadas}

SeVenALaVez(e, f) == e.start < f.start + f.dur /\ f.start < e.start + e.dur

(* Meetings that overlap are drawn side by side: in different lanes of a    *)
(* group of the same width, whatever their hours, order and responsables.   *)
CarrilesSinChoque ==
  \A lunes \in LunesConCitas, i \in 0 .. 4 :
    LET eventos == Columna(lunes, i)
        reparto == AsignarCarriles(eventos) IN
    \A e, f \in eventos : e.id # f.id /\ SeVenALaVez(e, f) =>
      /\ reparto.lane[e.id] # reparto.lane[f.id]
      /\ reparto.lanes[e.id] = reparto.lanes[f.id]

(* No lane is wasted: the width of a group is the number of its meetings    *)
(* that take place at once at its busiest moment, and every lane fits in it. *)
CarrilesJustos ==
  \A lunes \in LunesConCitas, i \in 0 .. 4 :
    LET eventos == Columna(lunes, i)
        reparto == AsignarCarriles(eventos)
        durante(e) == {f \in eventos : f.start <= e.start /\ e.start < f.start + f.dur} IN
    \A e \in eventos :
      /\ reparto.lane[e.id] <= reparto.lanes[e.id]
      /\ \E f \in eventos : /\ Cardinality(durante(f)) = reparto.lanes[e.id]
                            /\ reparto.lanes[f.id] = reparto.lanes[e.id]

(* The week view of /agenda shows every booked meeting at its hour, in      *)
(* lanes that neither collide nor are wasted.                               *)
SemanaCorrecta == CadaCitaEnSuColumna /\ CarrilesSinChoque /\ CarrilesJustos

(* docs/AGENDA_USO.md, section 3: "Lunes a viernes, de 09:00 a 19:00 hora   *)
(* de Chile"; "La reunion debe terminar a mas tardar a las 19:00".          *)
EnHorarioLaboral ==
  \A f \in Insertadas :
    LET dia == Dia(f.hor.ini) IN
    /\ DiaSemana(f.hor.ini) < 5
    /\ dia * 1440 + HORARIO_INICIO <= f.hor.ini
    /\ f.hor.fin <= dia * 1440 + HORARIO_FIN
=============================================================================
