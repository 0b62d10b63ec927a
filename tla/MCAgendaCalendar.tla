-------------------------- MODULE MCAgendaCalendar --------------------------
(***************************************************************************)
(* Small weeks for TLC.  Day 4 is a Friday, 5 and 6 the weekend, 7 a       *)
(* Monday.                                                                 *)
(***************************************************************************)
EXTENDS AgendaCalendar, TLC

At(dia, hora, minuto) == dia * 1440 + hora * 60 + minuto

(* Enough starts on one Friday for meetings that touch, overlap in chains   *)
(* and form two groups, and one start on each kind of refused or far day.   *)
IniciosSemana ==
  {At(4, 8, 45), At(4, 9, 0), At(4, 9, 10), At(4, 9, 15), At(4, 9, 45), At(4, 10, 15),
   At(4, 18, 30), At(5, 9, 0), At(7, 9, 0)}
DuracionesSemana == {15, 30, 60}

(* Starts around the closing hour and around midnight. *)
IniciosTarde ==
  {At(4, 18, 0), At(4, 18, 30), At(4, 18, 45), At(4, 22, 0), At(4, 23, 15), At(4, 23, 30)}

(* Before the Friday, and in the middle of its meetings. *)
RelojSemana == {At(3, 12, 0), At(4, 9, 15)}
RelojTarde == {At(3, 12, 0)}

Simetria == Permutations(Responsables)
=============================================================================
