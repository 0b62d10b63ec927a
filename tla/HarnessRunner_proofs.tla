------------------------- MODULE HarnessRunner_proofs -------------------------
(***************************************************************************)
(* Proofs about supervisor.py and orchestrator.py: a denial stops the run, *)
(* and a turn that is said to have gone well did what its role may do.     *)
(*                                                                         *)
(* The first follows from what the loop holds of its workers: the one it   *)
(* waits for is the last that it launched, and no one of the others runs.  *)
(* The second, from what the history of state.json holds of what was done  *)
(* (Fiel): whatever is cut off its front, no transition is missing after   *)
(* its first entry, so that what follows the last entry of the snapshot is *)
(* all that was done since.                                                *)
(***************************************************************************)
EXTENDS HarnessRunner, FiniteSetTheorems, SequenceTheorems, TLAPS

USE RunnerAssumption

Pasos ==
  {"fuera", "muerto", "fin", "crear", "escribir", "leer", "borrar", "soltar", "observar",
   "comprobar", "aws", "reautenticar", "lanzar", "turno", "latch", "juzgar", "pausa", "gate",
   "preguntar", "entrevista", "mostrar"}

Resultados == {"interrupted", "blocked_guard", "timeout", "failed", "no_progress",
               "human_required", "completed"}

Entradas ==
  [n : Nat, de : Estados \cup {Nada}, a : Estados, rt : Runtimes \cup {Nada}, ses : Nat \cup {Nada}]

Fichas ==
  [estado : Estados, tarea : Tareas \cup {Nada}, ficha : Tareas \cup {Nada},
   entorno : {"dev", "otro"}, legible : BOOLEAN, hist : Seq(Entradas),
   ses : [Agentes -> Int \cup {Nada}], aceptada : BOOLEAN]

Procesos ==
  [pc : Pasos, intentos : Nat, antes : Fichas \cup {Nada}, desde : Nat, turnos : Nat, gates : Nat,
   aceptacion : BOOLEAN, libre : BOOLEAN, aws : Nat, ses : Nat,
   final : {"salio", "timeout", "interrumpido", Nada}, negado : BOOLEAN]

Obreros ==
  [r : Corridas, vivo : BOOLEAN, hijos : BOOLEAN, codigo : {0, 1}, negado : BOOLEAN,
   res : Resultados \cup {Nada}]

Cambios ==
  [quien : {"obrero", "humano", "mano"}, de : Estados \cup {Nada}, a : Estados \cup {Nada},
   ses : Nat \cup {Nada}]

Tipos ==
  /\ est \in Fichas
  /\ run \in [Corridas -> Procesos]
  /\ obrero \in Seq(Obreros)
  /\ cambios \in Seq(Cambios)

-----------------------------------------------------------------------------
EsUltimo(n) == \A m \in DOMAIN obrero : m > n => obrero[m].r # obrero[n].r

EnManos == {"turno", "latch", "juzgar"}

(* Who runs is the last worker of its run, which waits for it or is dead.   *)
Vivos ==
  \A n \in DOMAIN obrero : obrero[n].vivo =>
    /\ EsUltimo(n) /\ obrero[n].res = Nada
    /\ LET x == run[obrero[n].r] IN x.pc = "muerto" \/ (x.pc = "turno" /\ x.ses = n)

(* The worker of the turn is the last one of its run, and not judged yet.   *)
Turnos ==
  \A r \in Corridas : run[r].pc \in EnManos =>
    /\ run[r].ses \in DOMAIN obrero
    /\ obrero[run[r].ses].r = r /\ obrero[run[r].ses].res = Nada /\ EsUltimo(run[r].ses)

(* After a denial the run only goes on to stop.                             *)
Negados ==
  \A n \in DOMAIN obrero : obrero[n].negado /\ ~obrero[n].hijos =>
    /\ EsUltimo(n) /\ obrero[n].res \in {Nada, "blocked_guard", "interrupted"}
    /\ LET x == run[obrero[n].r] IN
       \/ x.pc \in {"muerto", "fin", "soltar"}
       \/ x.pc \in EnManos /\ x.ses = n /\ (x.pc = "juzgar" => x.negado)

-----------------------------------------------------------------------------
Hecho(k) == cambios[k].quien # "mano"

(* A history tells of transitions that were really made, in their order,    *)
(* and of all that were after its first entry.                              *)
Fiel(h, cs) ==
  /\ h # << >>
  /\ \A i, j \in 1 .. Len(h) : i < j => h[i].n < h[j].n
  /\ \A i \in 1 .. Len(h) : h[i].n <= Len(cs)
  /\ \A i \in 1 .. Len(h) : h[i].n > 0 =>
       LET c == cs[h[i].n] IN
       c.quien # "mano" /\ c.de = h[i].de /\ c.a = h[i].a /\ c.ses = h[i].ses
  /\ \A k \in 1 .. Len(cs) : cs[k].quien # "mano" /\ k > h[1].n => \E i \in 1 .. Len(h) : h[i].n = k

(* Workers make the transitions of agents and of the system, and humans     *)
(* those of humans.                                                         *)
Actores ==
  \A k \in 1 .. Len(cambios) : Hecho(k) =>
    /\ cambios[k].de \in Estados
    /\ cambios[k].quien = "obrero" <=> Rol[cambios[k].de] # "human"

(* The snapshot of a turn: an agent works, and nothing was done between its  *)
(* last entry and the moment it was taken.                                  *)
Foto(x, cs) ==
  /\ x.antes \in Fichas /\ Rol[x.antes.estado] \in Agentes
  /\ x.antes.hist # << >> /\ x.desde <= Len(cs)
  /\ Last(x.antes.hist).n <= x.desde
  /\ \A k \in 1 .. x.desde : cs[k].quien # "mano" => k <= Last(x.antes.hist).n

Fotos ==
  \A r \in Corridas :
    run[r].pc \in {"comprobar", "aws", "reautenticar", "lanzar", "turno", "latch", "juzgar"} =>
      Foto(run[r], cambios)

-----------------------------------------------------------------------------
(***************************************************************************)
(* What the steps of a run leave in it.                                    *)
(***************************************************************************)
Trabajando == {"comprobar", "aws", "reautenticar", "lanzar"}

Parado == {"muerto", "fin", "soltar"}

(* Run r is x now, and the others are as they were.                         *)
Queda(r, x) ==
  /\ run' \in [Corridas -> Procesos] /\ run'[r] = x
  /\ \A k \in Corridas \ {r} : run'[k] = run[k]

LEMMA Reemplazo ==
  ASSUME Tipos, NEW r \in Corridas, NEW x \in Procesos, run' = [run EXCEPT ![r] = x]
  PROVE  Queda(r, x)
  BY DEF Tipos, Queda

(* It is where it was but for its place in the program.                     *)
Mueve(r, p) ==
  /\ run' \in [Corridas -> Procesos]
  /\ \A k \in Corridas \ {r} : run'[k] = run[k]
  /\ run'[r].pc = p
  /\ run'[r].antes = run[r].antes /\ run'[r].desde = run[r].desde /\ run'[r].ses = run[r].ses

LEMMA MayorQue ==
  ASSUME NEW x \in Nat, NEW y \in Nat, NEW z \in Nat, x <= y, z > y
  PROVE  z > x
OBVIOUS

LEMMA EntreLosDos ==
  ASSUME NEW x \in Nat, NEW y \in Nat, NEW z \in Nat, x < z, z < y
  PROVE  z \in x + 1 .. y - 1
OBVIOUS

LEMMA Mover ==
  ASSUME Tipos, NEW r \in Corridas, NEW x \in Procesos, run' = [run EXCEPT ![r] = x],
         x.antes = run[r].antes, x.desde = run[r].desde, x.ses = run[r].ses
  PROVE  Mueve(r, x.pc)
  BY Reemplazo DEF Queda, Mueve

LEMMA MoverPc ==
  ASSUME Tipos, NEW r \in Corridas, NEW p \in Pasos,
         run' = [run EXCEPT ![r] = [run[r] EXCEPT !.pc = p]]
  PROVE  Mueve(r, p)
<1> DEFINE x == [run[r] EXCEPT !.pc = p]
<1>1. run[r] \in Procesos
  BY DEF Tipos
<1>2. /\ x \in Procesos /\ x.pc = p
      /\ x.antes = run[r].antes /\ x.desde = run[r].desde /\ x.ses = run[r].ses
  BY <1>1 DEF Procesos
<1>3. run' = [run EXCEPT ![r] = x]
  OBVIOUS
<1> HIDE DEF x
<1>4. Queda(r, x)
  BY <1>2, <1>3, Reemplazo
<1> QED
  BY <1>2, <1>4 DEF Queda, Mueve

LEMMA ProcesoEs ==
  ASSUME NEW p \in Pasos
  PROVE  Proceso(p) \in Procesos /\ Proceso(p).pc = p
  BY DEF Proceso, Procesos

LEMMA Acabar ==
  ASSUME Tipos, NEW r \in Corridas, NEW p \in Pasos, run' = [run EXCEPT ![r] = Proceso(p)]
  PROVE  /\ run' \in [Corridas -> Procesos] /\ run'[r].pc = p
         /\ \A k \in Corridas \ {r} : run'[k] = run[k]
  BY ProcesoEs DEF Tipos

(***************************************************************************)
(* The steps in which a run has no worker in its hands.                    *)
(***************************************************************************)
Tramite(r) ==
  \/ Arrancar(r) \/ CrearCandado(r) \/ EscribirPid(r) \/ LeerCandado(r) \/ BorrarCandado(r)
  \/ Soltar(r) \/ Comprobar(r) \/ ChequearAws(r) \/ Reautenticar(r) \/ Pausar(r)
  \/ PrepararGate(r) \/ Preguntar(r) \/ Entrevistar(r) \/ MostrarBorrador(r)
  \/ Interrumpir(r) \/ Morir(r)

EfectoDeTramite(r) ==
  /\ run' \in [Corridas -> Procesos] /\ \A k \in Corridas \ {r} : run'[k] = run[k]
  /\ UNCHANGED <<est, obrero, cambios>>
  /\ run'[r].pc \notin EnManos
  /\ run[r].pc \in Parado => run'[r].pc \in Parado
  /\ run[r].pc # "muerto"
  /\ run[r].pc \in EnManos => run'[r].pc = "muerto"
  /\ run'[r].pc \in Trabajando =>
       /\ run[r].pc \in Trabajando
       /\ run'[r].antes = run[r].antes /\ run'[r].desde = run[r].desde

LEMMA EfectoMueve ==
  ASSUME NEW r \in Corridas, NEW p \in Pasos, Mueve(r, p), UNCHANGED <<est, obrero, cambios>>,
         p \notin EnManos, run[r].pc \notin EnManos \cup {"muerto"},
         run[r].pc \in Parado => p \in Parado,
         p \in Trabajando => run[r].pc \in Trabajando
  PROVE  EfectoDeTramite(r)
  BY DEF Mueve, EfectoDeTramite

LEMMA EfectoTramite ==
  ASSUME Tipos, NEW r \in Corridas, Tramite(r)
  PROVE  EfectoDeTramite(r)
<1> USE DEF EnManos, Trabajando, Parado, Pasos
<1>0. run[r] \in Procesos /\ run[r].gates + 1 \in Nat /\ run[r].aws + 1 \in Nat
  <2>1. run[r] \in Procesos
    BY DEF Tipos
  <2>2. run[r].gates \in Nat /\ run[r].aws \in Nat
    BY <2>1 DEF Procesos
  <2> QED
    BY <2>1, <2>2
<1>1. ASSUME NEW p \in Pasos, Ir(r, p)
      PROVE  Mueve(r, p)
  BY <1>1, MoverPc DEF Ir, Tipos
<1>2. ASSUME NEW p \in Pasos, Solo(r, [run[r] EXCEPT !.pc = p])
      PROVE  Mueve(r, p) /\ UNCHANGED <<est, obrero, cambios>>
  BY <1>2, MoverPc DEF Solo
<1>3. CASE Arrancar(r) \/ CrearCandado(r) \/ EscribirPid(r) \/ LeerCandado(r) \/ Interrumpir(r)
  BY <1>1, <1>3, EfectoMueve DEF Arrancar, CrearCandado, EscribirPid, LeerCandado, Interrumpir
<1>4. CASE BorrarCandado(r)
  <2> DEFINE p == IF run[r].intentos = 2 THEN "fin" ELSE "crear"
             x == [run[r] EXCEPT !.pc = p, !.intentos = 2]
  <2>1. run' = [run EXCEPT ![r] = x]
    BY <1>4 DEF BorrarCandado, Tipos
  <2>2. /\ x \in Procesos /\ x.pc = p
        /\ x.antes = run[r].antes /\ x.desde = run[r].desde /\ x.ses = run[r].ses
    BY <1>0 DEF Procesos
  <2> HIDE DEF x
  <2>3. Mueve(r, p)
    BY <2>1, <2>2, Mover
  <2> QED
    BY <1>4, <2>3, EfectoMueve DEF BorrarCandado
<1>5. CASE Comprobar(r) \/ Reautenticar(r) \/ Preguntar(r) \/ Entrevistar(r) \/ MostrarBorrador(r)
  BY <1>2, <1>5, EfectoMueve DEF Comprobar, Reautenticar, Preguntar, Entrevistar, MostrarBorrador
<1>6. CASE ChequearAws(r)
  <2>1. ASSUME Solo(r, [run[r] EXCEPT !.pc = "reautenticar", !.aws = run[r].aws + 1])
        PROVE  Mueve(r, "reautenticar") /\ UNCHANGED <<est, obrero, cambios>>
    <3> DEFINE x == [run[r] EXCEPT !.pc = "reautenticar", !.aws = run[r].aws + 1]
    <3>1. /\ x \in Procesos /\ x.pc = "reautenticar"
          /\ x.antes = run[r].antes /\ x.desde = run[r].desde /\ x.ses = run[r].ses
      BY <1>0 DEF Procesos
    <3>2. run' = [run EXCEPT ![r] = x] /\ UNCHANGED <<est, obrero, cambios>>
      BY <2>1 DEF Solo
    <3> HIDE DEF x
    <3> QED
      BY <3>1, <3>2, Mover
  <2> QED
    BY <1>2, <1>6, <2>1, EfectoMueve DEF ChequearAws
<1>7. CASE Pausar(r)
  <2>1. ASSUME Solo(r, [run[r] EXCEPT !.pc = "gate", !.aceptacion = TRUE, !.aws = 0])
        PROVE  Mueve(r, "gate") /\ UNCHANGED <<est, obrero, cambios>>
    <3> DEFINE x == [run[r] EXCEPT !.pc = "gate", !.aceptacion = TRUE, !.aws = 0]
    <3>1. /\ x \in Procesos /\ x.pc = "gate"
          /\ x.antes = run[r].antes /\ x.desde = run[r].desde /\ x.ses = run[r].ses
      BY <1>0 DEF Procesos
    <3>2. run' = [run EXCEPT ![r] = x] /\ UNCHANGED <<est, obrero, cambios>>
      BY <2>1 DEF Solo
    <3> HIDE DEF x
    <3> QED
      BY <3>1, <3>2, Mover
  <2> QED
    BY <1>2, <1>7, <2>1, EfectoMueve DEF Pausar
<1>8. CASE PrepararGate(r)
  <2> DEFINE l == ~run[r].aceptacion /\ est.estado = "IDLE"
             x == [run[r] EXCEPT !.pc = "preguntar", !.gates = @ + 1, !.libre = l]
  <2>1. ASSUME Solo(r, x)
        PROVE  Mueve(r, "preguntar") /\ UNCHANGED <<est, obrero, cambios>>
    <3>1. /\ x \in Procesos /\ x.pc = "preguntar"
          /\ x.antes = run[r].antes /\ x.desde = run[r].desde /\ x.ses = run[r].ses
      BY <1>0 DEF Procesos
    <3>2. run' = [run EXCEPT ![r] = x] /\ UNCHANGED <<est, obrero, cambios>>
      BY <2>1 DEF Solo
    <3> HIDE DEF x
    <3> QED
      BY <3>1, <3>2, Mover
  <2> QED
    BY <1>2, <1>8, <2>1, EfectoMueve DEF PrepararGate
<1>9. CASE Soltar(r) \/ Morir(r)
  BY <1>9, Acabar DEF Soltar, Morir, Vive, EfectoDeTramite
<1> QED
  BY <1>3, <1>4, <1>5, <1>6, <1>7, <1>8, <1>9 DEF Tramite

-----------------------------------------------------------------------------
(***************************************************************************)
(* The steps of a turn.                                                    *)
(***************************************************************************)
LEMMA RolDe == ASSUME NEW s \in Estados PROVE Rol[s] \in Agentes \cup {"human", "system"}
  BY DEF Rol, Estados, Agentes, DeHumano, DeDeveloper, DeReviewer, DeDeployer, DelSistema

LEMMA PlanAuto ==
  ASSUME NEW e, e.estado \in Estados, plan(e) = "auto"
  PROVE  Rol[e.estado] \in Agentes
<1>1. Rol[e.estado] \notin {"human", "system"}
  BY DEF plan
<1> QED
  BY <1>1, RolDe

LEMMA EfectoObservar ==
  ASSUME Tipos, NEW r \in Corridas, Observar(r)
  PROVE  /\ run' \in [Corridas -> Procesos] /\ \A k \in Corridas \ {r} : run'[k] = run[k]
         /\ run[r].pc = "observar" /\ run'[r].pc \in {"gate", "soltar", "comprobar"}
         /\ run'[r].antes = est /\ run'[r].desde = Len(cambios)
         /\ run'[r].pc = "comprobar" => Rol[est.estado] \in Agentes
         /\ UNCHANGED <<est, obrero, cambios>>
<1> DEFINE que == IF est.legible THEN plan(est) ELSE "ilegible"
           p == CASE que = "human" -> IF Corredor[r].ui THEN "gate" ELSE "soltar"
                  [] que = "auto" /\ run[r].turnos < MAX_TURNS -> "comprobar"
                  [] OTHER -> "soltar"
           x == [run[r] EXCEPT !.antes = est, !.desde = Len(cambios), !.aceptacion = FALSE, !.pc = p]
<1>1. p \in {"gate", "soltar", "comprobar"} /\ (p = "comprobar" => que = "auto")
  <2> HIDE DEF que
  <2>1. CASE que = "human"
    BY <2>1
  <2>2. CASE que = "auto"
    BY <2>2
  <2>3. CASE que \notin {"human", "auto"}
    BY <2>3
  <2> QED
    BY <2>1, <2>2, <2>3
<1>2. que = "auto" => plan(est) = "auto"
  OBVIOUS
<1>3. run[r] \in Procesos /\ est \in Fichas /\ Len(cambios) \in Nat
  BY DEF Tipos
<1>4. p = "comprobar" => Rol[est.estado] \in Agentes
  BY <1>1, <1>2, <1>3, PlanAuto DEF Fichas
<1>5. run[r].pc = "observar" /\ run' = [run EXCEPT ![r] = x] /\ UNCHANGED <<est, obrero, cambios>>
  BY DEF Observar, Solo
<1> HIDE DEF que, p
<1>6. x \in Procesos /\ x.pc = p /\ x.antes = est /\ x.desde = Len(cambios)
  BY <1>1, <1>3 DEF Procesos, Pasos
<1> HIDE DEF x
<1>7. Queda(r, x)
  BY <1>5, <1>6, Reemplazo
<1> QED
  BY <1>1, <1>4, <1>5, <1>6, <1>7 DEF Queda

LEMMA EfectoLanzar ==
  ASSUME Tipos, NEW r \in Corridas, Lanzar(r)
  PROVE  /\ run' \in [Corridas -> Procesos] /\ \A k \in Corridas \ {r} : run'[k] = run[k]
         /\ run[r].pc = "lanzar" /\ run'[r].pc = "turno" /\ run'[r].ses = Len(obrero) + 1
         /\ run'[r].antes = run[r].antes /\ run'[r].desde = run[r].desde
         /\ obrero' \in Seq(Obreros) /\ DOMAIN obrero' = 1 .. Len(obrero) + 1
         /\ \A n \in DOMAIN obrero : obrero'[n] = obrero[n]
         /\ LET w == obrero'[Len(obrero) + 1] IN
            w.r = r /\ ~w.negado /\ w.res = Nada
         /\ UNCHANGED <<est, cambios>>
<1> DEFINE x == [run[r] EXCEPT !.pc = "turno", !.turnos = @ + 1, !.ses = Len(obrero) + 1]
           w == [r |-> r, vivo |-> TRUE, hijos |-> FALSE, codigo |-> 0, negado |-> FALSE, res |-> Nada]
<1>1. run[r] \in Procesos /\ Len(obrero) + 1 \in Nat /\ obrero \in Seq(Obreros)
  BY DEF Tipos
<1>2. run[r].turnos + 1 \in Nat
  BY <1>1 DEF Procesos
<1>3. /\ x \in Procesos /\ x.pc = "turno" /\ x.ses = Len(obrero) + 1
      /\ x.antes = run[r].antes /\ x.desde = run[r].desde
  BY <1>1, <1>2 DEF Procesos, Pasos
<1>4. w \in Obreros /\ w.r = r /\ ~w.negado /\ w.res = Nada
  BY DEF Obreros
<1>5. /\ run[r].pc = "lanzar" /\ obrero' = Append(obrero, w) /\ UNCHANGED <<est, cambios>>
      /\ run' = [run EXCEPT ![r] = x]
  BY DEF Lanzar, Tipos
<1> HIDE DEF x, w
<1>6. Queda(r, x)
  BY <1>3, <1>5, Reemplazo
<1>7. /\ obrero' \in Seq(Obreros) /\ Len(obrero') = Len(obrero) + 1
      /\ \A n \in 1 .. Len(obrero) : obrero'[n] = obrero[n]
      /\ obrero'[Len(obrero) + 1] = w
  BY <1>1, <1>4, <1>5, AppendProperties
<1> QED
  BY <1>1, <1>3, <1>4, <1>5, <1>6, <1>7 DEF Queda

(* Worker n is x now, and the others are as they were.                      *)
QuedaObrero(n, x) ==
  /\ obrero' \in Seq(Obreros) /\ DOMAIN obrero' = DOMAIN obrero /\ obrero'[n] = x
  /\ \A m \in DOMAIN obrero \ {n} : obrero'[m] = obrero[m]

LEMMA ReemplazoObrero ==
  ASSUME Tipos, NEW n \in DOMAIN obrero, NEW x \in Obreros, obrero' = [obrero EXCEPT ![n] = x]
  PROVE  QuedaObrero(n, x)
<1>1. obrero \in Seq(Obreros)
  BY DEF Tipos
<1> QED
  BY <1>1, ExceptSeq DEF QuedaObrero

(* It is the worker of the same run, and denied and judged as before.       *)
MismoObrero(n) ==
  /\ obrero' \in Seq(Obreros) /\ DOMAIN obrero' = DOMAIN obrero
  /\ \A m \in DOMAIN obrero \ {n} : obrero'[m] = obrero[m]
  /\ obrero'[n].r = obrero[n].r /\ (obrero'[n].negado <=> obrero[n].negado)
  /\ obrero'[n].res = obrero[n].res

LEMMA EfectoEsperar ==
  ASSUME Tipos, Turnos, NEW r \in Corridas, Esperar(r)
  PROVE  /\ run[r].pc = "turno" /\ Mueve(r, "latch")
         /\ run[r].ses \in DOMAIN obrero /\ MismoObrero(run[r].ses) /\ ~obrero'[run[r].ses].vivo
         /\ obrero[run[r].ses].hijos => obrero' = obrero \/ obrero[run[r].ses].vivo
         /\ UNCHANGED <<est, cambios>>
<1> DEFINE n == run[r].ses
<1>1. /\ run[r] \in Procesos /\ obrero \in Seq(Obreros) /\ n \in DOMAIN obrero
      /\ obrero[n] \in Obreros
  <2>1. run[r] \in Procesos /\ obrero \in Seq(Obreros)
    BY DEF Tipos
  <2>2. n \in DOMAIN obrero
    BY DEF Turnos, EnManos, Esperar
  <2> QED
    BY <2>1, <2>2
<1>2. ASSUME NEW f \in {"salio", "timeout", "interrumpido"},
             run' = [run EXCEPT ![r].pc = "latch", ![r].final = f]
      PROVE  Mueve(r, "latch")
  <2> DEFINE x == [run[r] EXCEPT !.pc = "latch", !.final = f]
  <2>1. /\ x \in Procesos /\ x.pc = "latch"
        /\ x.antes = run[r].antes /\ x.desde = run[r].desde /\ x.ses = run[r].ses
    BY <1>1 DEF Procesos, Pasos
  <2>2. run' = [run EXCEPT ![r] = x]
    BY <1>2 DEF Tipos
  <2> HIDE DEF x
  <2>3. Mueve(r, x.pc)
    BY <2>1, <2>2, Mover
  <2> QED
    BY <2>1, <2>3
<1>3. ASSUME NEW h \in BOOLEAN,
             obrero' = [obrero EXCEPT ![n].vivo = FALSE, ![n].hijos = h, ![n].codigo = 1]
      PROVE  MismoObrero(n) /\ ~obrero'[n].vivo
  <2> DEFINE x == [obrero[n] EXCEPT !.vivo = FALSE, !.hijos = h, !.codigo = 1]
  <2>1. /\ x \in Obreros /\ x.r = obrero[n].r /\ (x.negado <=> obrero[n].negado)
        /\ x.res = obrero[n].res /\ ~x.vivo
    BY <1>1 DEF Obreros
  <2>2. obrero' = [obrero EXCEPT ![n] = x]
    BY <1>1, <1>3
  <2> HIDE DEF x, n
  <2>3. QuedaObrero(n, x)
    BY <1>1, <2>1, <2>2, ReemplazoObrero
  <2> QED
    BY <2>1, <2>3 DEF QuedaObrero, MismoObrero
<1>4. obrero' = obrero => MismoObrero(n)
  BY <1>1 DEF MismoObrero
<1> QED
  BY <1>1, <1>2, <1>3, <1>4 DEF Esperar

LEMMA EfectoLeerLatch ==
  ASSUME Tipos, NEW r \in Corridas, LeerLatch(r), obrero[run[r].ses] \in Obreros
  PROVE  /\ run[r].pc = "latch" /\ Mueve(r, "juzgar")
         /\ run'[r].negado <=> obrero[run[r].ses].negado
         /\ UNCHANGED <<est, obrero, cambios>>
<1> DEFINE x == [run[r] EXCEPT !.pc = "juzgar", !.negado = obrero[run[r].ses].negado]
<1>1. run[r] \in Procesos /\ obrero[run[r].ses].negado \in BOOLEAN
  BY DEF Tipos, Obreros
<1>2. /\ x \in Procesos /\ x.pc = "juzgar" /\ x.negado = obrero[run[r].ses].negado
      /\ x.antes = run[r].antes /\ x.desde = run[r].desde /\ x.ses = run[r].ses
  BY <1>1 DEF Procesos, Pasos
<1>3. run[r].pc = "latch" /\ run' = [run EXCEPT ![r] = x] /\ UNCHANGED <<est, obrero, cambios>>
  BY DEF LeerLatch, Solo
<1> HIDE DEF x
<1>4. Queda(r, x)
  BY <1>2, <1>3, Reemplazo
<1> QED
  BY <1>2, <1>3, <1>4 DEF Queda, Mueve

LEMMA ResultadoEs ==
  ASSUME NEW x \in Procesos, NEW rol
  PROVE  /\ Resultado(x, rol) \in Resultados
         /\ x.negado => Resultado(x, rol) \in {"interrupted", "blocked_guard"}
         /\ Resultado(x, rol) \in {"completed", "human_required"} =>
              validate_progress(x.antes, est, rol) /\ new_entries(x.antes, est) # << >>
<1> DEFINE mal == ~est.legible \/ ~validate_progress(x.antes, est, rol) \/ obrero[x.ses].codigo # 0
           nada == new_entries(x.antes, est) = << >>
<1>0. Resultado(x, rol) =
        IF x.final = "interrumpido" THEN "interrupted"
        ELSE IF x.negado THEN "blocked_guard"
        ELSE IF x.final = "timeout" THEN "timeout"
        ELSE IF mal THEN "failed"
        ELSE IF nada THEN "no_progress"
        ELSE IF Rol[est.estado] = "human" THEN "human_required"
        ELSE "completed"
  BY DEF Resultado
<1>9. x.negado \in BOOLEAN
  BY DEF Procesos
<1>7. mal <=> ~est.legible \/ ~validate_progress(x.antes, est, rol) \/ obrero[x.ses].codigo # 0
  OBVIOUS
<1>8. nada <=> new_entries(x.antes, est) = << >>
  OBVIOUS
<1> HIDE DEF mal, nada
<1>1. CASE x.final = "interrumpido"
  BY <1>0, <1>1, <1>9 DEF Resultados
<1>2. CASE x.final # "interrumpido" /\ x.negado
  BY <1>0, <1>2, <1>9 DEF Resultados
<1>3. CASE x.final = "timeout" /\ ~x.negado
  BY <1>0, <1>3, <1>9 DEF Resultados
<1>4. CASE x.final \notin {"interrumpido", "timeout"} /\ ~x.negado /\ mal
  BY <1>0, <1>4, <1>9 DEF Resultados
<1>5. CASE x.final \notin {"interrumpido", "timeout"} /\ ~x.negado /\ ~mal /\ nada
  BY <1>0, <1>5, <1>9 DEF Resultados
<1>6. CASE x.final \notin {"interrumpido", "timeout"} /\ ~x.negado /\ ~mal /\ ~nada
  BY <1>0, <1>6, <1>7, <1>8 DEF Resultados
<1> QED
  BY <1>1, <1>2, <1>3, <1>4, <1>5, <1>6

LEMMA EfectoJuzgar ==
  ASSUME Tipos, Turnos, NEW r \in Corridas, Juzgar(r)
  PROVE  /\ run[r].pc = "juzgar"
         /\ \E p \in {"observar", "pausa", "soltar"} : Mueve(r, p)
         /\ run[r].negado => run'[r].pc = "soltar"
         /\ run[r].ses \in DOMAIN obrero
         /\ obrero' \in Seq(Obreros) /\ DOMAIN obrero' = DOMAIN obrero
         /\ \A m \in DOMAIN obrero \ {run[r].ses} : obrero'[m] = obrero[m]
         /\ LET w == obrero[run[r].ses]
                v == obrero'[run[r].ses] IN
            /\ v.r = w.r /\ (v.vivo <=> w.vivo) /\ (v.hijos <=> w.hijos) /\ (v.negado <=> w.negado)
            /\ v.res = Resultado(run[r], Rol[run[r].antes.estado])
         /\ UNCHANGED <<est, cambios>>
<1> DEFINE n == run[r].ses
           res == Resultado(run[r], Rol[run[r].antes.estado])
           bien == res \in {"completed", "human_required"}
           p == CASE bien -> "observar"
                  [] res = "no_progress" /\ Corredor[r].ui /\ run[r].antes.estado = "VERIFYING" -> "pausa"
                  [] OTHER -> "soltar"
           x == [run[r] EXCEPT !.pc = p, !.aws = IF bien THEN 0 ELSE @]
           w == [obrero[n] EXCEPT !.res = res]
<1>1. /\ run[r] \in Procesos /\ obrero \in Seq(Obreros) /\ n \in DOMAIN obrero
      /\ obrero[n] \in Obreros
  BY DEF Tipos, Turnos, EnManos, Juzgar
<1>2. /\ run[r].pc = "juzgar" /\ UNCHANGED <<est, cambios>>
      /\ obrero' = [obrero EXCEPT ![n] = w] /\ run' = [run EXCEPT ![r] = x]
  BY <1>1 DEF Juzgar, Tipos
<1>3. res \in Resultados /\ (run[r].negado => res \in {"interrupted", "blocked_guard"})
  BY <1>1, ResultadoEs
<1> HIDE DEF res
<1>4. p \in {"observar", "pausa", "soltar"} /\ (run[r].negado => p = "soltar")
  <2> DEFINE pausa == res = "no_progress" /\ Corredor[r].ui /\ run[r].antes.estado = "VERIFYING"
  <2>1. CASE bien
    BY <1>3, <2>1
  <2>2. CASE ~bien /\ pausa
    BY <1>3, <2>2
  <2>3. CASE ~bien /\ ~pausa
    BY <1>3, <2>3
  <2> QED
    BY <2>1, <2>2, <2>3
<1> HIDE DEF p
<1>5. /\ x \in Procesos /\ x.pc = p
      /\ x.antes = run[r].antes /\ x.desde = run[r].desde /\ x.ses = run[r].ses
  BY <1>1, <1>4 DEF Procesos, Pasos
<1>6. /\ w \in Obreros /\ w.r = obrero[n].r /\ (w.vivo <=> obrero[n].vivo)
      /\ (w.hijos <=> obrero[n].hijos) /\ (w.negado <=> obrero[n].negado) /\ w.res = res
  BY <1>1, <1>3 DEF Obreros
<1> HIDE DEF x, w, n
<1>7. Mueve(r, p)
  BY <1>2, <1>5, Mover
<1>8. QuedaObrero(n, w)
  BY <1>1, <1>2, <1>6, ReemplazoObrero
<1> QED
  BY <1>1, <1>2, <1>4, <1>6, <1>7, <1>8 DEF Mueve, QuedaObrero, n, res

-----------------------------------------------------------------------------
(***************************************************************************)
(* What the workers and the human do.                                      *)
(***************************************************************************)
LEMMA EfectoTerminar ==
  ASSUME Tipos, NEW n \in DOMAIN obrero, Terminar(n)
  PROVE  /\ MismoObrero(n) /\ ~obrero'[n].vivo /\ (obrero'[n].hijos <=> obrero[n].hijos)
         /\ UNCHANGED <<est, run, cambios>>
<1>1. obrero[n] \in Obreros
  BY DEF Tipos
<1>2. ASSUME NEW codigo \in {0, 1},
             obrero' = [obrero EXCEPT ![n].vivo = FALSE, ![n].codigo = codigo]
      PROVE  MismoObrero(n) /\ ~obrero'[n].vivo /\ (obrero'[n].hijos <=> obrero[n].hijos)
  <2> DEFINE x == [obrero[n] EXCEPT !.vivo = FALSE, !.codigo = codigo]
  <2>1. /\ x \in Obreros /\ x.r = obrero[n].r /\ (x.negado <=> obrero[n].negado)
        /\ x.res = obrero[n].res /\ ~x.vivo /\ (x.hijos <=> obrero[n].hijos)
    BY <1>1 DEF Obreros
  <2>2. obrero' = [obrero EXCEPT ![n] = x]
    BY <1>1, <1>2 DEF Tipos
  <2> HIDE DEF x
  <2>3. QuedaObrero(n, x)
    BY <2>1, <2>2, ReemplazoObrero
  <2> QED
    BY <2>1, <2>3 DEF QuedaObrero, MismoObrero
<1> QED
  BY <1>2 DEF Terminar

LEMMA EfectoDenegar ==
  ASSUME Tipos, NEW n \in DOMAIN obrero, Denegar(n)
  PROVE  /\ obrero' \in Seq(Obreros) /\ DOMAIN obrero' = DOMAIN obrero
         /\ \A m \in DOMAIN obrero \ {n} : obrero'[m] = obrero[m]
         /\ obrero[n].vivo \/ obrero[n].hijos
         /\ obrero'[n].r = obrero[n].r /\ (obrero'[n].vivo <=> obrero[n].vivo)
         /\ (obrero'[n].hijos <=> obrero[n].hijos) /\ obrero'[n].res = obrero[n].res
         /\ UNCHANGED <<est, run, cambios>>
<1> DEFINE x == [obrero[n] EXCEPT !.negado = TRUE]
<1>1. obrero[n] \in Obreros
  BY DEF Tipos
<1>2. /\ x \in Obreros /\ x.r = obrero[n].r /\ (x.vivo <=> obrero[n].vivo)
      /\ x.res = obrero[n].res /\ (x.hijos <=> obrero[n].hijos)
  BY <1>1 DEF Obreros
<1>3. obrero' = [obrero EXCEPT ![n] = x]
  BY DEF Denegar, Tipos
<1> HIDE DEF x
<1>4. QuedaObrero(n, x)
  BY <1>2, <1>3, ReemplazoObrero
<1> QED
  BY <1>2, <1>4 DEF Denegar, Activo, QuedaObrero

LEMMA FilaTipo ==
  ASSUME NEW t \in ToSet(Transiciones)
  PROVE  t.de \in Estados /\ t.a \in Estados
<1>0. DOMAIN Transiciones = 1..39
  BY DEF Transiciones
<1>1. PICK i \in 1..39 : t = Transiciones[i]
  BY <1>0 DEF ToSet
<1>2. CASE i \in 1..13
  BY <1>1, <1>2, SMTT(60) DEF Transiciones, T, Estados, DeHumano, DeDeveloper, DeReviewer,
                              DeDeployer, DelSistema
<1>3. CASE i \in 14..26
  BY <1>1, <1>3, SMTT(60) DEF Transiciones, T, Estados, DeHumano, DeDeveloper, DeReviewer,
                              DeDeployer, DelSistema
<1>4. CASE i \in 27..39
  BY <1>1, <1>4, SMTT(60) DEF Transiciones, T, Estados, DeHumano, DeDeveloper, DeReviewer,
                              DeDeployer, DelSistema
<1> QED
  BY <1>2, <1>3, <1>4

(* The transitions out of a state.                                          *)
LEMMA DesdeEs ==
  ASSUME NEW s \in Estados, NEW t \in Desde[s]
  PROVE  t.de = s /\ t.a \in Estados
  BY FilaTipo DEF Desde

(* The history with x at its end.                                           *)
Recorte(h, x) ==
  Append(SubSeq(h, IF Len(h) < HISTORIA THEN 1 ELSE Len(h) + 2 - HISTORIA, Len(h)), x)

LEMMA RecorteEs ==
  ASSUME NEW h \in Seq(Entradas), NEW x \in Entradas
  PROVE  /\ Recorte(h, x) \in Seq(Entradas)
         /\ \E a \in 1 .. Len(h) + 1 :
              /\ Len(Recorte(h, x)) = Len(h) - a + 2
              /\ \A i \in 1 .. Len(h) - a + 1 : Recorte(h, x)[i] = h[a + i - 1]
              /\ Recorte(h, x)[Len(h) - a + 2] = x
<1> DEFINE a == IF Len(h) < HISTORIA THEN 1 ELSE Len(h) + 2 - HISTORIA
           s == SubSeq(h, a, Len(h))
<1>1. Len(h) \in Nat /\ HISTORIA \in Nat \ {0}
  OBVIOUS
<1>2. a \in 1 .. Len(h) + 1
  BY <1>1
<1>3. \A i \in a .. Len(h) : h[i] \in Entradas
  BY <1>1, <1>2
<1>4. Recorte(h, x) = Append(s, x)
  BY DEF Recorte
<1> HIDE DEF a
<1>5. a \in Int /\ Len(h) \in Int
  BY <1>1, <1>2
<1>6. /\ s \in Seq(Entradas)
      /\ Len(s) = IF a <= Len(h) THEN Len(h) - a + 1 ELSE 0
      /\ \A i \in 1 .. Len(h) - a + 1 : s[i] = h[a + i - 1]
  BY <1>3, <1>5, SubSeqProperties
<1>7. Len(s) = Len(h) - a + 1
  BY <1>1, <1>2, <1>6
<1> HIDE DEF s
<1>8. /\ Append(s, x) \in Seq(Entradas) /\ Len(Append(s, x)) = Len(s) + 1
      /\ \A i \in 1 .. Len(s) : Append(s, x)[i] = s[i]
      /\ Append(s, x)[Len(s) + 1] = x
  BY <1>6, AppendProperties
<1>9. Len(s) + 1 = Len(h) - a + 2
  BY <1>1, <1>2, <1>7
<1> QED
  BY <1>2, <1>4, <1>6, <1>7, <1>8, <1>9

LEMMA EfectoAplicar ==
  ASSUME NEW e \in Fichas, NEW t, t.a \in Estados, NEW x \in Entradas
  PROVE  Aplicar(e, t, x) \in Fichas /\ Aplicar(e, t, x).hist = Recorte(e.hist, x)
<1> DEFINE tarea == IF Cierra(t) THEN Nada ELSE IF "bind_task" \in t.efs THEN e.ficha ELSE e.tarea
           ficha == IF Cierra(t) THEN Nada ELSE e.ficha
           ses == IF Cierra(t) \/ "bind_task" \in t.efs THEN SinSesiones
                  ELSE IF "record_session" \in t.efs THEN [e.ses EXCEPT ![Rol[t.de]] = x.ses]
                  ELSE e.ses
           ac == e.aceptada /\ ~Cierra(t) /\ t.efs \cap {"bind_task", "reset_release"} = {}
<1>1. e.hist \in Seq(Entradas) /\ e.ses \in [Agentes -> Int \cup {Nada}] /\ x.ses \in Int \cup {Nada}
  BY DEF Fichas, Entradas
<1>2. Recorte(e.hist, x) \in Seq(Entradas)
  BY <1>1, RecorteEs
<1>3. tarea \in Tareas \cup {Nada} /\ ficha \in Tareas \cup {Nada}
  BY DEF Fichas
<1>4. ses \in [Agentes -> Int \cup {Nada}]
  BY <1>1 DEF SinSesiones
<1>5. ac \in BOOLEAN
  OBVIOUS
<1>6. Aplicar(e, t, x) =
        [e EXCEPT !.estado = t.a, !.hist = Recorte(e.hist, x), !.tarea = tarea, !.ficha = ficha,
                  !.ses = ses, !.aceptada = ac]
  BY DEF Aplicar, Recorte, Fichas
<1> HIDE DEF tarea, ficha, ses, ac
<1> QED
  BY <1>2, <1>3, <1>4, <1>5, <1>6 DEF Fichas

(* A transition that was made and is in the history as it was made.         *)
Asentado ==
  \E c \in Cambios, x \in Entradas :
    /\ cambios' = Append(cambios, c) /\ est'.hist = Recorte(est.hist, x)
    /\ x.n = Len(cambios) + 1 /\ x.de = c.de /\ x.a = c.a /\ x.ses = c.ses
    /\ c.quien # "mano" /\ c.de \in Estados /\ (c.quien = "obrero" <=> Rol[c.de] # "human")

Manual ==
  /\ est'.hist = est.hist
  /\ \/ cambios' = cambios
     \/ \E c \in Cambios : cambios' = Append(cambios, c) /\ c.quien = "mano"

LEMMA EfectoTransicion ==
  ASSUME Tipos, NEW t \in Desde[est.estado], NEW rt \in Runtimes \cup {Nada},
         NEW ses \in Nat \cup {Nada}, NEW e \in Fichas, e.hist = est.hist,
         NEW quien \in {"obrero", "humano"}, quien = "obrero" <=> Rol[t.de] # "human",
         est' = Aplicar(e, t, Entrada(t, rt, ses)), Anota(quien, t.de, t.a, ses)
  PROVE  est' \in Fichas /\ Asentado
<1> DEFINE x == Entrada(t, rt, ses)
           c == [quien |-> quien, de |-> t.de, a |-> t.a, ses |-> ses]
<1>1. t.de \in Estados /\ t.a \in Estados
  BY DesdeEs DEF Tipos, Fichas
<1>2. Len(cambios) + 1 \in Nat
  BY DEF Tipos
<1>3. /\ x \in Entradas /\ x.n = Len(cambios) + 1 /\ x.de = t.de /\ x.a = t.a /\ x.ses = ses
  BY <1>1, <1>2 DEF Entrada, Entradas
<1>4. c \in Cambios /\ c.quien = quien /\ c.de = t.de /\ c.a = t.a /\ c.ses = ses
  BY <1>1 DEF Cambios
<1>5. cambios' = Append(cambios, c)
  BY DEF Anota
<1> HIDE DEF x, c
<1>6. est' \in Fichas /\ est'.hist = Recorte(est.hist, x)
  BY <1>1, <1>3, EfectoAplicar DEF x
<1> QED
  BY <1>1, <1>3, <1>4, <1>5, <1>6 DEF Asentado

LEMMA EfectoTransitar ==
  ASSUME Tipos, NEW n \in DOMAIN obrero, NEW t \in Desde[est.estado], NEW rt \in Runtimes,
         NEW ses \in {0, n}, Transitar(n, t, rt, ses)
  PROVE  est' \in Fichas /\ Asentado /\ UNCHANGED <<run, obrero>>
<1>1. ses \in Nat /\ est \in Fichas
  BY DEF Tipos
<1> QED
  BY <1>1, EfectoTransicion DEF Transitar

LEMMA EfectoDecidir ==
  ASSUME Tipos, NEW t \in Desde[est.estado], Decidir(t)
  PROVE  est' \in Fichas /\ Asentado /\ UNCHANGED <<run, obrero>>
<1>1. PICK k \in IF "bind_task" \in t.efs THEN Tareas ELSE {est.ficha} :
        est' = Aplicar([est EXCEPT !.ficha = k], t, Entrada(t, Nada, Nada))
  BY DEF Decidir
<1> DEFINE e == [est EXCEPT !.ficha = k]
<1>2. k \in Tareas \cup {Nada} /\ est \in Fichas
  BY DEF Tipos, Fichas
<1>3. e \in Fichas /\ e.hist = est.hist
  BY <1>2 DEF Fichas
<1>4. est' = Aplicar(e, t, Entrada(t, Nada, Nada))
  BY <1>1
<1>5. Anota("humano", t.de, t.a, Nada) /\ Rol[t.de] = "human" /\ UNCHANGED <<run, obrero>>
  BY DEF Decidir
<1> HIDE DEF e
<1>6. est' \in Fichas /\ Asentado
  BY <1>3, <1>4, <1>5, EfectoTransicion
<1> QED
  BY <1>5, <1>6

LEMMA EfectoEditar ==
  ASSUME Tipos, NEW n \in DOMAIN obrero, Editar(n)
  PROVE  est' \in Fichas /\ Manual /\ UNCHANGED <<run, obrero>>
<1> DEFINE c == [quien |-> "mano", de |-> Nada, a |-> Nada, ses |-> Nada]
<1>1. c \in Cambios /\ c.quien = "mano"
  BY DEF Cambios
<1>2. cambios' = Append(cambios, c)
  BY DEF Editar, Anota
<1> HIDE DEF c
<1>3. est \in Fichas /\ {"DEVELOPING", "DONE"} \subseteq Estados
  BY DEF Tipos, Estados, DeDeveloper, DelSistema
<1>4. ASSUME NEW s \in Estados, est' = [est EXCEPT !.estado = s]
      PROVE  est' \in Fichas /\ est'.hist = est.hist
  BY <1>3, <1>4 DEF Fichas
<1>5. ASSUME est' = [est EXCEPT !.entorno = "otro"]
      PROVE  est' \in Fichas /\ est'.hist = est.hist
  BY <1>3, <1>5 DEF Fichas
<1>6. ASSUME NEW k \in Tareas, est' = [est EXCEPT !.tarea = k]
      PROVE  est' \in Fichas /\ est'.hist = est.hist
  BY <1>3, <1>6 DEF Fichas
<1>7. ASSUME est' = [est EXCEPT !.legible = FALSE]
      PROVE  est' \in Fichas /\ est'.hist = est.hist
  BY <1>3, <1>7 DEF Fichas
<1>8. est' \in Fichas /\ est'.hist = est.hist
  BY <1>3, <1>4, <1>5, <1>6, <1>7 DEF Editar
<1> QED
  BY <1>1, <1>2, <1>8 DEF Manual, Editar

LEMMA EfectoAceptar ==
  ASSUME Tipos, Aceptar
  PROVE  est' \in Fichas /\ Manual /\ UNCHANGED <<run, obrero, cambios>>
  BY DEF Aceptar, Tipos, Fichas, Manual

(* The steps of Next, by what they leave.                                   *)
Mundo == est' \in Fichas /\ (Asentado \/ Manual) /\ UNCHANGED <<run, obrero>>

LEMMA Pasos_ ==
  ASSUME Tipos, Next
  PROVE  \/ \E r \in Corridas :
              \/ Tramite(r) \/ Observar(r) \/ Lanzar(r) \/ Esperar(r) \/ LeerLatch(r) \/ Juzgar(r)
         \/ \E n \in DOMAIN obrero : Terminar(n) \/ Denegar(n)
         \/ Mundo
<1>1. CASE Entorno
  BY <1>1, EfectoTransitar, EfectoDecidir, EfectoEditar, EfectoAceptar DEF Entorno, Mundo
<1>2. CASE \E r \in Corridas : Arrancar(r) \/ Paso(r) \/ Interrumpir(r) \/ Morir(r)
  BY <1>2 DEF Paso, Tramite
<1> QED
  BY <1>1, <1>2 DEF Next

LEMMA NextTipos ==
  ASSUME Tipos, Turnos, Next
  PROVE  Tipos'
<1> USE DEF Tipos
<1>1. ASSUME NEW r \in Corridas, Tramite(r) \/ Observar(r)
      PROVE  Tipos'
  BY <1>1, EfectoTramite, EfectoObservar DEF EfectoDeTramite
<1>2. ASSUME NEW r \in Corridas, Lanzar(r)
      PROVE  Tipos'
  BY <1>2, EfectoLanzar
<1>3. ASSUME NEW r \in Corridas, Esperar(r) \/ Juzgar(r)
      PROVE  Tipos'
  BY <1>3, EfectoEsperar, EfectoJuzgar DEF Mueve, MismoObrero
<1>4. ASSUME NEW r \in Corridas, LeerLatch(r)
      PROVE  Tipos'
  <2>1. obrero[run[r].ses] \in Obreros
    <3>1. run[r].ses \in DOMAIN obrero
      BY <1>4 DEF Turnos, EnManos, LeerLatch
    <3> QED
      BY <3>1
  <2> QED
    BY <1>4, <2>1, EfectoLeerLatch DEF Mueve
<1>5. ASSUME NEW n \in DOMAIN obrero, Terminar(n) \/ Denegar(n)
      PROVE  Tipos'
  BY <1>5, EfectoTerminar, EfectoDenegar DEF MismoObrero
<1>6. CASE Mundo
  <2>1. ASSUME NEW c \in Cambios, cambios' = Append(cambios, c)
        PROVE  cambios' \in Seq(Cambios)
    BY <2>1, AppendProperties
  <2>2. cambios' \in Seq(Cambios)
    BY <1>6, <2>1 DEF Mundo, Asentado, Manual
  <2> QED
    BY <1>6, <2>2 DEF Mundo
<1> QED
  BY <1>1, <1>2, <1>3, <1>4, <1>5, <1>6, Pasos_

-----------------------------------------------------------------------------
(***************************************************************************)
(* A denial is the end of the run.                                         *)
(***************************************************************************)
Denegaciones == Vivos /\ Turnos /\ Negados

LEMMA ObreroDe == ASSUME Tipos, NEW n \in DOMAIN obrero PROVE obrero[n] \in Obreros /\ n \in Nat
  BY DEF Tipos

LEMMA TramiteDenegaciones ==
  ASSUME Tipos, Denegaciones, NEW r \in Corridas, Tramite(r)
  PROVE  Denegaciones'
<1>1. EfectoDeTramite(r) /\ obrero' = obrero
  BY EfectoTramite DEF EfectoDeTramite
<1>2. \A n \in DOMAIN obrero : obrero[n].r \in Corridas
  BY ObreroDe DEF Obreros
<1>3. Vivos'
  BY <1>1, <1>2 DEF Denegaciones, Vivos, EsUltimo, EfectoDeTramite, EnManos
<1>4. Turnos'
  BY <1>1, <1>2 DEF Denegaciones, Turnos, EsUltimo, EfectoDeTramite
<1>5. Negados'
  BY <1>1, <1>2 DEF Denegaciones, Negados, EsUltimo, EfectoDeTramite, Parado
<1> QED
  BY <1>3, <1>4, <1>5 DEF Denegaciones

LEMMA ObservarDenegaciones ==
  ASSUME Tipos, Denegaciones, NEW r \in Corridas, Observar(r)
  PROVE  Denegaciones'
<1>1. /\ \A k \in Corridas \ {r} : run'[k] = run[k]
      /\ run[r].pc = "observar" /\ run'[r].pc \in {"gate", "soltar", "comprobar"}
      /\ obrero' = obrero
  BY EfectoObservar
<1>2. \A n \in DOMAIN obrero : obrero[n].r \in Corridas
  BY ObreroDe DEF Obreros
<1>3. Vivos'
  BY <1>1, <1>2 DEF Denegaciones, Vivos, EsUltimo
<1>4. Turnos'
  BY <1>1, <1>2 DEF Denegaciones, Turnos, EsUltimo, EnManos
<1>5. Negados'
  BY <1>1, <1>2 DEF Denegaciones, Negados, EsUltimo, EnManos
<1> QED
  BY <1>3, <1>4, <1>5 DEF Denegaciones

LEMMA LanzarDenegaciones ==
  ASSUME Tipos, Denegaciones, NEW r \in Corridas, Lanzar(r)
  PROVE  Denegaciones'
<1> DEFINE u == Len(obrero) + 1
<1>1. /\ \A k \in Corridas \ {r} : run'[k] = run[k]
      /\ run[r].pc = "lanzar" /\ run'[r].pc = "turno" /\ run'[r].ses = u
      /\ DOMAIN obrero' = 1 .. u
      /\ \A n \in DOMAIN obrero : obrero'[n] = obrero[n]
      /\ obrero'[u].r = r /\ ~obrero'[u].negado /\ obrero'[u].res = Nada
  BY EfectoLanzar
<1>2. DOMAIN obrero = 1 .. u - 1 /\ u \in Nat \ {0}
  BY DEF Tipos
<1>3. \A n \in DOMAIN obrero : obrero[n].r \in Corridas
  BY ObreroDe DEF Obreros
<1> HIDE DEF u
<1>4. /\ \A n \in DOMAIN obrero : n \in Nat /\ n < u
      /\ u \in DOMAIN obrero'
      /\ \A n \in DOMAIN obrero' : n \in DOMAIN obrero \/ n = u
      /\ \A n \in DOMAIN obrero' : ~(n > u)
      /\ \A n \in DOMAIN obrero : n \in DOMAIN obrero'
  BY <1>1, <1>2
<1>5. Vivos'
  <2> SUFFICES ASSUME NEW n \in DOMAIN obrero', obrero'[n].vivo
               PROVE  /\ \A m \in DOMAIN obrero' : m > n => obrero'[m].r # obrero'[n].r
                      /\ obrero'[n].res = Nada
                      /\ LET x == run'[obrero'[n].r] IN x.pc = "muerto" \/ (x.pc = "turno" /\ x.ses = n)
    BY DEF Vivos, EsUltimo
  <2>1. CASE n = u
    BY <1>1, <1>4, <2>1
  <2>2. CASE n # u
    <3>1. n \in DOMAIN obrero /\ obrero'[n] = obrero[n] /\ obrero[n].vivo /\ obrero[n].r \in Corridas
      BY <1>1, <1>3, <1>4, <2>2
    <3>2. /\ \A m \in DOMAIN obrero : m > n => obrero[m].r # obrero[n].r
          /\ obrero[n].res = Nada
          /\ LET x == run[obrero[n].r] IN x.pc = "muerto" \/ (x.pc = "turno" /\ x.ses = n)
      BY <3>1 DEF Denegaciones, Vivos, EsUltimo
    <3>3. obrero[n].r # r /\ run'[obrero[n].r] = run[obrero[n].r]
      BY <1>1, <3>1, <3>2
    <3>4. \A m \in DOMAIN obrero' : m > n => obrero'[m].r # obrero'[n].r
      BY <1>1, <1>4, <3>1, <3>2, <3>3
    <3> QED
      BY <3>1, <3>2, <3>3, <3>4
  <2> QED
    BY <2>1, <2>2
<1>6. Turnos'
  BY <1>1, <1>3, <1>4 DEF Denegaciones, Turnos, EsUltimo, EnManos
<1>7. Negados'
  BY <1>1, <1>3, <1>4 DEF Denegaciones, Negados, EsUltimo, EnManos
<1> QED
  BY <1>5, <1>6, <1>7 DEF Denegaciones

(* A worker ends, by itself or killed: it is the last of its run as before.  *)
LEMMA MismoDenegaciones ==
  ASSUME Tipos, Denegaciones, NEW n \in DOMAIN obrero, MismoObrero(n), ~obrero'[n].vivo,
         obrero[n].hijos => (obrero'[n].hijos \/ obrero[n].vivo),
         \A k \in Corridas :
           \/ run'[k] = run[k]
           \/ /\ run[k].pc = "turno" /\ run'[k].pc = "latch" /\ run'[k].ses = run[k].ses
              /\ run[k].ses = n
  PROVE  Denegaciones'
<1>1. /\ DOMAIN obrero' = DOMAIN obrero
      /\ \A m \in DOMAIN obrero : /\ obrero'[m].r = obrero[m].r /\ obrero'[m].res = obrero[m].res
                                  /\ (obrero'[m].negado <=> obrero[m].negado)
      /\ \A m \in DOMAIN obrero \ {n} : obrero'[m] = obrero[m]
  BY DEF MismoObrero
<1>2. \A m \in DOMAIN obrero : obrero[m].r \in Corridas
  BY ObreroDe DEF Obreros
<1>3. Vivos'
  BY <1>1, <1>2 DEF Denegaciones, Vivos, EsUltimo
<1>4. Turnos'
  BY <1>1, <1>2 DEF Denegaciones, Turnos, EsUltimo, EnManos
<1>5. ASSUME NEW m \in DOMAIN obrero, obrero'[m].negado, ~obrero'[m].hijos
      PROVE  /\ EsUltimo(m) /\ obrero[m].res \in {Nada, "blocked_guard", "interrupted"}
             /\ LET x == run'[obrero[m].r] IN
                \/ x.pc \in {"muerto", "fin", "soltar"}
                \/ x.pc \in EnManos /\ x.ses = m /\ (x.pc = "juzgar" => x.negado)
  <2>1. obrero[m].negado
    BY <1>1, <1>5
  <2>2. CASE ~obrero[m].hijos
    BY <1>2, <1>5, <2>1, <2>2 DEF Denegaciones, Negados, EnManos
  <2>3. CASE obrero[m].hijos
    <3>1. m = n /\ obrero[n].vivo
      BY <1>1, <1>5, <2>3
    <3> QED
      BY <1>2, <3>1 DEF Denegaciones, Vivos, EnManos
  <2> QED
    BY <2>2, <2>3
<1>6. Negados'
  BY <1>1, <1>5 DEF Negados, EsUltimo
<1> QED
  BY <1>3, <1>4, <1>6 DEF Denegaciones

LEMMA EsperarDenegaciones ==
  ASSUME Tipos, Denegaciones, NEW r \in Corridas, Esperar(r)
  PROVE  Denegaciones'
<1>1. Turnos
  BY DEF Denegaciones
<1>2. /\ run[r].pc = "turno" /\ Mueve(r, "latch")
      /\ run[r].ses \in DOMAIN obrero /\ MismoObrero(run[r].ses) /\ ~obrero'[run[r].ses].vivo
      /\ obrero[run[r].ses].hijos => obrero' = obrero \/ obrero[run[r].ses].vivo
  BY <1>1, EfectoEsperar
<1>3. obrero[run[r].ses].hijos => obrero'[run[r].ses].hijos \/ obrero[run[r].ses].vivo
  BY <1>2
<1>4. \A k \in Corridas :
        \/ run'[k] = run[k]
        \/ /\ run[k].pc = "turno" /\ run'[k].pc = "latch" /\ run'[k].ses = run[k].ses
           /\ run[k].ses = run[r].ses
  BY <1>2 DEF Mueve
<1> QED
  BY <1>2, <1>3, <1>4, MismoDenegaciones

LEMMA LeerDenegaciones ==
  ASSUME Tipos, Denegaciones, NEW r \in Corridas, LeerLatch(r)
  PROVE  Denegaciones'
<1>1. /\ run[r].ses \in DOMAIN obrero /\ obrero[run[r].ses] \in Obreros /\ obrero[run[r].ses].r = r
  <2>1. run[r].ses \in DOMAIN obrero /\ obrero[run[r].ses].r = r
    BY DEF Denegaciones, Turnos, EnManos, LeerLatch
  <2> QED
    BY <2>1, ObreroDe
<1>2. /\ run[r].pc = "latch" /\ Mueve(r, "juzgar")
      /\ run'[r].negado <=> obrero[run[r].ses].negado
      /\ obrero' = obrero
  BY <1>1, EfectoLeerLatch
<1>3. \A m \in DOMAIN obrero : obrero[m].r \in Corridas
  BY ObreroDe DEF Obreros
<1>4. Vivos'
  BY <1>2, <1>3 DEF Denegaciones, Vivos, EsUltimo, Mueve
<1>5. Turnos'
  BY <1>2, <1>3 DEF Denegaciones, Turnos, EsUltimo, EnManos, Mueve
<1>6. Negados'
  BY <1>2, <1>3 DEF Denegaciones, Negados, EsUltimo, EnManos, Mueve
<1> QED
  BY <1>4, <1>5, <1>6 DEF Denegaciones

LEMMA JuzgarDenegaciones ==
  ASSUME Tipos, Denegaciones, NEW r \in Corridas, Juzgar(r)
  PROVE  Denegaciones'
<1> DEFINE n == run[r].ses
<1>0. Turnos
  BY DEF Denegaciones
<1>1. /\ run[r].pc = "juzgar" /\ n \in DOMAIN obrero
      /\ run'[r].pc \in {"observar", "pausa", "soltar"}
      /\ \A k \in Corridas \ {r} : run'[k] = run[k]
      /\ run[r].negado => run'[r].pc = "soltar"
      /\ DOMAIN obrero' = DOMAIN obrero
      /\ \A m \in DOMAIN obrero \ {n} : obrero'[m] = obrero[m]
      /\ obrero'[n].r = obrero[n].r /\ (obrero'[n].vivo <=> obrero[n].vivo)
      /\ (obrero'[n].hijos <=> obrero[n].hijos) /\ (obrero'[n].negado <=> obrero[n].negado)
      /\ obrero'[n].res = Resultado(run[r], Rol[run[r].antes.estado])
  BY <1>0, EfectoJuzgar DEF Mueve
<1>2. run[r].negado => obrero'[n].res \in {"interrupted", "blocked_guard"}
  <2>1. run[r] \in Procesos
    BY DEF Tipos
  <2> QED
    BY <1>1, <2>1, ResultadoEs
<1>3. \A m \in DOMAIN obrero : obrero[m].r \in Corridas
  BY ObreroDe DEF Obreros
<1>4. obrero[n].r = r /\ ~obrero[n].vivo
  BY <1>1 DEF Denegaciones, Turnos, Vivos, EnManos
<1>5. \A m \in DOMAIN obrero : obrero'[m].r = obrero[m].r
  BY <1>1
<1> HIDE DEF n
<1>6. Vivos'
  BY <1>1, <1>3, <1>4, <1>5 DEF Denegaciones, Vivos, EsUltimo
<1>7. Turnos'
  BY <1>1, <1>3, <1>4, <1>5 DEF Denegaciones, Turnos, EsUltimo, EnManos
<1>8. Negados'
  <2>1. ASSUME NEW m \in DOMAIN obrero, obrero'[m].negado, ~obrero'[m].hijos
        PROVE  /\ EsUltimo(m) /\ obrero'[m].res \in {Nada, "blocked_guard", "interrupted"}
               /\ LET x == run'[obrero[m].r] IN
                  \/ x.pc \in {"muerto", "fin", "soltar"}
                  \/ x.pc \in EnManos /\ x.ses = m /\ (x.pc = "juzgar" => x.negado)
    <3>1. obrero[m].negado /\ ~obrero[m].hijos
      BY <1>1, <2>1
    <3>2. /\ EsUltimo(m) /\ obrero[m].res \in {Nada, "blocked_guard", "interrupted"}
          /\ LET x == run[obrero[m].r] IN
             \/ x.pc \in {"muerto", "fin", "soltar"}
             \/ x.pc \in EnManos /\ x.ses = m /\ (x.pc = "juzgar" => x.negado)
      BY <3>1 DEF Denegaciones, Negados
    <3>3. CASE m = n
      BY <1>1, <1>2, <1>4, <3>2, <3>3
    <3>4. CASE m # n
      BY <1>1, <1>3, <3>2, <3>4 DEF n
    <3> QED
      BY <3>3, <3>4
  <2> QED
    BY <1>1, <1>5, <2>1 DEF Negados, EsUltimo
<1> QED
  BY <1>6, <1>7, <1>8 DEF Denegaciones

LEMMA DenegarDenegaciones ==
  ASSUME Tipos, Denegaciones, NEW n \in DOMAIN obrero, Denegar(n)
  PROVE  Denegaciones'
<1>1. /\ DOMAIN obrero' = DOMAIN obrero
      /\ \A m \in DOMAIN obrero \ {n} : obrero'[m] = obrero[m]
      /\ obrero[n].vivo \/ obrero[n].hijos
      /\ obrero'[n].r = obrero[n].r /\ (obrero'[n].vivo <=> obrero[n].vivo)
      /\ (obrero'[n].hijos <=> obrero[n].hijos) /\ obrero'[n].res = obrero[n].res
      /\ run' = run
  BY EfectoDenegar
<1>2. \A m \in DOMAIN obrero : obrero'[m].r = obrero[m].r /\ obrero'[m].res = obrero[m].res
  BY <1>1
<1>3. Vivos'
  BY <1>1, <1>2 DEF Denegaciones, Vivos, EsUltimo
<1>4. Turnos'
  BY <1>1, <1>2 DEF Denegaciones, Turnos, EsUltimo, EnManos
<1>5. Negados'
  BY <1>1, <1>2 DEF Denegaciones, Negados, Vivos, EsUltimo, EnManos
<1> QED
  BY <1>3, <1>4, <1>5 DEF Denegaciones

LEMMA NextDenegaciones ==
  ASSUME Tipos, Denegaciones, Next
  PROVE  Denegaciones'
<1>1. ASSUME NEW n \in DOMAIN obrero, Terminar(n)
      PROVE  Denegaciones'
  <2>1. /\ MismoObrero(n) /\ ~obrero'[n].vivo /\ (obrero'[n].hijos <=> obrero[n].hijos)
        /\ run' = run
    BY <1>1, EfectoTerminar
  <2> QED
    BY <2>1, MismoDenegaciones
<1>2. CASE Mundo
  BY <1>2 DEF Mundo, Denegaciones, Vivos, Turnos, Negados, EsUltimo
<1> QED
  BY <1>1, <1>2, Pasos_, TramiteDenegaciones, ObservarDenegaciones, LanzarDenegaciones,
     EsperarDenegaciones, LeerDenegaciones, JuzgarDenegaciones, DenegarDenegaciones

-----------------------------------------------------------------------------
(* The order of the workers that were left running is one of them all.      *)
LEMMA OrdenDeMuertas ==
  /\ SetToSeq(Muertas) \in [1 .. Cardinality(Muertas) -> Muertas]
  /\ \A i, j \in 1 .. Cardinality(Muertas) : SetToSeq(Muertas)[i] = SetToSeq(Muertas)[j] => i = j
<1>1. ExistsBijection(1 .. Cardinality(Muertas), Muertas)
  BY FS_CardinalityType
<1>2. PICK f \in Bijection(1 .. Cardinality(Muertas), Muertas) : TRUE
  BY <1>1 DEF ExistsBijection
<1>3. f \in [1 .. Cardinality(Muertas) -> Muertas] /\ IsInjective(f)
  BY <1>2 DEF Bijection, Injection, IsInjective
<1>4. SetToSeq(Muertas) = CHOOSE g \in [1 .. Cardinality(Muertas) -> Muertas] : IsInjective(g)
  BY DEF SetToSeq
<1>5. /\ SetToSeq(Muertas) \in [1 .. Cardinality(Muertas) -> Muertas]
      /\ IsInjective(SetToSeq(Muertas))
  BY <1>3, <1>4
<1> QED
  BY <1>5 DEF IsInjective

LEMMA InitTipos == Init => Tipos
<1> SUFFICES ASSUME Init
             PROVE  Tipos
  OBVIOUS
<1>1. est \in Fichas
  <2>1. PICK s \in Iniciales : est = EstInicial(s)
    BY DEF Init
  <2> DEFINE tarea == IF s = "IDLE" THEN Nada ELSE CHOOSE k \in Tareas : TRUE
             x == [n |-> 0, de |-> Nada, a |-> s, rt |-> Nada, ses |-> Nada]
  <2>2. s \in Estados /\ tarea \in Tareas \cup {Nada}
    OBVIOUS
  <2>3. x \in Entradas
    BY <2>2 DEF Entradas
  <2>4. SesionesPrevias(s) \in [Agentes -> Int \cup {Nada}]
    BY DEF SesionesPrevias, Agentes
  <2>5. est = [estado |-> s, tarea |-> tarea, ficha |-> tarea, entorno |-> "dev", legible |-> TRUE,
               hist |-> <<x>>, ses |-> SesionesPrevias(s), aceptada |-> FALSE]
    BY <2>1 DEF EstInicial
  <2> HIDE DEF tarea, x
  <2>6. <<x>> \in Seq(Entradas)
    BY <2>3
  <2> QED
    BY <2>2, <2>4, <2>5, <2>6 DEF Fichas
<1>2. run \in [Corridas -> Procesos]
  <2>1. "muerto" \in Pasos /\ "fuera" \in Pasos
    BY DEF Pasos
  <2>2. \A r \in Corridas : Proceso(IF r \in Muertas THEN "muerto" ELSE "fuera") \in Procesos
    BY <2>1, ProcesoEs
  <2> QED
    BY <2>2 DEF Init
<1>3. obrero \in Seq(Obreros)
  <2>1. Cardinality(Muertas) \in Nat
    BY FS_CardinalityType
  <2>2. \A n \in 1 .. Cardinality(Muertas) : SetToSeq(Muertas)[n] \in Corridas
    BY OrdenDeMuertas
  <2>3. obrero \in [1 .. Cardinality(Muertas) -> Obreros]
    BY <2>2 DEF Init, Obreros
  <2> QED
    BY <2>1, <2>3
<1>4. cambios \in Seq(Cambios)
  BY DEF Init
<1> QED
  BY <1>1, <1>2, <1>3, <1>4 DEF Tipos

LEMMA InitDenegaciones == Init => Denegaciones
<1> SUFFICES ASSUME Init
             PROVE  Denegaciones
  OBVIOUS
<1>1. /\ DOMAIN obrero = 1 .. Cardinality(Muertas)
      /\ \A n \in DOMAIN obrero :
           /\ obrero[n].r = SetToSeq(Muertas)[n] /\ obrero[n].res = Nada /\ ~obrero[n].negado
  BY DEF Init
<1>2. Cardinality(Muertas) \in Nat
  BY FS_CardinalityType
<1>3. \A n \in DOMAIN obrero : EsUltimo(n) /\ obrero[n].r \in Muertas
  BY <1>1, <1>2, OrdenDeMuertas DEF EsUltimo
<1>4. \A r \in Corridas : run[r].pc = IF r \in Muertas THEN "muerto" ELSE "fuera"
  BY ProcesoEs DEF Init, Pasos
<1>5. Vivos
  BY <1>1, <1>3, <1>4 DEF Vivos
<1>6. Turnos
  BY <1>4 DEF Turnos, EnManos
<1>7. Negados
  BY <1>1 DEF Negados
<1> QED
  BY <1>5, <1>6, <1>7 DEF Denegaciones

LEMMA PasoDenegaciones ==
  ASSUME Tipos, Denegaciones, [Next]_vars
  PROVE  Tipos' /\ Denegaciones'
<1>1. CASE Next
  BY <1>1, NextTipos, NextDenegaciones DEF Denegaciones
<1>2. CASE UNCHANGED vars
  BY <1>2 DEF vars, Tipos, Denegaciones, Vivos, Turnos, Negados, EsUltimo
<1> QED
  BY <1>1, <1>2

(* Whatever the runs, the workers that others left behind, the limits and   *)
(* the moment of the denial: once a guard denied something to the worker of *)
(* a run, turn_denials finds it, run_turn answers blocked_guard, and the     *)
(* loop of supervisor.py launches nothing more.                             *)
THEOREM DenegadoSiempreEsAbsoluto == Spec => []DenegadoEsAbsoluto
<1>1. Init => Tipos /\ Denegaciones
  BY InitTipos, InitDenegaciones
<1>2. Tipos /\ Denegaciones /\ [Next]_vars => Tipos' /\ Denegaciones'
  BY PasoDenegaciones
<1>3. Denegaciones => DenegadoEsAbsoluto
  BY DEF Denegaciones, Negados, EsUltimo, DenegadoEsAbsoluto
<1> QED
  BY <1>1, <1>2, <1>3, PTL DEF Spec

-----------------------------------------------------------------------------
(***************************************************************************)
(* The history of state.json tells what was done.                          *)
(***************************************************************************)
Crece ==
  /\ cambios' \in Seq(Cambios) /\ Len(cambios) <= Len(cambios')
  /\ \A k \in 1 .. Len(cambios) : cambios'[k] = cambios[k]

LEMMA CreceUno ==
  ASSUME Tipos, NEW c \in Cambios, cambios' = Append(cambios, c)
  PROVE  /\ Crece /\ Len(cambios') = Len(cambios) + 1 /\ cambios'[Len(cambios) + 1] = c
         /\ Len(cambios) \in Nat
<1>1. cambios \in Seq(Cambios) /\ Len(cambios) \in Nat
  BY DEF Tipos
<1>2. /\ cambios' \in Seq(Cambios) /\ Len(cambios') = Len(cambios) + 1
      /\ \A k \in 1 .. Len(cambios) : cambios'[k] = cambios[k]
      /\ cambios'[Len(cambios) + 1] = c
  BY <1>1, AppendProperties
<1> QED
  BY <1>1, <1>2 DEF Crece

LEMMA MundoCrece ==
  ASSUME Tipos, Mundo
  PROVE  Crece
<1>1. CASE cambios' = cambios
  BY <1>1 DEF Crece, Tipos
<1>2. ASSUME NEW c \in Cambios, cambios' = Append(cambios, c)
      PROVE  Crece
  BY <1>2, CreceUno
<1> QED
  BY <1>1, <1>2 DEF Mundo, Asentado, Manual

LEMMA ActoresSiguen ==
  ASSUME Tipos, Actores, Mundo
  PROVE  Actores'
<1>1. CASE cambios' = cambios
  BY <1>1 DEF Actores, Hecho
<1>2. ASSUME NEW c \in Cambios, cambios' = Append(cambios, c),
             c.quien # "mano" => c.de \in Estados /\ (c.quien = "obrero" <=> Rol[c.de] # "human")
      PROVE  Actores'
  <2>1. /\ Crece /\ Len(cambios') = Len(cambios) + 1 /\ cambios'[Len(cambios) + 1] = c
        /\ Len(cambios) \in Nat
    BY <1>2, CreceUno
  <2>2. \A k \in 1 .. Len(cambios') : k \in 1 .. Len(cambios) \/ k = Len(cambios) + 1
    BY <2>1
  <2> QED
    BY <1>2, <2>1, <2>2 DEF Actores, Hecho, Crece
<1> QED
  BY <1>1, <1>2 DEF Mundo, Asentado, Manual

LEMMA Entradas_ ==
  ASSUME NEW h \in Seq(Entradas), h # << >>
  PROVE  /\ Len(h) \in Nat \ {0}
         /\ \A i \in 1 .. Len(h) : h[i] \in Entradas /\ h[i].n \in Nat
<1>1. Len(h) \in Nat \ {0}
  BY EmptySeq
<1>2. \A i \in 1 .. Len(h) : h[i] \in Entradas
  BY <1>1
<1> QED
  BY <1>1, <1>2 DEF Entradas

(* An edit by hand adds no entry, and is none that the history must have.   *)
LEMMA FielMano ==
  ASSUME NEW h \in Seq(Entradas), NEW cs \in Seq(Cambios), Fiel(h, cs),
         NEW c \in Cambios, c.quien = "mano"
  PROVE  Fiel(h, Append(cs, c))
<1> DEFINE ds == Append(cs, c)
           m == Len(cs)
<1>1. /\ m \in Nat /\ Len(ds) = m + 1 /\ ds[m + 1] = c
      /\ \A k \in 1 .. m : ds[k] = cs[k]
  BY AppendProperties
<1>2. h # << >> /\ \A i \in 1 .. Len(h) : h[i].n \in Nat /\ h[i].n <= m
  BY Entradas_ DEF Fiel
<1> HIDE DEF ds
<1>3. \A i \in 1 .. Len(h) : h[i].n <= Len(ds)
  BY <1>1, <1>2
<1>4. \A i \in 1 .. Len(h) : h[i].n > 0 =>
        LET d == ds[h[i].n] IN
        d.quien # "mano" /\ d.de = h[i].de /\ d.a = h[i].a /\ d.ses = h[i].ses
  <2> TAKE i \in 1 .. Len(h)
  <2> HAVE h[i].n > 0
  <2>1. h[i].n \in 1 .. m
    BY <1>1, <1>2
  <2>2. ds[h[i].n] = cs[h[i].n]
    BY <1>1, <2>1
  <2> QED
    BY <2>2 DEF Fiel
<1>5. \A k \in 1 .. Len(ds) :
        ds[k].quien # "mano" /\ k > h[1].n => \E i \in 1 .. Len(h) : h[i].n = k
  <2> TAKE k \in 1 .. Len(ds)
  <2> HAVE ds[k].quien # "mano" /\ k > h[1].n
  <2>1. k \in 1 .. m
    BY <1>1
  <2>2. cs[k].quien # "mano"
    BY <1>1, <2>1
  <2> QED
    BY <2>1, <2>2 DEF Fiel
<1>6. \A i, j \in 1 .. Len(h) : i < j => h[i].n < h[j].n
  BY DEF Fiel
<1> QED
  BY <1>2, <1>3, <1>4, <1>5, <1>6 DEF Fiel, ds

(* A transition goes to the end, and what is cut off is the front.          *)
LEMMA FielTransicion ==
  ASSUME NEW h \in Seq(Entradas), NEW cs \in Seq(Cambios), Fiel(h, cs),
         NEW x \in Entradas, NEW c \in Cambios,
         x.n = Len(cs) + 1, x.de = c.de, x.a = c.a, x.ses = c.ses, c.quien # "mano"
  PROVE  Fiel(Recorte(h, x), Append(cs, c))
<1> DEFINE g == Recorte(h, x)
           ds == Append(cs, c)
           m == Len(cs)
           n == Len(h)
<1>1. /\ m \in Nat /\ Len(ds) = m + 1 /\ ds[m + 1] = c
      /\ \A k \in 1 .. m : ds[k] = cs[k]
  BY AppendProperties
<1>2. h # << >> /\ n \in Nat \ {0} /\ \A i \in 1 .. n : h[i].n \in Nat /\ h[i].n <= m
  BY Entradas_ DEF Fiel
<1>3. /\ \A i, j \in 1 .. n : i < j => h[i].n < h[j].n
      /\ \A i \in 1 .. n : h[i].n > 0 =>
           LET d == cs[h[i].n] IN
           d.quien # "mano" /\ d.de = h[i].de /\ d.a = h[i].a /\ d.ses = h[i].ses
      /\ \A k \in 1 .. m : cs[k].quien # "mano" /\ k > h[1].n => \E i \in 1 .. n : h[i].n = k
  BY DEF Fiel
<1>4. g \in Seq(Entradas)
  BY RecorteEs
<1>5. PICK a \in 1 .. n + 1 :
        /\ Len(g) = n - a + 2
        /\ \A i \in 1 .. n - a + 1 : g[i] = h[a + i - 1]
        /\ g[n - a + 2] = x
  BY RecorteEs
<1> HIDE DEF g, ds, m, n
<1>6. Len(g) \in Nat \ {0} /\ g # << >>
  BY <1>2, <1>4, <1>5
<1>7. x.n = m + 1 /\ g[Len(g)] = x
  BY <1>5 DEF m
<1>8. ASSUME NEW i \in 1 .. Len(g), i # Len(g)
      PROVE  a + i - 1 \in 1 .. n /\ g[i] = h[a + i - 1]
  <2>1. i \in 1 .. n - a + 1
    BY <1>2, <1>5, <1>8
  <2> QED
    BY <1>2, <1>5, <2>1
<1>9. \A i \in 1 .. Len(g) : i # Len(g) => g[i].n \in Nat /\ g[i].n <= m
  BY <1>2, <1>8
<1>10. ASSUME NEW i \in 1 .. Len(g), NEW j \in 1 .. Len(g), i < j
       PROVE  g[i].n < g[j].n
  <2>1. i # Len(g)
    BY <1>6, <1>10
  <2>2. CASE j = Len(g)
    BY <1>1, <1>7, <1>9, <2>1, <2>2
  <2>3. CASE j # Len(g)
    <3>1. a + i - 1 \in 1 .. n /\ g[i] = h[a + i - 1]
      BY <1>8, <2>1
    <3>2. a + j - 1 \in 1 .. n /\ g[j] = h[a + j - 1]
      BY <1>8, <2>3
    <3>3. a + i - 1 < a + j - 1
      BY <1>2, <1>10
    <3>4. h[a + i - 1].n < h[a + j - 1].n
      BY <1>3, <3>1, <3>2, <3>3
    <3> QED
      BY <3>1, <3>2, <3>4
  <2> QED
    BY <2>2, <2>3
<1>11. ASSUME NEW i \in 1 .. Len(g)
       PROVE  /\ g[i].n <= m + 1
              /\ g[i].n > 0 => LET d == ds[g[i].n] IN
                               d.quien # "mano" /\ d.de = g[i].de /\ d.a = g[i].a /\ d.ses = g[i].ses
  <2>1. CASE i = Len(g)
    BY <1>1, <1>7, <2>1
  <2>2. CASE i # Len(g)
    <3>1. g[i].n \in Nat /\ g[i].n <= m
      BY <1>9, <2>2
    <3>2. ASSUME g[i].n > 0
          PROVE  LET d == ds[g[i].n] IN
                 d.quien # "mano" /\ d.de = g[i].de /\ d.a = g[i].a /\ d.ses = g[i].ses
      <4>0. m \in Nat
        BY <1>1
      <4>1. g[i].n \in 1 .. m
        BY <3>1, <3>2, <4>0
      <4>2. ds[g[i].n] = cs[g[i].n]
        BY <1>1, <4>1
      <4>3. a + i - 1 \in 1 .. n /\ g[i] = h[a + i - 1]
        BY <1>8, <2>2
      <4> QED
        BY <1>3, <3>2, <4>2, <4>3
    <3>3. g[i].n <= m + 1
      BY <1>1, <3>1
    <3> QED
      BY <3>2, <3>3
  <2> QED
    BY <2>1, <2>2
<1>12. ASSUME NEW k \in 1 .. m + 1, ds[k].quien # "mano", k > g[1].n
       PROVE  \E i \in 1 .. Len(g) : g[i].n = k
  <2>1. CASE k = m + 1
    BY <1>6, <1>7, <2>1
  <2>2. CASE k \in 1 .. m
    <3>1. 1 \in 1 .. Len(g) /\ 1 # Len(g)
      BY <1>1, <1>6, <1>7, <1>12, <2>2
    <3>2. a \in 1 .. n /\ g[1] = h[a]
      <4>1. a + 1 - 1 \in 1 .. n /\ g[1] = h[a + 1 - 1]
        BY <1>8, <3>1
      <4>2. a + 1 - 1 = a
        BY <1>2
      <4> QED
        BY <4>1, <4>2
    <3>3. 1 \in 1 .. n /\ h[1].n \in Nat /\ h[a].n \in Nat
      BY <1>2, <3>2
    <3>4. h[1].n <= h[a].n
      <4>1. CASE a = 1
        BY <3>3, <4>1
      <4>2. CASE a # 1
        <5>1. 1 < a
          BY <3>2, <4>2
        <5>2. h[1].n < h[a].n
          BY <1>3, <3>2, <3>3, <5>1
        <5> QED
          BY <3>3, <5>2
      <4> QED
        BY <4>1, <4>2
    <3>5. cs[k].quien # "mano" /\ k > h[1].n /\ k > h[a].n
      <4>1. k > h[a].n
        BY <1>12, <3>2
      <4>2. k \in Nat
        BY <1>1, <2>2
      <4>3. k > h[1].n
        BY <3>3, <3>4, <4>1, <4>2
      <4>4. ds[k] = cs[k]
        BY <1>1, <2>2
      <4> QED
        BY <1>12, <4>1, <4>3, <4>4
    <3>6. PICK j \in 1 .. n : h[j].n = k
      BY <1>3, <2>2, <3>5
    <3>7. j > a
      <4>1. ASSUME j < a
            PROVE  FALSE
        <5>1. h[j].n < h[a].n
          BY <1>3, <3>2, <4>1
        <5> QED
          BY <2>2, <3>3, <3>5, <3>6, <5>1
      <4>2. j # a
        BY <2>2, <3>3, <3>5, <3>6
      <4> QED
        BY <3>2, <4>1, <4>2
    <3>8. /\ j - a + 1 \in 1 .. Len(g) /\ j - a + 1 # Len(g) /\ a + (j - a + 1) - 1 = j
      BY <1>2, <1>5, <3>2, <3>7
    <3>9. g[j - a + 1] = h[j]
      BY <1>8, <3>8
    <3> QED
      BY <3>6, <3>8, <3>9
  <2> QED
    BY <1>1, <2>1, <2>2
<1>13. Fiel(g, ds)
  BY <1>1, <1>6, <1>10, <1>11, <1>12 DEF Fiel
<1> QED
  BY <1>13 DEF g, ds

LEMMA FielSigue ==
  ASSUME Tipos, Fiel(est.hist, cambios), Mundo
  PROVE  Fiel(est.hist, cambios)'
<1>1. est.hist \in Seq(Entradas) /\ cambios \in Seq(Cambios)
  BY DEF Tipos, Fichas
<1>2. CASE Manual
  <2>1. est'.hist = est.hist
    BY <1>2 DEF Manual
  <2>2. CASE cambios' = cambios
    BY <2>1, <2>2
  <2>3. ASSUME NEW c \in Cambios, c.quien = "mano", cambios' = Append(cambios, c)
        PROVE  Fiel(est'.hist, cambios')
    BY <1>1, <2>1, <2>3, FielMano
  <2> QED
    BY <1>2, <2>2, <2>3 DEF Manual
<1>3. CASE Asentado
  BY <1>1, <1>3, FielTransicion DEF Asentado
<1> QED
  BY <1>2, <1>3 DEF Mundo

LEMMA Orden ==
  ASSUME NEW y \in Nat, NEW z \in Nat, y < z
  PROVE  y <= z /\ z > 0
OBVIOUS

LEMMA UltimaEs ==
  ASSUME NEW h \in Seq(Entradas), h # << >>
  PROVE  /\ Len(h) \in Nat \ {0} /\ Len(h) \in 1 .. Len(h)
         /\ Last(h) = h[Len(h)] /\ Last(h) \in Entradas /\ Last(h).n \in Nat
<1>1. Len(h) \in Nat \ {0}
  BY Entradas_
<1>2. Last(h) = h[Len(h)]
  BY DEF Last
<1> QED
  BY <1>1, <1>2, Entradas_

(* No transition is left out after the last entry.                          *)
LEMMA FielHastaElFin ==
  ASSUME NEW h \in Seq(Entradas), NEW cs \in Seq(Cambios), Fiel(h, cs)
  PROVE  /\ Last(h).n <= Len(cs)
         /\ \A k \in 1 .. Len(cs) : cs[k].quien # "mano" => k <= Last(h).n
<1> DEFINE n == Len(h)
<1>1. /\ h # << >> /\ n \in Nat \ {0} /\ n \in 1 .. n /\ 1 \in 1 .. n /\ Last(h) = h[n]
      /\ \A i \in 1 .. n : h[i].n \in Nat
  BY UltimaEs, Entradas_ DEF Fiel
<1>2. \A i \in 1 .. n : h[i].n <= h[n].n
  <2> TAKE i \in 1 .. n
  <2>1. CASE i = n
    BY <1>1, <2>1
  <2>2. CASE i # n
    <3>1. i < n
      BY <1>1, <2>2
    <3>2. h[i].n < h[n].n
      BY <1>1, <3>1 DEF Fiel
    <3>3. h[i].n \in Nat /\ h[n].n \in Nat
      BY <1>1
    <3> QED
      BY <3>2, <3>3, Orden
  <2> QED
    BY <2>1, <2>2
<1>3. ASSUME NEW k \in 1 .. Len(cs), cs[k].quien # "mano"
      PROVE  k <= h[n].n
  <2>1. k \in Nat /\ h[1].n \in Nat /\ h[n].n \in Nat /\ h[1].n <= h[n].n
    BY <1>1, <1>2
  <2>2. CASE k > h[1].n
    <3>1. PICK i \in 1 .. n : h[i].n = k
      BY <1>3, <2>2 DEF Fiel
    <3> QED
      BY <1>2, <3>1
  <2>3. CASE ~(k > h[1].n)
    BY <2>1, <2>3
  <2> QED
    BY <2>2, <2>3
<1>4. h[n].n <= Len(cs)
  BY <1>1 DEF Fiel
<1> QED
  BY <1>1, <1>3, <1>4

LEMMA FotoIgual ==
  ASSUME NEW x, NEW y, NEW cs, Foto(x, cs), y.antes = x.antes, y.desde = x.desde
  PROVE  Foto(y, cs)
  BY DEF Foto

LEMMA FotoCrece ==
  ASSUME Tipos, NEW x \in Procesos, Foto(x, cambios), Crece
  PROVE  Foto(x, cambios')
<1>1. Len(cambios) \in Nat /\ Len(cambios') \in Nat /\ x.desde \in Nat
  BY DEF Tipos, Procesos, Crece
<1>2. x.desde <= Len(cambios')
  BY <1>1 DEF Foto, Crece
<1>3. \A k \in 1 .. x.desde : cambios'[k] = cambios[k]
  BY <1>1 DEF Foto, Crece
<1> QED
  BY <1>2, <1>3 DEF Foto

LEMMA FotosSiguen ==
  ASSUME Tipos, Turnos, Fiel(est.hist, cambios), Fotos, Next
  PROVE  Fotos'
<1> DEFINE ahora(k) == run'[k].pc \in Trabajando \cup EnManos => Foto(run'[k], cambios')
<1>0. \A k \in Corridas : run[k].pc \in Trabajando \cup EnManos => Foto(run[k], cambios)
  BY DEF Fotos, Trabajando, EnManos
<1>1. ASSUME NEW r \in Corridas, UNCHANGED cambios,
             \A k \in Corridas \ {r} : run'[k] = run[k],
             \/ run'[r].pc \notin Trabajando \cup EnManos
             \/ /\ run[r].pc \in Trabajando \cup EnManos
                /\ run'[r].antes = run[r].antes /\ run'[r].desde = run[r].desde
             \/ Foto(run'[r], cambios)
      PROVE  Fotos'
  <2>1. ASSUME NEW k \in Corridas \ {r}
        PROVE  ahora(k)
    BY <1>0, <1>1, <2>1
  <2>2. ahora(r)
    BY <1>0, <1>1, FotoIgual
  <2> QED
    BY <2>1, <2>2 DEF Fotos, Trabajando, EnManos
<1>2. ASSUME NEW r \in Corridas, Tramite(r)
      PROVE  Fotos'
  BY <1>1, <1>2, EfectoTramite DEF EfectoDeTramite
<1>3. ASSUME NEW r \in Corridas, Observar(r)
      PROVE  Fotos'
  <2>1. est \in Fichas /\ est.hist \in Seq(Entradas) /\ cambios \in Seq(Cambios) /\ Len(cambios) \in Nat
    BY DEF Tipos, Fichas
  <2>2. /\ run'[r].antes = est /\ run'[r].desde = Len(cambios) /\ UNCHANGED cambios
        /\ run'[r].pc \in {"gate", "soltar", "comprobar"}
        /\ run'[r].pc = "comprobar" => Rol[est.estado] \in Agentes
        /\ \A k \in Corridas \ {r} : run'[k] = run[k]
    BY <1>3, EfectoObservar
  <2>3. CASE run'[r].pc = "comprobar"
    <3> DEFINE x == [antes |-> est, desde |-> Len(cambios)]
    <3>2. /\ Last(est.hist).n <= Len(cambios) /\ est.hist # << >>
          /\ \A k \in 1 .. Len(cambios) : cambios[k].quien # "mano" => k <= Last(est.hist).n
      BY <2>1, FielHastaElFin DEF Fiel
    <3>3. x.antes = est /\ x.desde = Len(cambios) /\ Rol[est.estado] \in Agentes
      BY <2>2, <2>3
    <3> HIDE DEF x
    <3>4. Len(cambios) <= Len(cambios)
      BY <2>1
    <3>5. Foto(x, cambios)
      BY <2>1, <3>2, <3>3, <3>4 DEF Foto
    <3>1. Foto(run'[r], cambios)
      BY <2>2, <3>3, <3>5, FotoIgual
    <3> QED
      BY <1>1, <2>2, <3>1
  <2>4. CASE run'[r].pc # "comprobar"
    <3>1. run'[r].pc \notin Trabajando \cup EnManos
      BY <2>2, <2>4 DEF Trabajando, EnManos
    <3> QED
      BY <1>1, <2>2, <3>1
  <2> QED
    BY <2>3, <2>4
<1>4. ASSUME NEW r \in Corridas, Lanzar(r)
      PROVE  Fotos'
  <2>1. run[r].pc \in Trabajando
    BY <1>4, EfectoLanzar DEF Trabajando
  <2> QED
    BY <1>1, <1>4, <2>1, EfectoLanzar
<1>5. ASSUME NEW r \in Corridas, Esperar(r)
      PROVE  Fotos'
  <2>1. run[r].pc \in EnManos
    BY <1>5, EfectoEsperar DEF EnManos
  <2> QED
    BY <1>1, <1>5, <2>1, EfectoEsperar DEF Mueve
<1>6. ASSUME NEW r \in Corridas, LeerLatch(r)
      PROVE  Fotos'
  <2>1. run[r].pc \in EnManos
    BY <1>6 DEF EnManos, LeerLatch
  <2>2. run[r].ses \in DOMAIN obrero
    BY <2>1 DEF Turnos
  <2>3. obrero[run[r].ses] \in Obreros
    BY <2>2 DEF Tipos
  <2> QED
    BY <1>1, <1>6, <2>1, <2>3, EfectoLeerLatch DEF Mueve
<1>7. ASSUME NEW r \in Corridas, Juzgar(r)
      PROVE  Fotos'
  <2>1. PICK p \in {"observar", "pausa", "soltar"} : Mueve(r, p)
    BY <1>7, EfectoJuzgar
  <2>2. run'[r].pc \notin Trabajando \cup EnManos
    BY <2>1 DEF Mueve, Trabajando, EnManos
  <2>3. UNCHANGED cambios
    BY <1>7, EfectoJuzgar
  <2> QED
    BY <1>1, <2>1, <2>2, <2>3 DEF Mueve
<1>8. ASSUME NEW n \in DOMAIN obrero, Terminar(n) \/ Denegar(n)
      PROVE  Fotos'
  <2>1. UNCHANGED <<run, cambios>>
    BY <1>8, EfectoTerminar, EfectoDenegar
  <2> QED
    BY <2>1 DEF Fotos
<1>9. CASE Mundo
  <2>1. run' = run /\ Crece
    BY <1>9, MundoCrece DEF Mundo
  <2>2. \A k \in Corridas : run[k] \in Procesos
    BY DEF Tipos
  <2>3. \A k \in Corridas : ahora(k)
    BY <1>0, <2>1, <2>2, FotoCrece
  <2> QED
    BY <2>3 DEF Fotos, Trabajando, EnManos
<1> QED
  BY <1>2, <1>3, <1>4, <1>5, <1>6, <1>7, <1>8, <1>9, Pasos_

Hechos(cs, desde) == {k \in desde + 1 .. Len(cs) : cs[k].quien # "mano"}

(* Nothing was done after n, until desde.                                   *)
Quieto(cs, n, desde) == \A k \in 1 .. desde : cs[k].quien # "mano" => k <= n

(* What was done since the snapshot is what the history holds after it.     *)
LEMMA HechosDesde ==
  ASSUME NEW h \in Seq(Entradas), NEW cs \in Seq(Cambios), Fiel(h, cs),
         NEW desde \in Nat, NEW i \in 1 .. Len(h), h[i].n <= desde,
         Quieto(cs, h[i].n, desde)
  PROVE  /\ \A j \in i + 1 .. Len(h) : h[j].n \in Hechos(cs, desde)
         /\ \A k \in Hechos(cs, desde) : \E j \in i + 1 .. Len(h) : h[j].n = k
<1> DEFINE n == Len(h)
           m == Len(cs)
<1>1. /\ n \in Nat \ {0} /\ m \in Nat /\ 1 \in 1 .. n /\ i \in Nat
      /\ \A j \in 1 .. n : h[j].n \in Nat /\ h[j].n <= m
  BY Entradas_ DEF Fiel
<1>2. /\ \A a, b \in 1 .. n : a < b => h[a].n < h[b].n
      /\ \A j \in 1 .. n : h[j].n > 0 => cs[h[j].n].quien # "mano"
      /\ \A k \in 1 .. m : cs[k].quien # "mano" /\ k > h[1].n => \E j \in 1 .. n : h[j].n = k
  BY DEF Fiel
<1> HIDE DEF n, m
<1>3. ASSUME NEW j \in i + 1 .. n
      PROVE  h[j].n \in desde + 1 .. m /\ cs[h[j].n].quien # "mano"
  <2>1. j \in 1 .. n /\ i \in 1 .. n /\ i < j
    BY <1>1, <1>3 DEF n
  <2>2. h[i].n < h[j].n /\ h[j].n \in Nat /\ h[i].n \in Nat /\ h[j].n <= m
    BY <1>1, <1>2, <2>1
  <2>3. h[j].n > 0
    <3>1. h[i].n \in Nat /\ h[j].n \in Nat /\ h[i].n < h[j].n
      BY <2>2
    <3> QED
      BY <3>1, Orden
  <2>4. cs[h[j].n].quien # "mano"
    BY <1>2, <2>1, <2>3
  <2>5. ~(h[j].n <= desde)
    <3>1. SUFFICES ASSUME h[j].n <= desde
                   PROVE  FALSE
      OBVIOUS
    <3>2. h[j].n \in 1 .. desde
      BY <2>2, <2>3, <3>1
    <3>3. h[j].n <= h[i].n
      BY <2>4, <3>2 DEF Quieto
    <3> QED
      BY <2>2, <3>3
  <2>6. h[j].n > desde
    BY <2>2, <2>5
  <2>7. m \in Nat
    BY <1>1
  <2>8. h[j].n \in desde + 1 .. m
    BY <2>2, <2>6, <2>7
  <2> QED
    BY <2>4, <2>8
<1>4. ASSUME NEW k \in desde + 1 .. m, cs[k].quien # "mano"
      PROVE  \E j \in i + 1 .. n : h[j].n = k
  <2>1. k \in 1 .. m /\ k \in Nat /\ k > h[i].n /\ h[i].n \in Nat /\ h[1].n \in Nat
    <3>1. k \in 1 .. m /\ k \in Nat /\ k > desde
      BY <1>1, <1>4
    <3>2. i \in 1 .. n
      BY DEF n
    <3>3. h[i].n \in Nat /\ h[1].n \in Nat
      BY <1>1, <3>2
    <3> QED
      BY <3>1, <3>3
  <2>2. h[1].n <= h[i].n
    <3>1. CASE i = 1
      BY <2>1, <3>1
    <3>2. CASE i # 1
      <4>1. 1 < i /\ i \in 1 .. n
        BY <1>1, <3>2 DEF n
      <4>2. h[1].n < h[i].n
        BY <1>1, <1>2, <4>1
      <4> QED
        BY <2>1, <4>2
    <3> QED
      BY <3>1, <3>2
  <2>3. k > h[1].n
    BY <2>1, <2>2, MayorQue, Zenon
  <2>4. PICK j \in 1 .. n : h[j].n = k
    BY <1>2, <1>4, <2>1, <2>3
  <2>5. j > i
    <3>1. ASSUME j < i
          PROVE  FALSE
      <4>1. i \in 1 .. n
        BY DEF n
      <4>2. h[j].n < h[i].n
        BY <1>2, <3>1, <4>1
      <4> QED
        BY <2>1, <2>4, <4>2
    <3>2. j # i
      BY <2>1, <2>4
    <3> QED
      BY <1>1, <3>1, <3>2
  <2>6. j \in i + 1 .. n
    BY <1>1, <2>4, <2>5
  <2> QED
    BY <2>4, <2>6
<1> QED
  BY <1>3, <1>4 DEF n, m, Hechos

(* What validate_progress asks of the new entries, said of the history.     *)
Enlazado(h, i, rol, de, a) ==
  /\ i + 1 \in 1 .. Len(h) /\ h[i + 1].de = de /\ h[Len(h)].a = a
  /\ \A j \in i + 1 .. Len(h) - 1 : h[j].a = h[j + 1].de
  /\ \A j \in i + 1 .. Len(h) : Rol[h[j].de] \in {rol, "system"} /\ h[j].ses = h[i + 1].ses

LEMMA ProgresoEnlazado ==
  ASSUME NEW antes \in Fichas, antes.hist # << >>, NEW e \in Fichas, NEW rol,
         validate_progress(antes, e, rol), new_entries(antes, e) # << >>
  PROVE  \E i \in 1 .. Len(e.hist) :
           e.hist[i] = Last(antes.hist) /\ Enlazado(e.hist, i, rol, antes.estado, e.estado)
<1> DEFINE h == e.hist
           n == Len(h)
           i == CHOOSE i \in DOMAIN h : h[i] = Ultima(antes)
           es == new_entries(antes, e)
<1>1. h \in Seq(Entradas) /\ n \in Nat /\ antes.hist \in Seq(Entradas) /\ DOMAIN h = 1 .. n
  BY DEF Fichas
<1>2. Ultima(antes) = Last(antes.hist) /\ Ultima(antes) \in Entradas /\ Ultima(antes) # Nada
  <2>1. Ultima(antes) = Last(antes.hist) /\ Ultima(antes) \in Entradas
    BY <1>1, UltimaEs DEF Ultima
  <2> QED
    BY <2>1 DEF Entradas
<1>3. \E j \in DOMAIN h : h[j] = Ultima(antes)
  BY <1>2 DEF validate_progress, Continua
<1>4. i \in 1 .. n /\ h[i] = Ultima(antes)
  BY <1>1, <1>3
<1>5. es = SubSeq(h, i + 1, n) /\ es # << >>
  BY <1>2 DEF new_entries
<1>6. /\ es[1].de = antes.estado /\ Last(es).a = e.estado
      /\ \A q \in 1 .. Len(es) - 1 : es[q].a = es[q + 1].de
      /\ \A q \in DOMAIN es : Rol[es[q].de] \in {rol, "system"}
      /\ \A q \in DOMAIN es : es[q].ses = es[1].ses
  BY <1>5 DEF validate_progress, SuRol
<1> HIDE DEF i, es, h, n
<1>7. /\ es \in Seq(Entradas) /\ Len(es) = n - i
      /\ \A q \in 1 .. n - i : es[q] = h[i + q]
  <2>1. i + 1 \in 1 .. n + 1 /\ n \in i .. n
    BY <1>1, <1>4
  <2>2. /\ SubSeq(h, i + 1, n) \in Seq(Entradas)
        /\ Len(SubSeq(h, i + 1, n)) = IF i + 1 <= n THEN n - (i + 1) + 1 ELSE 0
        /\ \A q \in 1 .. n - (i + 1) + 1 : SubSeq(h, i + 1, n)[q] = h[(i + 1) + q - 1]
    BY <1>1, <1>4, SubSeqProperties DEF n
  <2>3. (IF i + 1 <= n THEN n - (i + 1) + 1 ELSE 0) = n - i /\ n - (i + 1) + 1 = n - i
    BY <1>1, <1>4
  <2>4. \A q \in 1 .. n - i : (i + 1) + q - 1 = i + q
    BY <1>1, <1>4
  <2> QED
    BY <1>5, <2>2, <2>3, <2>4
<1>8. n - i \in Nat \ {0} /\ DOMAIN es = 1 .. n - i /\ Last(es) = es[n - i]
  <2>1. es \in Seq(Entradas) /\ es # << >>
    BY <1>5, <1>7
  <2>2. Len(es) \in Nat \ {0} /\ Last(es) = es[Len(es)]
    BY <2>1, UltimaEs
  <2> QED
    BY <1>7, <2>1, <2>2
<1>9. i + 1 \in 1 .. n /\ es[1] = h[i + 1] /\ es[n - i] = h[n]
  <2>1. i + 1 \in 1 .. n /\ 1 \in 1 .. n - i /\ n - i \in 1 .. n - i /\ i + (n - i) = n
    BY <1>1, <1>4, <1>8
  <2> QED
    BY <1>7, <2>1
<1>10. \A j \in i + 1 .. n : j - i \in 1 .. n - i /\ es[j - i] = h[j]
  <2>1. \A j \in i + 1 .. n : j - i \in 1 .. n - i /\ i + (j - i) = j
    BY <1>1, <1>4
  <2> QED
    BY <1>7, <2>1
<1>11. \A j \in i + 1 .. n - 1 : h[j].a = h[j + 1].de
  <2> TAKE j \in i + 1 .. n - 1
  <2>1. /\ j \in i + 1 .. n /\ j + 1 \in i + 1 .. n /\ j - i \in 1 .. Len(es) - 1
        /\ (j - i) + 1 = (j + 1) - i
    BY <1>1, <1>4, <1>7
  <2>2. es[j - i].a = es[(j - i) + 1].de
    BY <1>6, <2>1
  <2> QED
    BY <1>10, <2>1, <2>2
<1>12. \A j \in i + 1 .. n : Rol[h[j].de] \in {rol, "system"} /\ h[j].ses = h[i + 1].ses
  <2> TAKE j \in i + 1 .. n
  <2>1. j - i \in DOMAIN es /\ es[j - i] = h[j]
    BY <1>8, <1>10
  <2>2. Rol[es[j - i].de] \in {rol, "system"} /\ es[j - i].ses = es[1].ses
    BY <1>6, <2>1
  <2> QED
    BY <1>9, <2>1, <2>2
<1>13. Enlazado(h, i, rol, antes.estado, e.estado)
  BY <1>6, <1>8, <1>9, <1>11, <1>12 DEF Enlazado, n
<1> QED
  BY <1>2, <1>4, <1>13 DEF h, n

(* What TurnoVeraz says of the turn that goes from state de to state a.     *)
Veraz(cs, desde, rol, de, a) ==
  LET hechos == Hechos(cs, desde) IN
  /\ \E k \in hechos : cs[k].de = de /\ \A j \in hechos : k <= j
  /\ \E k \in hechos : cs[k].a = a /\ \A j \in hechos : j <= k
  /\ \A k, j \in hechos : k < j /\ (k + 1 .. j - 1) \cap hechos = {} => cs[k].a = cs[j].de
  /\ \A k \in hechos : cs[k].quien = "obrero" /\ Rol[cs[k].de] \in {rol, "system"}
  /\ \A k, j \in hechos : cs[k].ses = cs[j].ses

LEMMA EnlazadoVeraz ==
  ASSUME NEW h \in Seq(Entradas), NEW cs \in Seq(Cambios), Fiel(h, cs),
         NEW desde \in Nat, NEW i \in 1 .. Len(h), h[i].n <= desde,
         Quieto(cs, h[i].n, desde),
         \A k \in 1 .. Len(cs) : cs[k].quien # "mano" =>
           (cs[k].quien = "obrero" <=> Rol[cs[k].de] # "human"),
         NEW rol \in Agentes, NEW de, NEW a, Enlazado(h, i, rol, de, a)
  PROVE  Veraz(cs, desde, rol, de, a)
<1> DEFINE n == Len(h)
           hechos == Hechos(cs, desde)
           js == i + 1 .. n
<1>1. /\ \A j \in js : h[j].n \in hechos
      /\ \A k \in hechos : \E j \in js : h[j].n = k
  <2>1. /\ \A j \in i + 1 .. Len(h) : h[j].n \in Hechos(cs, desde)
        /\ \A k \in Hechos(cs, desde) : \E j \in i + 1 .. Len(h) : h[j].n = k
    BY HechosDesde
  <2> QED
    BY <2>1
<1>2. /\ n \in Nat \ {0} /\ i \in Nat /\ js \subseteq 1 .. n /\ Len(cs) \in Nat
      /\ \A j \in 1 .. n : h[j].n \in Nat
  BY Entradas_ DEF Fiel
<1>3. i + 1 \in js /\ n \in js
  BY <1>2 DEF Enlazado
<1>4. \A k \in hechos : k \in 1 .. Len(cs) /\ k \in Nat /\ cs[k].quien # "mano"
  BY <1>2 DEF Hechos
<1>5. \A p, q \in js : p < q => h[p].n < h[q].n
  BY <1>2 DEF Fiel
<1>6. ASSUME NEW j \in js
      PROVE  LET c == cs[h[j].n] IN c.de = h[j].de /\ c.a = h[j].a /\ c.ses = h[j].ses
  <2>1. j \in 1 .. n /\ h[j].n \in Nat
    BY <1>2, <1>6
  <2>2. h[j].n > 0
    <3>1. h[j].n \in 1 .. Len(cs)
      BY <1>1, <1>4, <1>6
    <3> QED
      BY <3>1
  <2> QED
    BY <2>1, <2>2 DEF Fiel
<1>7. /\ h[i + 1].de = de /\ h[n].a = a
      /\ \A j \in i + 1 .. n - 1 : h[j].a = h[j + 1].de
      /\ \A j \in js : Rol[h[j].de] \in {rol, "system"} /\ h[j].ses = h[i + 1].ses
  BY DEF Enlazado
<1> HIDE DEF n, hechos
<1>8. \A p, q \in js : p <= q => h[p].n <= h[q].n
  <2> TAKE p \in js, q \in js
  <2> HAVE p <= q
  <2>1. h[p].n \in Nat /\ h[q].n \in Nat
    BY <1>2
  <2>2. CASE p = q
    BY <2>1, <2>2
  <2>3. CASE p # q
    <3>1. p < q
      BY <1>2, <2>3
    <3>2. h[p].n < h[q].n
      BY <1>5, <3>1
    <3> QED
      BY <2>1, <3>2, Orden
  <2> QED
    BY <2>2, <2>3
<1>9. \E k \in hechos : cs[k].de = de /\ \A j \in hechos : k <= j
  <2>1. \A q \in js : i + 1 <= q
    BY <1>2
  <2>2. \A j \in hechos : h[i + 1].n <= j
    <3> TAKE j \in hechos
    <3>1. PICK q \in js : h[q].n = j
      BY <1>1
    <3>2. h[i + 1].n <= h[q].n
      BY <1>3, <1>8, <2>1
    <3> QED
      BY <3>1, <3>2
  <2> QED
    BY <1>1, <1>3, <1>6, <1>7, <2>2
<1>10. \E k \in hechos : cs[k].a = a /\ \A j \in hechos : j <= k
  <2>1. \A q \in js : q <= n
    BY <1>2
  <2>2. \A j \in hechos : j <= h[n].n
    <3> TAKE j \in hechos
    <3>1. PICK q \in js : h[q].n = j
      BY <1>1
    <3>2. h[q].n <= h[n].n
      BY <1>3, <1>8, <2>1
    <3> QED
      BY <3>1, <3>2
  <2> QED
    BY <1>1, <1>3, <1>6, <1>7, <2>2
<1>11. ASSUME NEW k \in hechos, NEW j \in hechos, k < j, (k + 1 .. j - 1) \cap hechos = {}
       PROVE  cs[k].a = cs[j].de
  <2>1. PICK p \in js : h[p].n = k
    BY <1>1
  <2>2. PICK q \in js : h[q].n = j
    BY <1>1
  <2>3. p \in Nat /\ q \in Nat /\ k \in Nat /\ j \in Nat
    BY <1>2, <1>4
  <2>4. p < q
    <3>1. ASSUME q <= p
          PROVE  FALSE
      <4>1. j <= k
        BY <1>8, <2>1, <2>2, <3>1
      <4> QED
        BY <1>11, <2>3, <4>1
    <3> QED
      BY <2>3, <3>1
  <2>5. q = p + 1
    <3>1. ASSUME p + 1 < q
          PROVE  FALSE
      <4>1. p + 1 \in js /\ p < p + 1
        BY <1>2, <2>3, <3>1
      <4>2. k < h[p + 1].n /\ h[p + 1].n < j
        BY <1>5, <2>1, <2>2, <3>1, <4>1
      <4>3. h[p + 1].n \in hechos /\ h[p + 1].n \in Nat
        BY <1>1, <1>4, <4>1
      <4>5. ASSUME NEW z \in Nat, k < z, z < j
            PROVE  z \in k + 1 .. j - 1
        BY <2>3, <4>5, EntreLosDos, Zenon
      <4>4. h[p + 1].n \in k + 1 .. j - 1
        BY <4>2, <4>3, <4>5
      <4> QED
        BY <1>11, <4>3, <4>4
    <3> QED
      BY <2>3, <2>4, <3>1
  <2>6. p \in i + 1 .. n - 1
    BY <1>2, <2>3, <2>5
  <2>7. h[p].a = h[q].de
    BY <1>7, <2>5, <2>6
  <2> QED
    BY <1>6, <2>1, <2>2, <2>7
<1>12. \A k \in hechos : cs[k].quien = "obrero" /\ Rol[cs[k].de] \in {rol, "system"}
  <2> TAKE k \in hechos
  <2>1. PICK j \in js : h[j].n = k
    BY <1>1
  <2>2. Rol[cs[k].de] \in {rol, "system"}
    BY <1>6, <1>7, <2>1
  <2>3. Rol[cs[k].de] # "human"
    BY <2>2 DEF Agentes
  <2> QED
    BY <1>4, <2>2, <2>3
<1>13. \A k \in hechos : cs[k].ses = h[i + 1].ses
  <2> TAKE k \in hechos
  <2>1. PICK j \in js : h[j].n = k
    BY <1>1
  <2>2. cs[k].ses = h[j].ses
    BY <1>6, <2>1
  <2> QED
    BY <1>7, <2>2
<1> QED
  BY <1>9, <1>10, <1>11, <1>12, <1>13 DEF Veraz, hechos

LEMMA JuzgarVeraz ==
  ASSUME Tipos, Turnos, Fiel(est.hist, cambios), Actores, Fotos, NEW r \in Corridas, Juzgar(r),
         obrero'[run[r].ses].res \in {"completed", "human_required"}
  PROVE  Veraz(cambios, run[r].desde, Rol[run[r].antes.estado], run[r].antes.estado, est.estado)
<1> DEFINE x == run[r]
           rol == Rol[x.antes.estado]
<1>1. x \in Procesos /\ est \in Fichas /\ cambios \in Seq(Cambios) /\ est.hist \in Seq(Entradas)
  BY DEF Tipos, Fichas
<1>2. x.pc = "juzgar" /\ Resultado(x, rol) \in {"completed", "human_required"}
  BY EfectoJuzgar
<1>3. Foto(x, cambios)
  BY <1>2 DEF Fotos
<1>4. validate_progress(x.antes, est, rol) /\ new_entries(x.antes, est) # << >>
  BY <1>1, <1>2, ResultadoEs
<1>5. x.desde \in Nat
  BY <1>1 DEF Procesos
<1> HIDE DEF x
<1>6. /\ x.antes \in Fichas /\ x.antes.hist # << >> /\ rol \in Agentes
      /\ Last(x.antes.hist).n <= x.desde
      /\ \A k \in 1 .. x.desde : cambios[k].quien # "mano" => k <= Last(x.antes.hist).n
  BY <1>3 DEF Foto
<1>7. PICK i \in 1 .. Len(est.hist) :
        est.hist[i] = Last(x.antes.hist) /\ Enlazado(est.hist, i, rol, x.antes.estado, est.estado)
  BY <1>1, <1>4, <1>6, ProgresoEnlazado
<1>8. \A k \in 1 .. Len(cambios) : cambios[k].quien # "mano" =>
        (cambios[k].quien = "obrero" <=> Rol[cambios[k].de] # "human")
  BY DEF Actores, Hecho
<1> HIDE DEF rol
<1>9. Veraz(cambios, x.desde, rol, x.antes.estado, est.estado)
  <2>1. est.hist[i].n <= x.desde /\ Quieto(cambios, est.hist[i].n, x.desde)
    BY <1>6, <1>7 DEF Quieto
  <2> QED
    BY <1>1, <1>5, <1>6, <1>7, <1>8, <2>1, EnlazadoVeraz
<1> QED
  BY <1>9 DEF x, rol

LEMMA InitHistoria == Init => Fiel(est.hist, cambios) /\ Actores /\ Fotos
<1> SUFFICES ASSUME Init
             PROVE  Fiel(est.hist, cambios) /\ Actores /\ Fotos
  OBVIOUS
<1>1. cambios = << >> /\ Len(cambios) = 0
  BY DEF Init
<1>2. /\ Len(est.hist) = 1 /\ est.hist # << >> /\ est.hist[1].n = 0
  BY DEF Init, EstInicial
<1>3. Fiel(est.hist, cambios)
  BY <1>1, <1>2 DEF Fiel
<1>4. Actores
  BY <1>1 DEF Actores
<1>5. \A r \in Corridas : run[r].pc \in {"muerto", "fuera"}
  BY ProcesoEs DEF Init, Pasos
<1>6. Fotos
  BY <1>5 DEF Fotos
<1> QED
  BY <1>3, <1>4, <1>6

LEMMA QuietosSiguen ==
  ASSUME Tipos, Turnos, Fiel(est.hist, cambios), Actores, Next, ~Mundo
  PROVE  Fiel(est.hist, cambios)' /\ Actores'
<1>1. UNCHANGED <<est, cambios>>
  <2>1. ASSUME NEW r \in Corridas, LeerLatch(r)
        PROVE  UNCHANGED <<est, cambios>>
    BY <2>1 DEF LeerLatch, Solo
  <2> QED
    BY <2>1, Pasos_, EfectoTramite, EfectoObservar, EfectoLanzar, EfectoEsperar, EfectoJuzgar,
       EfectoTerminar, EfectoDenegar DEF EfectoDeTramite
<1> QED
  BY <1>1 DEF Actores, Hecho

Historia == Fiel(est.hist, cambios) /\ Actores /\ Fotos

LEMMA PasoHistoria ==
  ASSUME Tipos, Denegaciones, Historia, [Next]_vars
  PROVE  Historia'
<1>1. CASE Next
  <2>1. Fiel(est.hist, cambios)' /\ Actores'
    BY <1>1, FielSigue, ActoresSiguen, QuietosSiguen DEF Historia, Denegaciones
  <2>2. Fotos'
    BY <1>1, FotosSiguen DEF Historia, Denegaciones
  <2> QED
    BY <2>1, <2>2 DEF Historia
<1>2. CASE UNCHANGED vars
  BY <1>2 DEF vars, Historia, Actores, Hecho, Fotos
<1> QED
  BY <1>1, <1>2

(* Whatever the transitions, the edits by hand, the length at which the      *)
(* history is cut and what other workers left running: a turn that run_turn *)
(* calls completed or human_required is, in what was really done to          *)
(* state.json, an unbroken chain of transitions of one agent and one         *)
(* session, from the snapshot to what was read at the end.                  *)
THEOREM TurnoSiempreVeraz == Spec => TurnoVeraz
<1>1. Init => Tipos /\ Denegaciones /\ Historia
  BY InitTipos, InitDenegaciones, InitHistoria DEF Historia
<1>2. Tipos /\ Denegaciones /\ Historia /\ [Next]_vars => (Tipos /\ Denegaciones /\ Historia)'
  BY PasoDenegaciones, PasoHistoria
<1>3. ASSUME Tipos, Denegaciones, Historia, NEW r \in Corridas, Juzgar(r),
             obrero'[run[r].ses].res \in {"completed", "human_required"}
      PROVE  Veraz(cambios, run[r].desde, Rol[run[r].antes.estado], run[r].antes.estado, est.estado)
  BY <1>3, JuzgarVeraz DEF Denegaciones, Historia
<1>4. Tipos /\ Denegaciones /\ Historia =>
        [\A r \in Corridas :
           LET hechos == {i \in run[r].desde + 1 .. Len(cambios) : cambios[i].quien # "mano"}
               rol == Rol[run[r].antes.estado] IN
           Juzgar(r) /\ obrero'[run[r].ses].res \in {"completed", "human_required"} =>
             /\ \E i \in hechos : cambios[i].de = run[r].antes.estado /\ \A j \in hechos : i <= j
             /\ \E i \in hechos : cambios[i].a = est.estado /\ \A j \in hechos : j <= i
             /\ \A i, j \in hechos :
                  i < j /\ (i + 1 .. j - 1) \cap hechos = {} => cambios[i].a = cambios[j].de
             /\ \A i \in hechos : cambios[i].quien = "obrero" /\ Rol[cambios[i].de] \in {rol, "system"}
             /\ \A i, j \in hechos : cambios[i].ses = cambios[j].ses]_vars
  BY <1>3, Zenon DEF Veraz, Hechos
<1> QED
  BY <1>1, <1>2, <1>4, PTL DEF Spec, TurnoVeraz

=============================================================================
