---------------------------- MODULE HarnessRunner ----------------------------
(***************************************************************************)
(* The programs that run the harness unattended: supervisor.py and, on top *)
(* of it, orchestrator.py.  A run takes the lock, reads state.json, and    *)
(* launches one worker session after another, each judged by what it left  *)
(* in state.json, until a human has to decide or something is wrong.       *)
(*                                                                         *)
(* What surrounds the run does as it likes: a worker runs any transition   *)
(* that its state declares, under whatever session it says, may be denied, *)
(* may edit state.json by hand and may leave processes behind when it is   *)
(* killed; a human acts in another terminal at any time.  The guards of    *)
(* the transitions, but the one that compares sessions, may hold or not.   *)
(***************************************************************************)
EXTENDS HarnessStates, Integers, FiniteSets

CONSTANTS
  Corridas,      \* executions of `run`
  Muertas,       \* those that were killed before, with a worker and the lock
  Corredor,      \* of each: orq (orchestrator.py), ui (there is a terminal)
  Runtimes, RuntimeDe, Capaces,  \* supervisor.yaml: roles; deploy_capable_runtimes
  Tareas, Humanos,               \* tasks, those with human criteria
  Iniciales,     \* states to start from
  MAX_TURNS, MAX_PROMPTS, MAX_ATTEMPTS,
  HISTORIA,      \* entries that state.json keeps (20)
  MaxCambios,    \* bound on the transitions and the edits
  MaxManos,      \* bound on the edits by hand
  MaxMuertes,    \* bound on the runs that are killed, with those before
  Nada

ASSUME RunnerAssumption ==
  /\ {MAX_TURNS, MAX_PROMPTS, MAX_ATTEMPTS, HISTORIA} \subseteq Nat \ {0}
  /\ {MaxCambios, MaxManos, MaxMuertes} \subseteq Nat
  /\ RuntimeDe \in [{"developer", "reviewer", "deployer"} -> Runtimes \cup {Nada}]
  /\ Muertas \subseteq Corridas /\ IsFiniteSet(Muertas)
  /\ Iniciales \subseteq Estados /\ (Tareas # {} \/ Iniciales \subseteq {"IDLE"})
  /\ Nada \notin [n : Nat, de : Estados \cup {Nada}, a : Estados, rt : Runtimes \cup {Nada},
                  ses : Nat \cup {Nada}]

VARIABLES
  est,       \* harness/state.json and the id in tasks/current.yaml
  candado,   \* run.lock: who created it, and whether its pid is in it
  run,       \* the runs
  obrero,    \* the workers, in the order of their launch; a session is its position;
             \* res: the outcome in its sessions/<id>.json
  cambios    \* history: who really changed state.json, read by the properties only

vars == <<est, candado, run, obrero, cambios>>

Agentes == {"developer", "reviewer", "deployer"}

DEPLOY_STATES == {"PREPARING_DEPLOYMENT", "DEPLOYING", "VERIFYING", "DEPLOY_FAILED",
                  "VERIFY_FAILED", "ROLLING_BACK"}

(* aws.state_modes: the agent of these states is given access to AWS.       *)
ConAws == DEPLOY_STATES \cup {"CANDIDATE_REVIEW"}

-----------------------------------------------------------------------------
(***************************************************************************)
(* state.json and those who change it.                                     *)
(***************************************************************************)
(* An entry of the history; its time makes it unlike any other.             *)
Entrada(t, rt, ses) == [n |-> Len(cambios) + 1, de |-> t.de, a |-> t.a, rt |-> rt, ses |-> ses]

Ultima(e) == IF e.hist = <<>> THEN Nada ELSE Last(e.hist)

Cierra(t) == t.efs \cap {"close_task", "cancel_task"} # {}

(* Those that worked before are no worker of these runs.                    *)
SesionesPrevias(s) ==
  [developer |-> IF s = "IDLE" THEN Nada ELSE 0,
   reviewer |-> IF Rol[s] = "deployer" THEN -1 ELSE Nada,
   deployer |-> IF Rol[s] = "deployer" THEN -2 ELSE Nada]

SinSesiones == [r \in Agentes |-> Nada]

Aplicar(e, t, entrada) ==
  [e EXCEPT
     !.estado = t.a,
     !.hist = Append(SubSeq(@, IF Len(@) < HISTORIA THEN 1 ELSE Len(@) + 2 - HISTORIA, Len(@)),
                     entrada),
     !.tarea = IF Cierra(t) THEN Nada ELSE IF "bind_task" \in t.efs THEN e.ficha ELSE @,
     !.ficha = IF Cierra(t) THEN Nada ELSE @,
     !.ses = IF Cierra(t) \/ "bind_task" \in t.efs THEN SinSesiones
             ELSE IF "record_session" \in t.efs THEN [@ EXCEPT ![Rol[t.de]] = entrada.ses]
             ELSE @,
     !.aceptada = @ /\ ~Cierra(t) /\ t.efs \cap {"bind_task", "reset_release"} = {}]

Anota(quien, de, a, ses) ==
  cambios' = Append(cambios, [quien |-> quien, de |-> de, a |-> a, ses |-> ses])

Activo(n) == obrero[n].vivo \/ obrero[n].hijos

(* apply_transition, run by a process of worker n.                          *)
Transitar(n, t, rt, ses) ==
  /\ Activo(n) /\ est.legible /\ Len(cambios) < MaxCambios
  /\ Rol[t.de] # "human"
  /\ Rol[t.de] = "system" => Ultima(est).ses = ses \* apply_transition closes by itself
  /\ "reviewer_session_independent" \in t.gs => ses # est.ses["developer"]
  /\ Cierra(t) => est.tarea # Nada /\ est.tarea = est.ficha
  /\ est' = Aplicar(est, t, Entrada(t, rt, ses))
  /\ Anota("obrero", t.de, t.a, ses)
  /\ UNCHANGED <<candado, run, obrero>>

(* A process of worker n writes state.json itself: another state, another    *)
(* environment, another task, or nothing that can be read.                  *)
Editar(n) ==
  /\ Activo(n) /\ est.legible
  /\ Len(cambios) < MaxCambios
  /\ Cardinality({i \in DOMAIN cambios : cambios[i].quien = "mano"}) < MaxManos
  /\ \/ \E s \in {"DEVELOPING", "DONE"} \ {est.estado} : est' = [est EXCEPT !.estado = s]
     \/ est' = [est EXCEPT !.entorno = "otro"]
     \/ \E k \in Tareas \ {est.tarea} : est' = [est EXCEPT !.tarea = k]
     \/ est' = [est EXCEPT !.legible = FALSE]
  /\ Anota("mano", Nada, Nada, Nada)
  /\ UNCHANGED <<candado, run, obrero>>

(* approve.py in the terminal of the human.                                 *)
Decidir(t) ==
  /\ est.legible /\ Len(cambios) < MaxCambios
  /\ Rol[t.de] = "human"
  /\ Cierra(t) => est.tarea # Nada /\ est.tarea = est.ficha
  /\ \E k \in IF "bind_task" \in t.efs THEN Tareas ELSE {est.ficha} :
       est' = Aplicar([est EXCEPT !.ficha = k], t, Entrada(t, Nada, Nada))
  /\ Anota("humano", t.de, t.a, Nada)
  /\ UNCHANGED <<candado, run, obrero>>

(* approve.py accept: no transition.                                        *)
Aceptar ==
  /\ est.legible /\ est.estado = "VERIFYING" /\ est.ficha \in Humanos /\ ~est.aceptada
  /\ est' = [est EXCEPT !.aceptada = TRUE]
  /\ UNCHANGED <<candado, run, obrero, cambios>>

(* A guard denies an operation of the worker and leaves it in the latch of   *)
(* its turn (or in guard.log, which the runner reads as well).              *)
Denegar(n) ==
  /\ Activo(n) /\ ~obrero[n].negado
  /\ obrero' = [obrero EXCEPT ![n].negado = TRUE]
  /\ UNCHANGED <<est, candado, run, cambios>>

Terminar(n) ==
  /\ obrero[n].vivo
  /\ \E codigo \in {0, 1} :
       obrero' = [obrero EXCEPT ![n].vivo = FALSE, ![n].codigo = codigo]
  /\ UNCHANGED <<est, candado, run, cambios>>

-----------------------------------------------------------------------------
(***************************************************************************)
(* plan, new_entries, validate_progress.                                   *)
(***************************************************************************)
plan(e) ==
  LET rol == Rol[e.estado] IN
  IF rol \in {"human", "system"} THEN rol
  ELSE IF \/ RuntimeDe[rol] = Nada \/ e.tarea = Nada
          \/ e.estado \in DEPLOY_STATES \cup {"CANDIDATE_REVIEW"} /\ RuntimeDe[rol] \notin Capaces
       THEN "config"
  ELSE "auto"

(* The history since the last transition of the snapshot, unless that one   *)
(* is not there any more.                                                   *)
Continua(antes, despues) ==
  IF Ultima(antes) = Nada THEN TRUE ELSE \E i \in DOMAIN despues.hist : despues.hist[i] = Ultima(antes)

new_entries(antes, despues) ==
  IF Ultima(antes) = Nada THEN despues.hist
  ELSE LET i == CHOOSE i \in DOMAIN despues.hist : despues.hist[i] = Ultima(antes) IN
       SubSeq(despues.hist, i + 1, Len(despues.hist))

(* Faulty variant: any agent may go on where the worker stopped.            *)
SuRol_Cualquiera(rol, s) == Rol[s] # "human"

(* A transition of the worker's role, or the closing by the system.         *)
SuRol(rol, s) == Rol[s] \in {rol, "system"}

(* What happened since the snapshot is a chain of transitions of this role   *)
(* and runtime, by one session that is not the one of another role.         *)
validate_progress(antes, despues, rol) ==
  LET es == new_entries(antes, despues) IN
  /\ Continua(antes, despues)
  /\ despues.entorno = antes.entorno
  /\ es = <<>> => despues.estado = antes.estado /\ despues.tarea = antes.tarea
  /\ es # <<>> =>
       /\ es[1].de = antes.estado /\ Last(es).a = despues.estado
       /\ \A i \in 1 .. Len(es) - 1 : es[i].a = es[i + 1].de
       /\ \A i \in DOMAIN es : SuRol(rol, es[i].de) /\ es[i].rt = RuntimeDe[rol]
       /\ \A i \in DOMAIN es : es[i].ses = es[1].ses
       /\ \A otro \in Agentes \ {rol} : antes.ses[otro] # es[1].ses
       /\ despues.tarea = antes.tarea \/ (despues.estado = "IDLE" /\ despues.tarea = Nada)

acceptance_pending(e) == e.estado = "VERIFYING" /\ ~e.aceptada /\ e.ficha \in Humanos

-----------------------------------------------------------------------------
(***************************************************************************)
(* run_lock.  The file is created and its pid written later; a file without *)
(* pid counts as one of a dead process.                                    *)
(***************************************************************************)
(* What the process of a run holds in memory.                               *)
Proceso(paso) ==
  [pc |-> paso, intentos |-> 1, antes |-> Nada, desde |-> 0, turnos |-> 0, gates |-> 0,
   aceptacion |-> FALSE, libre |-> FALSE, aws |-> 0, ses |-> 0, final |-> Nada, negado |-> FALSE]

Ir(r, paso) == run' = [run EXCEPT ![r].pc = paso]

Arrancar(r) ==
  /\ run[r].pc = "fuera"
  /\ Ir(r, "crear")
  /\ UNCHANGED <<est, candado, obrero, cambios>>

(* O_CREAT | O_EXCL.                                                        *)
CrearCandado(r) ==
  /\ run[r].pc = "crear"
  /\ IF candado = Nada
     THEN candado' = [de |-> r, pid |-> FALSE] /\ Ir(r, "escribir")
     ELSE /\ UNCHANGED candado
          /\ Ir(r, "leer")
  /\ UNCHANGED <<est, obrero, cambios>>

EscribirPid(r) ==
  /\ run[r].pc = "escribir"
  /\ candado' = IF candado # Nada /\ candado.de = r THEN [candado EXCEPT !.pid = TRUE] ELSE candado
  /\ Ir(r, "observar")
  /\ UNCHANGED <<est, obrero, cambios>>

Vive(r) == run[r].pc \notin {"fuera", "muerto", "fin"}

LeerCandado(r) ==
  /\ run[r].pc = "leer"
  /\ Ir(r, IF candado # Nada /\ candado.pid /\ Vive(candado.de) THEN "fin" ELSE "borrar")
  /\ UNCHANGED <<est, candado, obrero, cambios>>

(* It tries twice: the second time it gives up, the file deleted as well.   *)
BorrarCandado(r) ==
  /\ run[r].pc = "borrar"
  /\ candado' = Nada
  /\ run' = [run EXCEPT ![r].pc = IF run[r].intentos = 2 THEN "fin" ELSE "crear",
                         ![r].intentos = 2]
  /\ UNCHANGED <<est, obrero, cambios>>

Soltar(r) ==
  /\ run[r].pc = "soltar"
  /\ candado' = Nada
  /\ run' = [run EXCEPT ![r] = Proceso("fin")]
  /\ UNCHANGED <<est, obrero, cambios>>

-----------------------------------------------------------------------------
(***************************************************************************)
(* The loop: observe, check, launch, wait, judge.                          *)
(***************************************************************************)
Solo(r, cambiado) ==
  run' = [run EXCEPT ![r] = cambiado] /\ UNCHANGED <<est, candado, obrero, cambios>>

(* The snapshot of the turn is taken here.                                  *)
Observar(r) ==
  LET que == IF est.legible THEN plan(est) ELSE "ilegible" IN
  /\ run[r].pc = "observar"
  /\ Solo(r, [run[r] EXCEPT
       !.antes = est, !.desde = Len(cambios), !.aceptacion = FALSE,
       !.pc = CASE que = "human" -> IF Corredor[r].ui THEN "gate" ELSE "soltar"
                [] que = "auto" /\ run[r].turnos < MAX_TURNS -> "comprobar"
                [] OTHER -> "soltar"])

(* The repository, the disk and the runtime are healthy, or not.            *)
Comprobar(r) ==
  /\ run[r].pc = "comprobar"
  /\ \E paso \in {IF Corredor[r].orq THEN "aws" ELSE "lanzar", "soltar"} :
       Solo(r, [run[r] EXCEPT !.pc = paso])

(* aws_check: the session of the human is good, bad or of another account.  *)
ChequearAws(r) ==
  LET n == run[r].aws + 1 IN
  /\ run[r].pc = "aws"
  /\ \/ Solo(r, [run[r] EXCEPT !.pc = "lanzar"])
     \/ run[r].antes.estado \in ConAws /\ Solo(r, [run[r] EXCEPT !.pc = "soltar"])
     \/ /\ run[r].antes.estado \in ConAws
        /\ IF ~Corredor[r].ui \/ n > MAX_ATTEMPTS THEN Solo(r, [run[r] EXCEPT !.pc = "soltar"])
           ELSE Solo(r, [run[r] EXCEPT !.pc = "reautenticar", !.aws = n])

(* aws_gate returns to the check, not to a new look at state.json.          *)
Reautenticar(r) ==
  /\ run[r].pc = "reautenticar"
  /\ \E paso \in {"aws", "soltar"} : Solo(r, [run[r] EXCEPT !.pc = paso])

(* run_turn: a session of its own for every worker.                         *)
Lanzar(r) ==
  /\ run[r].pc = "lanzar"
  /\ obrero' = Append(obrero, [r |-> r, vivo |-> TRUE, hijos |-> FALSE, codigo |-> 0,
                               negado |-> FALSE, res |-> Nada])
  /\ run' = [run EXCEPT ![r].pc = "turno", ![r].turnos = @ + 1, ![r].ses = Len(obrero) + 1]
  /\ UNCHANGED <<est, candado, cambios>>

(* The worker ended, its time is over, or the human interrupts.  What is     *)
(* killed is the process that was launched, and not what that one launched. *)
Esperar(r) ==
  LET n == run[r].ses IN
  /\ run[r].pc = "turno"
  /\ \/ ~obrero[n].vivo /\ UNCHANGED obrero
        /\ run' = [run EXCEPT ![r].pc = "latch", ![r].final = "salio"]
     \/ /\ obrero[n].vivo
        /\ \E h \in BOOLEAN :
             obrero' = [obrero EXCEPT ![n].vivo = FALSE, ![n].hijos = h, ![n].codigo = 1]
        /\ \E f \in {"timeout", "interrumpido"} :
             run' = [run EXCEPT ![r].pc = "latch", ![r].final = f]
  /\ UNCHANGED <<est, candado, cambios>>

(* turn_denials *)
LeerLatch(r) ==
  /\ run[r].pc = "latch"
  /\ Solo(r, [run[r] EXCEPT !.pc = "juzgar", !.negado = obrero[run[r].ses].negado])

(* Faulty variant: progress first, as if a denial mattered only without it. *)
Resultado_ProgresoPrimero(x, rol) ==
  LET antes == x.antes IN
  IF x.final = "interrumpido" THEN "interrupted"
  ELSE IF x.final = "timeout" THEN "timeout"
  ELSE IF ~est.legible \/ ~validate_progress(antes, est, rol) \/ obrero[x.ses].codigo # 0 THEN "failed"
  ELSE IF new_entries(antes, est) # <<>>
       THEN IF Rol[est.estado] = "human" THEN "human_required" ELSE "completed"
  ELSE IF x.negado THEN "blocked_guard"
  ELSE "no_progress"

Resultado(x, rol) ==
  LET antes == x.antes IN
  IF x.final = "interrumpido" THEN "interrupted"
  ELSE IF x.negado THEN "blocked_guard"
  ELSE IF x.final = "timeout" THEN "timeout"
  ELSE IF ~est.legible \/ ~validate_progress(antes, est, rol) \/ obrero[x.ses].codigo # 0 THEN "failed"
  ELSE IF new_entries(antes, est) = <<>> THEN "no_progress"
  ELSE IF Rol[est.estado] = "human" THEN "human_required"
  ELSE "completed"

(* The end of run_turn: state.json is read, and the outcome recorded.       *)
Juzgar(r) ==
  LET x == run[r]
      rol == Rol[x.antes.estado]
      res == Resultado(x, rol) IN
  /\ x.pc = "juzgar"
  /\ obrero' = [obrero EXCEPT ![x.ses].res = res]
  /\ run' = [run EXCEPT
       ![r].pc = CASE res \in {"completed", "human_required"} -> "observar"
                   [] res = "no_progress" /\ Corredor[r].ui /\ x.antes.estado = "VERIFYING" -> "pausa"
                   [] OTHER -> "soltar",
       ![r].aws = IF res \in {"completed", "human_required"} THEN 0 ELSE @]
  /\ UNCHANGED <<est, candado, cambios>>

(* _acceptance_pause: the deployer waits for the human to accept.           *)
Pausar(r) ==
  /\ run[r].pc = "pausa"
  /\ IF est.legible /\ acceptance_pending(est)
     THEN Solo(r, [run[r] EXCEPT !.pc = "gate", !.aceptacion = TRUE, !.aws = 0])
     ELSE Solo(r, [run[r] EXCEPT !.pc = "soltar"])

-----------------------------------------------------------------------------
(***************************************************************************)
(* The gates of the orchestrator.                                          *)
(***************************************************************************)
(* Faulty variant: prompts without end.                                     *)
PrepararGate_SinLimite(r) ==
  /\ run[r].pc = "gate"
  /\ IF ~est.legible \/ (~run[r].aceptacion /\ Rol[est.estado] # "human")
     THEN Solo(r, [run[r] EXCEPT !.pc = "soltar"])
     ELSE Solo(r, [run[r] EXCEPT !.pc = "preguntar"])

(* gate_prepare reads state.json again; one that is no gate any more stops. *)
PrepararGate(r) ==
  /\ run[r].pc = "gate"
  /\ IF \/ run[r].gates = MAX_PROMPTS \/ ~est.legible
        \/ ~run[r].aceptacion /\ Rol[est.estado] # "human"
     THEN Solo(r, [run[r] EXCEPT !.pc = "soltar"])
     ELSE Solo(r, [run[r] EXCEPT !.pc = "preguntar", !.gates = @ + 1,
                                 !.libre = ~run[r].aceptacion /\ est.estado = "IDLE"])

(* The human leaves, goes on, or at IDLE asks to write a new task.          *)
Preguntar(r) ==
  /\ run[r].pc = "preguntar"
  /\ \E paso \in {"soltar", "observar"} \cup (IF run[r].libre THEN {"entrevista"} ELSE {}) :
       Solo(r, [run[r] EXCEPT !.pc = paso])

(* intake_ask and intake_commit: cancelled, or a draft or its errors shown. *)
Entrevistar(r) ==
  /\ run[r].pc = "entrevista"
  /\ \E paso \in {"observar", "mostrar"} : Solo(r, [run[r] EXCEPT !.pc = paso])

MostrarBorrador(r) ==
  /\ run[r].pc = "mostrar"
  /\ \E paso \in {"observar", "soltar"} : Solo(r, [run[r] EXCEPT !.pc = paso])

-----------------------------------------------------------------------------
(* Ctrl+C outside a turn.                                                   *)
Interrumpir(r) ==
  /\ run[r].pc \in {"observar", "comprobar", "aws", "reautenticar", "gate", "preguntar",
                    "entrevista", "mostrar"}
  /\ Ir(r, "soltar")
  /\ UNCHANGED <<est, candado, obrero, cambios>>

(* The process of a run is killed: its lock and its worker stay.            *)
Morir(r) ==
  /\ Vive(r) /\ Cardinality({q \in Corridas : run[q].pc = "muerto"}) < MaxMuertes
  /\ run' = [run EXCEPT ![r] = Proceso("muerto")]
  /\ UNCHANGED <<est, candado, obrero, cambios>>

EstInicial(s) ==
  LET tarea == IF s = "IDLE" THEN Nada ELSE CHOOSE k \in Tareas : TRUE IN
  [estado |-> s, tarea |-> tarea, ficha |-> tarea, entorno |-> "dev", legible |-> TRUE,
   hist |-> <<[n |-> 0, de |-> Nada, a |-> s, rt |-> Nada, ses |-> Nada]>>,
   ses |-> SesionesPrevias(s), aceptada |-> FALSE]

Init ==
  /\ \E s \in Iniciales : est = EstInicial(s)
  /\ candado \in IF Muertas = {} THEN {Nada} ELSE [de : Muertas, pid : BOOLEAN]
  /\ obrero = [n \in 1 .. Cardinality(Muertas) |->
                 [r |-> SetToSeq(Muertas)[n], vivo |-> TRUE, hijos |-> FALSE, codigo |-> 0,
                  negado |-> FALSE, res |-> Nada]]
  /\ cambios = <<>>
  /\ run = [r \in Corridas |-> Proceso(IF r \in Muertas THEN "muerto" ELSE "fuera")]

Paso(r) ==
  \/ CrearCandado(r) \/ EscribirPid(r) \/ LeerCandado(r) \/ BorrarCandado(r) \/ Soltar(r)
  \/ Observar(r) \/ Comprobar(r) \/ ChequearAws(r) \/ Reautenticar(r) \/ Lanzar(r)
  \/ Esperar(r) \/ LeerLatch(r) \/ Juzgar(r) \/ Pausar(r)
  \/ PrepararGate(r) \/ Preguntar(r) \/ Entrevistar(r) \/ MostrarBorrador(r)

Desde == [s \in Estados |-> {t \in ToSet(Transiciones) : t.de = s}]

(* Bound: nothing is followed once no run is left to look at it.            *)
Entorno ==
  /\ \E r \in Corridas : run[r].pc \notin {"muerto", "fin"}
  /\ \/ \E n \in DOMAIN obrero :
          \/ Terminar(n) \/ Denegar(n) \/ Editar(n)
          \/ \E t \in Desde[est.estado], rt \in Runtimes, ses \in {0, n} : Transitar(n, t, rt, ses)
     \/ \E t \in Desde[est.estado] : Decidir(t)
     \/ Aceptar

Next ==
  \/ \E r \in Corridas : Arrancar(r) \/ Paso(r) \/ Interrumpir(r) \/ Morir(r)
  \/ Entorno

(* A run goes on by itself: its worker ends or runs out of time, and the     *)
(* human at its terminal answers in the end.                                *)
Spec == Init /\ [][Next]_vars /\ \A r \in Corridas : WF_vars(Paso(r))

-----------------------------------------------------------------------------
(***************************************************************************)
(* Properties.                                                             *)
(***************************************************************************)
(* "Any guard DENIED in a turn is an absolute STOP": a worker that was       *)
(* denied anything, before or after any progress, is the last one of its    *)
(* run, and its turn is never recorded as one that went well.               *)
DenegadoEsAbsoluto ==
  \A n \in DOMAIN obrero : obrero[n].negado /\ ~obrero[n].hijos =>
    /\ \A m \in DOMAIN obrero : m > n => obrero[m].r # obrero[n].r
    /\ obrero[n].res \in {Nada, "blocked_guard", "interrupted"}

(* A turn that went well is the work of one agent: whatever the worker, the  *)
(* human and what other workers left running did meanwhile, state.json went  *)
(* from the snapshot to what was read at the end by transitions that follow  *)
(* one another, all of the role of the turn and under one session; an edit   *)
(* by hand in between left nothing of what it changed.                      *)
TurnoVeraz ==
  [][\A r \in Corridas :
       LET hechos == {i \in run[r].desde + 1 .. Len(cambios) : cambios[i].quien # "mano"}
           rol == Rol[run[r].antes.estado] IN
       Juzgar(r) /\ obrero'[run[r].ses].res \in {"completed", "human_required"} =>
         /\ \E i \in hechos : cambios[i].de = run[r].antes.estado /\ \A j \in hechos : i <= j
         /\ \E i \in hechos : cambios[i].a = est.estado /\ \A j \in hechos : j <= i
         /\ \A i, j \in hechos :
              i < j /\ (i + 1 .. j - 1) \cap hechos = {} => cambios[i].a = cambios[j].de
         /\ \A i \in hechos : cambios[i].quien = "obrero" /\ Rol[cambios[i].de] \in {rol, "system"}
         /\ \A i, j \in hechos : cambios[i].ses = cambios[j].ses]_vars

(* A run that started ends, although the human answers every gate and does   *)
(* nothing, the AWS session is never good, or the workers hang.             *)
TodaCorridaTermina ==
  \A r \in Corridas : run[r].pc = "crear" ~> run[r].pc \in {"fin", "muerto"}

(* "Single-instance lock ... guards against two Supervisors at once": at     *)
(* most one run is past the lock.                                           *)
UnSoloSupervisor ==
  Cardinality({r \in Corridas :
    run[r].pc \notin {"fuera", "crear", "leer", "borrar", "muerto", "fin"}}) <= 1
=============================================================================
