---------------------------- MODULE HarnessGates ----------------------------
(***************************************************************************)
(* Where the harness meets the human.  At a gate the orchestrator shows    *)
(* what it waits for, asks, and composes the commands of approve.py that   *)
(* carry the answers out; it may also interview the human for a new task,  *)
(* of which it writes a draft.  The human runs the commands in windows of  *)
(* his own, when he likes; each reads its files one after another, waits   *)
(* for him to type a confirmation, and writes.  Meanwhile the agents, the  *)
(* other windows and the interview go on.                                  *)
(*                                                                         *)
(* What a command does after its confirmation is one step here: its writes *)
(* one by one, and a crash between two of them, are in HarnessWorkflow, as *)
(* is every guard.  Of the guards of the agents there are here only those  *)
(* that read what the human wrote.                                         *)
(***************************************************************************)
EXTENDS HarnessStates, Integers, FiniteSets, FiniteSetsExt

CONSTANTS
  Ventanas,      \* terminals in which the human runs approve.py
  Criterios,     \* ids that the criteria of a task may have
  MaxId,         \* bound: serial numbers of the tasks
  Contestadas,   \* bound: what an interview is answered, [humanos, despliega]
  MaxBorradores, \* bound: drafts written, in a project that deploys and in one that does not
  Uso,           \* bound: the commands run in each window, in the one and in the other
  MaxCerradas,   \* bound: tasks finished before the last one
  Ninguno

VARIABLES
  arnes,      \* state.json, and the task in tasks/current.yaml
  lista,      \* tasks/backlog.yaml
  cerradas,   \* ids in tasks/completed
  borrador,   \* the drafts folder: of each id, the number of the draft and its task
  orq,        \* the orchestrator: its node, its payload, the commands it composed
  ventana,    \* the command each window runs, and what it has read
  memoria     \* what the human keeps of the screens, and history for the properties

varsGates == <<arnes, lista, cerradas, borrador, orq, ventana, memoria>>

Numeros == 1 .. MaxId

(* What a task says of itself: the number of its draft, and two answers.    *)
Definiciones == [n : Nat, humanos : SUBSET Criterios, despliega : BOOLEAN]

ASSUME GatesAssumption ==
  /\ MaxId \in Nat /\ MaxId >= 2
  /\ Contestadas \subseteq [humanos : SUBSET Criterios, despliega : BOOLEAN]
  /\ Ninguno \notin Numeros /\ Ninguno \notin {"aws_session", "failure"}
  /\ Ninguno \notin [sha : Nat, def : Definiciones] \cup [id : Numeros, def : Definiciones]

(* The transitions of workflow.yaml.                                        *)
Tabla == ToSet(Transiciones)

IdsDe(items) == {i.id : i \in items}

-----------------------------------------------------------------------------
(***************************************************************************)
(* The harness.                                                            *)
(***************************************************************************)
(* What failure evidence makes of a block; access_denied reads as a failure  *)
(* with another text.                                                       *)
Fallos == {"aws_session", "failure"}

ArnesVacio == [estado |-> "IDLE", tarea |-> Ninguno, ficha |-> Ninguno, ultima |-> Ninguno,
           fallo |-> Ninguno, acepta |-> Ninguno]

Termina(t) == t.efs \cap {"close_task", "cancel_task"} # {}

(* The criteria that a human verifies.                                      *)
human_criteria(a) == IF a.ficha = Ninguno THEN {} ELSE a.ficha.def.humanos

Suelta(t, ref) == ref \in t.limpia \/ "reset_release" \in t.efs

(* Of last_transition what a gate reads: how the task was blocked.          *)
Aplicada(a, t, fallo) ==
  IF Termina(t) THEN ArnesVacio
  ELSE IF "bind_task" \in t.efs
       THEN [ArnesVacio EXCEPT !.estado = t.a, !.tarea = a.ficha.id, !.ficha = a.ficha]
  ELSE [a EXCEPT
         !.estado = t.a,
         !.ultima = IF t.a = "BLOCKED_HUMAN" THEN t ELSE Ninguno,
         !.fallo  = IF t.rec = "failure_evidence" THEN fallo
                    ELSE IF Suelta(t, "failure_evidence") THEN Ninguno ELSE @,
         !.acepta = IF Suelta(t, "acceptance") THEN Ninguno ELSE @]

(* verification_passed: every criterion of a human is accepted.             *)
Basta(a) ==
  human_criteria(a) # {} =>
    a.acepta # Ninguno /\ a.acepta.dec = "accept" /\ human_criteria(a) \subseteq a.acepta.crit

PuedeCerrar(a, t) == Termina(t) => a.tarea # Ninguno /\ a.ficha # Ninguno /\ a.ficha.id = a.tarea

Despliegue(a) == a.ficha # Ninguno /\ a.ficha.def.despliega

Permite(a, t) ==
  /\ PuedeCerrar(a, t)
  /\ t.gs \cap {"deploy_required_fast_path", "deploy_required_non_fast_path"} # {} => Despliegue(a)
  /\ "no_deploy_required" \in t.gs => a.ficha # Ninguno /\ ~a.ficha.def.despliega
  /\ "verification_passed" \in t.gs => a.ficha # Ninguno /\ Basta(a)

(* A window that read what has changed since goes on with what it read.     *)
Envejecida(x) ==
  IF x = Ninguno THEN Ninguno
  ELSE [x EXCEPT !.viejo =
          \/ @
          \/ x.c.cmd \in {"define", "activate"} /\ x.paso = "confirmar" /\ lista' # lista
          \/ x.c.cmd \in {"activate", "accept"} /\ arnes' # arnes]

Enfriar == orq' = [orq EXCEPT !.fresca = FALSE]

(* What apply_transition leaves, with the closing of the task.              *)
Mover(t, fallo) ==
  /\ arnes' = Aplicada(arnes, t, fallo)
  /\ IF Termina(t)
     THEN /\ lista' = {i \in lista : i.id # arnes.tarea}
          /\ cerradas' = cerradas \cup {arnes.tarea}
     ELSE UNCHANGED <<lista, cerradas>>

(* An agent, or the system, runs a transition.                              *)
Progresar(t) ==
  /\ t.de = arnes.estado /\ Rol[t.de] # "human" /\ Permite(arnes, t)
  /\ \E f \in IF t.rec = "failure_evidence" THEN Fallos ELSE {Ninguno} : Mover(t, f)
  /\ ventana' = [v \in Ventanas |-> Envejecida(ventana[v])]
  /\ Enfriar
  /\ UNCHANGED <<borrador, memoria>>

-----------------------------------------------------------------------------
(***************************************************************************)
(* orchestrator_gates.py: what a gate shows.                               *)
(***************************************************************************)
(* Faulty variant: the failure evidence is looked at before the transition  *)
(* that blocked the task.                                                   *)
classify_block_FalloPrimero(a) ==
  IF a.fallo # Ninguno THEN a.fallo
  ELSE IF "infra" \in a.ultima.gs THEN "infra"
  ELSE IF a.ultima.ev \in {"review_reject", "candidate_reject"} THEN "rework_exhausted"
  ELSE IF a.ultima.ev = "rollback_finished" THEN "rollback"
  ELSE IF a.ultima.ev = "merged" THEN "non_fast_path"
  ELSE "unknown"

classify_block(a) ==
  IF "infra" \in a.ultima.gs THEN "infra"
  ELSE IF a.ultima.ev \in {"review_reject", "candidate_reject"} THEN "rework_exhausted"
  ELSE IF a.ultima.ev = "rollback_finished" THEN "rollback"
  ELSE IF a.ultima.ev = "merged" THEN "non_fast_path"
  ELSE IF a.fallo # Ninguno THEN a.fallo
  ELSE "unknown"

Destinos == {t.a : t \in {x \in Tabla : x.ev = "human_resolve"}}

(* Only a state that human_resolve leads to is suggested.                   *)
Sugerido(a) ==
  CASE classify_block(a) = "aws_session" /\ a.ultima.de \in Destinos -> a.ultima.de
    [] classify_block(a) = "rework_exhausted" -> "DEVELOPING"
    [] OTHER -> Ninguno

(* Faulty variant: pending tasks without a definition are offered as well.  *)
Activables_Todas == {i \in lista : i.estado = "pending"}

Activables == {i \in lista : i.def # Ninguno /\ i.estado = "pending"}

Carga(tipo) == [tipo |-> tipo, ids |-> {}, humanos |-> {}, clase |-> Ninguno, sugerido |-> Ninguno]

describe ==
  CASE arnes.estado = "IDLE" -> [Carga("idle") EXCEPT !.ids = IdsDe(Activables)]
    [] arnes.estado = "WAITING_HUMAN_APPROVAL" -> Carga("approval")
    [] arnes.estado = "BLOCKED_HUMAN" ->
         [Carga("blocked") EXCEPT !.clase = classify_block(arnes), !.sugerido = Sugerido(arnes)]

describe_acceptance == [Carga("acceptance") EXCEPT !.humanos = human_criteria(arnes)]

(* The commands that the answers to a gate compose.  A reason of which       *)
(* nothing safe is left composes none.                                      *)
commands(g) ==
  CASE g.tipo = "idle" -> {{[cmd |-> "activate", id |-> i]} : i \in g.ids}
    [] g.tipo = "approval" -> {{[cmd |-> "gate", dec |-> "approve"]},
                               {[cmd |-> "gate", dec |-> "reject"]}, {}}
    [] g.tipo = "acceptance" ->
         IF g.humanos = {} THEN {{}}
         ELSE {{[cmd |-> "accept", dec |-> IF no = {} THEN "accept" ELSE "reject",
                 crit |-> IF no = {} THEN g.humanos ELSE no]} : no \in SUBSET g.humanos}
    [] g.tipo = "blocked" -> {{[cmd |-> "resolve", a |-> s]} : s \in Destinos} \cup {{}}

-----------------------------------------------------------------------------
(***************************************************************************)
(* orchestrator_intake.py: the interview and the draft.                    *)
(***************************************************************************)
(* Faulty variant: the active task and the finished ones are forgotten.     *)
existing_ids_Backlog == IdsDe(lista)

existing_ids ==
  IdsDe(lista) \cup cerradas \cup (IF arnes.ficha = Ninguno THEN {} ELSE {arnes.ficha.id})

next_task_id == Max(existing_ids \cup {0}) + 1

(* What the human may answer: the criteria he keeps for himself, and       *)
(* whether the task is deployed, if the project has where.                  *)
Entrevistas ==
  IF memoria.destino THEN Contestadas
  ELSE [humanos : {{}}, despliega : {FALSE}]

-----------------------------------------------------------------------------
(***************************************************************************)
(* orchestrator.py: the nodes of the graph, between two of which the       *)
(* harness may change.  Leaving and starting again leads to "observar".    *)
(***************************************************************************)
EnNodo(n) == orq.nodo = n

Al(n) == orq' = [orq EXCEPT !.nodo = n]

Reposo == [nodo |-> "observar", aceptacion |-> FALSE, carga |-> Carga("idle"), sugerido |-> 0,
           ordenes |-> {}, fresca |-> FALSE]

acceptance_pending ==
  arnes.estado = "VERIFYING" /\ arnes.acepta = Ninguno /\ human_criteria(arnes) # {}

(* A state of the human, or a deployer that waits for his acceptance.       *)
Detenerse ==
  /\ EnNodo("observar")
  /\ \/ Rol[arnes.estado] = "human" /\ orq' = [Reposo EXCEPT !.nodo = "describir"]
     \/ acceptance_pending /\ orq' = [Reposo EXCEPT !.nodo = "describir", !.aceptacion = TRUE,
                                              !.fresca = TRUE]
  /\ UNCHANGED <<arnes, lista, cerradas, borrador, ventana, memoria>>

(* gate_prepare: state.json is read again; without a description it stops.  *)
(* An acceptance is described whatever the state is by then.                *)
Preparar ==
  /\ EnNodo("describir")
  /\ IF orq.aceptacion \/ Rol[arnes.estado] = "human"
     THEN orq' = [orq EXCEPT !.nodo = "preguntar", !.fresca = @ \/ ~orq.aceptacion,
                             !.carga = IF orq.aceptacion THEN describe_acceptance ELSE describe]
     ELSE orq' = Reposo
  /\ UNCHANGED <<arnes, lista, cerradas, borrador, ventana, memoria>>

(* TerminalUi.ask: an answer that is not one is asked again.                *)
Responder ==
  /\ EnNodo("preguntar")
  /\ \/ \E os \in commands(orq.carga) : orq' = [orq EXCEPT !.nodo = "mostrar", !.ordenes = os]
     \/ orq' = Reposo
     \/ orq.carga.tipo = "idle" /\ Al("proponer")
  /\ UNCHANGED <<arnes, lista, cerradas, borrador, ventana, memoria>>

(* intake_prepare: the interview proposes an id.                            *)
Proponer ==
  /\ EnNodo("proponer")
  /\ orq' = [orq EXCEPT !.nodo = "entrevista", !.sugerido = next_task_id]
  /\ UNCHANGED <<arnes, lista, cerradas, borrador, ventana, memoria>>

(* The windows that checked the hash of the draft of an id and have not      *)
(* read the draft yet.                                                      *)
ConHuella(id) ==
  {v \in Ventanas : /\ ventana[v] # Ninguno /\ ventana[v].paso = "borrador"
                    /\ ventana[v].c.id = id}

(* The drafts they checked, each with the one that takes its place.         *)
Relevados(id, n) == {<<ventana[v].c.sha, n>> : v \in ConHuella(id)}

(* intake_ask and intake_commit: the human leaves, or his answers are valid  *)
(* and a draft takes the place of the one of that id, or errors are shown.  *)
Entrevistar ==
  /\ EnNodo("entrevista")
  /\ \/ orq' = Reposo /\ UNCHANGED <<borrador, memoria>>
     \/ \E id \in Numeros :
          IF id \in existing_ids
          THEN /\ orq' = [orq EXCEPT !.nodo = "mostrar", !.ordenes = {}]
               /\ UNCHANGED <<borrador, memoria>>
          ELSE \E d \in Entrevistas :
            LET n == memoria.borradores + 1 IN
            /\ n <= MaxBorradores[memoria.destino]
            /\ borrador' = [borrador EXCEPT ![id] =
                 [sha |-> n, def |-> [n |-> n, humanos |-> d.humanos, despliega |-> d.despliega]]]
            /\ orq' = [orq EXCEPT !.nodo = "mostrar", !.carga = Carga("intake_done"),
                                  !.ordenes = {[cmd |-> "define", id |-> id, sha |-> n],
                                               [cmd |-> "activate", id |-> id]}]
            /\ memoria' = [memoria EXCEPT !.borradores = n,
                             !.defines = @ \cup {[cmd |-> "define", id |-> id, sha |-> n]},
                             !.relevos = @ \cup Relevados(id, n)]
  /\ UNCHANGED <<arnes, lista, cerradas, ventana>>

Reanudar ==
  /\ EnNodo("mostrar")
  /\ orq' = Reposo
  /\ UNCHANGED <<arnes, lista, cerradas, borrador, ventana, memoria>>

-----------------------------------------------------------------------------
(***************************************************************************)
(* approve.py.                                                             *)
(***************************************************************************)
(* Faulty variant: the draft need not be the one that was shown.            *)
MismoBorrador_Cualquiera(c) == borrador[c.id] # Ninguno

MismoBorrador(c) == borrador[c.id] # Ninguno /\ borrador[c.id].sha = c.sha

(* _require_state: the first thing that a command reads.                    *)
EstadoRequerido(c) ==
  /\ c.cmd \in {"define", "activate"} => arnes.estado = "IDLE"
  /\ c.cmd = "activate" => arnes.tarea = Ninguno
  /\ c.cmd = "gate" => arnes.estado = "WAITING_HUMAN_APPROVAL"
  /\ c.cmd = "accept" => arnes.estado = "VERIFYING"
  /\ c.cmd = "resolve" => arnes.estado = "BLOCKED_HUMAN"

(* What it checks in the backlog, the finished tasks or the current one.    *)
ArchivosAdmiten(c) ==
  /\ c.cmd = "define" => c.id \notin IdsDe(lista) \cup cerradas
  /\ c.cmd = "activate" => \E i \in lista : i.id = c.id /\ i.def # Ninguno
  /\ c.cmd = "accept" => c.crit # {} /\ c.crit \subseteq human_criteria(arnes)

(* All that a command checks before it asks for the confirmation.           *)
Admisible(c) == EstadoRequerido(c) /\ ArchivosAdmiten(c) /\ (c.cmd = "define" => MismoBorrador(c))

(* The human types a command that a screen showed, or knows it by heart.    *)
Ordenes ==
  memoria.defines \cup [cmd : {"activate"}, id : Numeros]
    \cup [cmd : {"gate"}, dec : {"approve", "reject"}]
    \cup [cmd : {"accept"}, dec : {"accept", "reject"}, crit : SUBSET Criterios]
    \cup [cmd : {"resolve"}, a : Destinos]

(* A command starts: it reads the state and, to define, hashes the draft.    *)
(* The hash is of a draft that was there when it was typed, so that between *)
(* the two reads nothing is missed.                                         *)
Teclear(v) ==
  /\ ventana[v] = Ninguno
  /\ \E c \in Ordenes :
       /\ c.cmd \in Uso[memoria.destino][v] /\ EstadoRequerido(c)
       /\ c.cmd = "define" => MismoBorrador(c)
       /\ c.cmd = "activate" => Cardinality(cerradas) <= MaxCerradas
       /\ ventana' = [ventana EXCEPT ![v] =
            [c |-> c, viejo |-> FALSE, lista |-> {}, def |-> Ninguno,
             paso |-> CASE c.cmd = "define" -> "borrador"
                        [] c.cmd \in {"activate", "accept"} -> "archivos"
                        [] OTHER -> "confirmar",
             arnes |-> IF c.cmd = "accept" THEN arnes ELSE Ninguno]]
  /\ UNCHANGED <<arnes, lista, cerradas, borrador, orq, memoria>>

EnPaso(v, paso) == ventana[v] # Ninguno /\ ventana[v].paso = paso

(* define opens the draft again to read it, whatever is there by then.       *)
LeerBorrador(v) ==
  /\ EnPaso(v, "borrador")
  /\ ventana' = [ventana EXCEPT ![v].paso = "archivos",
                                ![v].def = borrador[ventana[v].c.id].def]
  /\ UNCHANGED <<arnes, lista, cerradas, borrador, orq, memoria>>

(* The other files; a command that they refuse ends.                        *)
LeerArchivos(v) ==
  LET c == ventana[v].c IN
  /\ EnPaso(v, "archivos")
  /\ ventana' = IF ArchivosAdmiten(c)
                THEN [ventana EXCEPT ![v].paso = "confirmar",
                        ![v].lista = IF c.cmd = "accept" THEN {} ELSE lista]
                ELSE [ventana EXCEPT ![v] = Ninguno]
  /\ UNCHANGED <<arnes, lista, cerradas, borrador, orq, memoria>>

(* Nothing is confirmed.                                                    *)
Desistir(v) ==
  /\ ventana[v] # Ninguno
  /\ ventana' = [ventana EXCEPT ![v] = Ninguno]
  /\ UNCHANGED <<arnes, lista, cerradas, borrador, orq, memoria>>

(* The transition that a decision runs, if the state still has it.          *)
Decision(ev, a) ==
  LET ts == {t \in Tabla : t.ev = ev /\ t.de = arnes.estado /\ a \in {Ninguno, t.a}
                                           /\ PuedeCerrar(arnes, t)} IN
  IF ts = {} THEN UNCHANGED <<arnes, lista, cerradas>> ELSE \E t \in ts : Mover(t, Ninguno)

(* define writes the backlog that it read with the new task in it.          *)
Definir(x) ==
  /\ lista' = x.lista \cup {[id |-> x.c.id, def |-> x.def, estado |-> "pending", sha |-> x.c.sha]}
  /\ memoria' = [memoria EXCEPT !.guardadas = @ \cup {x.c.id}, !.cruce = @ \/ x.viejo]
  /\ UNCHANGED <<arnes, cerradas>>

(* activate writes the current task and the backlog that it read; a state    *)
(* that moved meanwhile refuses only the transition.                        *)
Activar_(x) ==
  LET i == CHOOSE i \in x.lista : i.id = x.c.id
      ficha == [id |-> i.id, def |-> i.def]
      t == Transiciones[1] IN
  /\ arnes' = IF arnes.estado = "IDLE" /\ arnes.tarea = Ninguno
              THEN Aplicada([arnes EXCEPT !.ficha = ficha], t, Ninguno)
              ELSE [arnes EXCEPT !.ficha = ficha]
  /\ lista' = (x.lista \ {i}) \cup {[i EXCEPT !.estado = "active"]}
  /\ memoria' = [memoria EXCEPT !.cruce = @ \/ x.viejo]
  /\ UNCHANGED cerradas

(* accept saves the state that it read with the acceptance in it; without a  *)
(* task there is nowhere to write it.                                       *)
Aceptar_(x) ==
  /\ IF arnes.tarea = Ninguno THEN UNCHANGED <<arnes, memoria>>
     ELSE /\ arnes' = [x.arnes EXCEPT !.acepta = [dec |-> x.c.dec, crit |-> x.c.crit],
                                      !.ficha = arnes.ficha]
          /\ memoria' = [memoria EXCEPT !.cruce = @ \/ x.viejo]
  /\ UNCHANGED <<lista, cerradas>>

Confirmar(v) ==
  LET x == ventana[v] IN
  /\ EnPaso(v, "confirmar")
  /\ CASE x.c.cmd = "define" -> Definir(x)
       [] x.c.cmd = "activate" -> Activar_(x)
       [] x.c.cmd = "accept" -> Aceptar_(x)
       [] x.c.cmd = "gate" ->
            UNCHANGED memoria
              /\ Decision(IF x.c.dec = "approve" THEN "human_approve" ELSE "human_reject", Ninguno)
       [] x.c.cmd = "resolve" -> UNCHANGED memoria /\ Decision("human_resolve", x.c.a)
  /\ ventana' = [w \in Ventanas |-> IF w = v THEN Ninguno ELSE Envejecida(ventana[w])]
  /\ Enfriar
  /\ UNCHANGED borrador

(* A task with its definition, one that is only a summary.                  *)
InitGates ==
  /\ arnes = ArnesVacio
  /\ cerradas = {} /\ borrador = [i \in Numeros |-> Ninguno]
  /\ orq = Reposo /\ ventana = [v \in Ventanas |-> Ninguno]
  /\ \E destino \in BOOLEAN :
       /\ lista = {[id |-> 1, estado |-> "pending", sha |-> 0,
                    def |-> [n |-> 0, humanos |-> IF destino THEN Criterios ELSE {},
                             despliega |-> destino]],
                   [id |-> 2, estado |-> "pending", sha |-> 0, def |-> Ninguno]}
       /\ memoria = [destino |-> destino, borradores |-> 0, defines |-> {}, guardadas |-> {},
                     relevos |-> {}, cruce |-> FALSE]

(* Nothing is followed after a crossing.                                    *)
NextGates ==
  /\ ~memoria.cruce
  /\ \/ \E t \in Tabla : Progresar(t)
     \/ Detenerse \/ Preparar \/ Responder \/ Proponer \/ Entrevistar \/ Reanudar
     \/ \E v \in Ventanas : Teclear(v) \/ LeerBorrador(v) \/ LeerArchivos(v) \/ Confirmar(v)
                           \/ Desistir(v)

SpecGates == InitGates /\ [][NextGates]_varsGates

-----------------------------------------------------------------------------
(***************************************************************************)
(* Properties.                                                             *)
(***************************************************************************)
(* What the orchestrator tells the human to run is what approve.py accepts,  *)
(* as long as nothing has changed since he was asked: the two programs      *)
(* agree on the drafts, the ids, the criteria and the states, and an        *)
(* acceptance of everything is one that the verification is content with.   *)
OrdenesAdmisibles ==
  orq.fresca =>
    /\ orq.nodo = "mostrar" => \A c \in orq.ordenes :
         /\ Admisible(c) \/ \E d \in orq.ordenes : c.cmd = "activate" /\ d.cmd = "define" /\ d.id = c.id
         /\ c.cmd = "accept" /\ c.dec = "accept" => human_criteria(arnes) \subseteq c.crit
    /\ orq.nodo = "entrevista" => orq.sugerido \notin IdsDe(lista) \cup cerradas

(* A block is explained by what blocked the task this time, although the     *)
(* evidence of an earlier failure may still be there.                       *)
ClaseVeraz ==
  orq.fresca /\ orq.carga.tipo = "blocked" =>
    /\ orq.carga.clase # "unknown"
    /\ orq.carga.clase \in Fallos <=> arnes.ultima.rec = "failure_evidence"
    /\ orq.carga.sugerido \in Destinos \cup {Ninguno}

(* A task of the backlog is the draft whose hash the human passed to define, *)
(* unless the interview put another in its place after the hash was checked *)
(* and before it was read; and its id is nobody else's.  Unless a command   *)
(* wrote over what it had not read, no saved task is lost, a finished one   *)
(* does not come back, and the state, the current task and the backlog      *)
(* agree.                                                                   *)
BacklogIntegro ==
  /\ \A i \in lista : i.sha # 0 => i.def.n = i.sha \/ <<i.sha, i.def.n>> \in memoria.relevos
  /\ \A i, j \in lista : i.id = j.id => i = j
  /\ ~memoria.cruce =>
       /\ IdsDe(lista) \cap cerradas = {}
       /\ memoria.guardadas \subseteq IdsDe(lista) \cup cerradas
       /\ arnes.tarea = Ninguno => arnes.ficha = Ninguno /\ \A i \in lista : i.estado = "pending"
       /\ arnes.tarea # Ninguno =>
            /\ arnes.ficha.id = arnes.tarea
            /\ {i \in lista : i.estado = "active"}
                 = {i \in lista : i.id = arnes.tarea /\ i.def = arnes.ficha.def}
            /\ \E i \in lista : i.id = arnes.tarea

(* What the human is asked, what he is told to run and what his commands     *)
(* leave are right together.                                                *)
PuertasFieles == OrdenesAdmisibles /\ ClaseVeraz /\ BacklogIntegro
=============================================================================
