--------------------------- MODULE HarnessWorkflow ---------------------------
(***************************************************************************)
(* The workflow engine of the agent harness: harness/workflow.yaml, its    *)
(* guards, and the commands that move harness/state.json.  A command reads *)
(* state.json once, checks, writes other files, appends a line to          *)
(* transitions.jsonl and only then replaces state.json; nothing locks it.  *)
(* Two terminals run commands: the agent's and the human's.                *)
(*                                                                         *)
(* Evidence is what it says: a file whose own content its guard refuses    *)
(* changes nothing and is left out.  What agents report of git and of the  *)
(* environment is true; all the rest of it they may get wrong.  Of the     *)
(* references only those that a later guard reads are kept, and rework     *)
(* counters saturate one above their limit, the only value compared.       *)
(***************************************************************************)
EXTENDS HarnessStates, Naturals, Sequences, SequencesExt, FiniteSetsExt

CONSTANTS
  Tareas, Ficha,         \* despliega, rapida (deployable class), humanos (criteria)
  Cabezas, Fusiones,     \* heads of the pull request, commits of main
  Arbol,                 \* git: tree of each commit
  Sesiones,
  MaxRework,             \* harness.max_rework_rounds
  MaxArtefacto,          \* harness.max_candidate_artifact_rework
  Builds,                \* bound: builds of a release
  Backlogs,              \* bound: the backlogs to start from
  MaxDecisiones,         \* bound: resolutions and rejections of the human, per task
  Nada

ASSUME WorkflowAssumption ==
  /\ MaxRework \in Nat /\ MaxArtefacto \in Nat /\ MaxDecisiones \in Nat
  /\ Ficha \in [Tareas -> [despliega : BOOLEAN, rapida : BOOLEAN, humanos : BOOLEAN]]
  /\ Backlogs \subseteq SUBSET Tareas
  /\ Nada \notin Tareas
  /\ \A i \in DOMAIN Transiciones : Nada # Transiciones[i]

VARIABLES
  est,          \* harness/state.json
  tarea,        \* tasks/current.yaml
  backlog, completadas, bitacora,
  log,          \* the line each command under way has appended to transitions.jsonl
  ambiente,     \* version the environment runs
  pc, ll,       \* the command each terminal runs, what it loaded and will save
  hist          \* history, read by the properties only

ficheros == <<tarea, backlog, completadas, bitacora>>
vars == <<est, tarea, backlog, completadas, bitacora, log, ambiente, pc, ll, hist>>

Terminales == {"agente", "humano"}
Versiones  == [rel : Fusiones, n : 1..Builds] \* version labels: a release and its builds
Base       == [rel |-> Nada, n |-> 0]         \* what runs before the first deployment

Refs == {"developer_evidence", "review_evidence", "merge_evidence", "candidate_evidence",
         "candidate_review_evidence", "approval", "deployment_evidence",
         "verification_evidence", "acceptance"}

SinRefs == [k \in Refs |-> Nada]

(* Faulty variant: reset_release forgets the acceptance of the human.       *)
RELEASE_REFS_SinAceptacion == Refs \ {"acceptance"}

RELEASE_REFS == Refs

(* What a piece of evidence may say, by the kind that a transition records. *)
(* A field that no guard reads under its decision is Nada.                  *)
Evidencia(k) ==
  CASE k = "developer_evidence" -> [head : Cabezas, ses : {est.dev}]
    [] k = "review_evidence" ->
         [dec : {"APPROVED"}, head : Cabezas, ses : Sesiones] \cup
         [dec : {"REJECTED"}, head : Cabezas, ses : {Nada}]
    [] k = "merge_evidence" -> [head : Cabezas, rel : Fusiones]
    [] k = "candidate_evidence" -> [ver : Versiones, lkg : {ambiente}]
    [] k = "candidate_review_evidence" ->
         [dec : {"APPROVED"}, causa : {Nada}, rel : Fusiones] \cup
         [dec : {"REJECTED"}, causa : {"code", "artifact", "infra"}, rel : {Nada}]
    [] k = "approval" ->
         LET c == est.refs["candidate_evidence"] IN
         IF c = Nada THEN {} ELSE [dec : {"approved", "rejected"}, ver : {c.ver}, lkg : {c.lkg}]
    [] k = "deployment_evidence" ->
         [res : {"success"}, aceptado : {TRUE}, ver : {ambiente}] \cup
         [res : {"failure"}, aceptado : BOOLEAN, ver : {ambiente}]
    [] k = "verification_evidence" ->
         [res : {"PASS"}, clase : {Nada}, rel : {ambiente.rel}] \cup
         [res : {"FAIL"}, clase : {"infrastructure", "functional"}, rel : {Nada}]
    [] k = "rollback_precheck_evidence" ->
         [lkg : Versiones \cup {Base}, clase : {"infrastructure", "functional"}]
    [] k = "failure_evidence" -> [estado : {est.estado}]
    [] k = "resolution" -> [a : Estados]
    [] OTHER -> {Nada}

(***************************************************************************)
(* guards.py.  x is the context: the trial state with the new evidence in  *)
(* its references, the session, and the evidence itself.                   *)
(***************************************************************************)
Ref(x, k) == x.s.refs[k]

Hay(x, ks) == \A k \in ks : Ref(x, k) # Nada

g_task_selected(x) == tarea # Nada /\ x.s.tarea = Nada

g_task_active(x) == tarea # Nada /\ tarea = x.s.tarea

g_reviewer_session_independent(x) == x.ses # x.s.dev

(* Faulty variant: the sessions that wrote the two pieces of evidence are    *)
(* not compared.                                                            *)
g_review_approved_MismaSesion(x) ==
  /\ Hay(x, {"review_evidence", "developer_evidence"})
  /\ Ref(x, "review_evidence").dec = "APPROVED"
  /\ Ref(x, "review_evidence").head = Ref(x, "developer_evidence").head

g_review_approved(x) ==
  /\ Hay(x, {"review_evidence", "developer_evidence"})
  /\ LET r == Ref(x, "review_evidence")
         d == Ref(x, "developer_evidence") IN
       r.dec = "APPROVED" /\ r.head = d.head /\ r.ses # d.ses

g_merge_valid(x) ==
  /\ Hay(x, {"merge_evidence", "review_evidence"})
  /\ LET m == Ref(x, "merge_evidence")
         r == Ref(x, "review_evidence") IN
       r.dec = "APPROVED" /\ m.head = r.head /\ Arbol[m.rel] = Arbol[r.head]

g_candidate_valid(x) ==
  /\ Hay(x, {"candidate_evidence", "merge_evidence"})
  /\ LET c == Ref(x, "candidate_evidence") IN
       c.ver.rel = Ref(x, "merge_evidence").rel /\ c.lkg # c.ver

g_candidate_review_approved(x) ==
  /\ Hay(x, {"candidate_review_evidence", "candidate_evidence", "merge_evidence",
             "review_evidence"})
  /\ LET v == Ref(x, "candidate_review_evidence") IN
       /\ v.dec = "APPROVED"
       /\ v.rel = Ref(x, "candidate_evidence").ver.rel /\ v.rel = Ref(x, "merge_evidence").rel
       /\ Arbol[v.rel] = Arbol[Ref(x, "review_evidence").head]

g_approval_valid(x) ==
  /\ Hay(x, {"approval", "candidate_evidence", "candidate_review_evidence"})
  /\ LET a == Ref(x, "approval")
         c == Ref(x, "candidate_evidence") IN
       /\ a.dec = "approved" /\ Ref(x, "candidate_review_evidence").dec = "APPROVED"
       /\ a.ver = c.ver /\ a.lkg = c.lkg

g_deployment_succeeded(x) ==
  /\ Hay(x, {"deployment_evidence", "approval"})
  /\ LET d == Ref(x, "deployment_evidence") IN
       d.res = "success" /\ d.aceptado /\ d.ver = Ref(x, "approval").ver

g_verification_passed(x) ==
  /\ tarea # Nada
  /\ Hay(x, {"verification_evidence", "approval", "deployment_evidence"})
  /\ LET v == Ref(x, "verification_evidence")
         a == Ref(x, "approval") IN
       v.res = "PASS" /\ v.rel = a.ver.rel /\ Ref(x, "deployment_evidence").ver.rel = a.ver.rel
  /\ Ficha[tarea].humanos =>
       Hay(x, {"acceptance"}) /\ Ref(x, "acceptance").dec = "accepted"

g_rollback_permitted(x) ==
  /\ ~x.s.rollback
  /\ Hay(x, {"approval", "candidate_evidence"})
  /\ Ref(x, "approval").dec = "approved"
  /\ x.ev.lkg = Ref(x, "approval").lkg /\ x.ev.lkg = Ref(x, "candidate_evidence").lkg
  /\ x.s.estado = "DEPLOY_FAILED" =>
       Hay(x, {"deployment_evidence"}) /\ Ref(x, "deployment_evidence").aceptado
  /\ x.s.estado = "VERIFY_FAILED" =>
       Hay(x, {"verification_evidence"})
         /\ Ref(x, "verification_evidence").clase = "infrastructure"
  /\ x.ev.clase = "infrastructure"

Despliega(t) == t # Nada /\ Ficha[t].despliega

Cumple(g, x) ==
  /\ g = "task_selected" => g_task_selected(x)
  /\ g = "task_active" => g_task_active(x)
  /\ g = "developer_evidence_valid" => tarea # Nada
  /\ g = "reviewer_session_independent" => g_reviewer_session_independent(x)
  /\ g = "review_approved" => g_review_approved(x)
  /\ g = "review_rejected" => x.ev.dec = "REJECTED"
  /\ g = "rework_available" => x.s.rework < MaxRework
  /\ g = "rework_exhausted" => x.s.rework >= MaxRework
  /\ g = "candidate_rework_available" => x.s.crework < MaxArtefacto
  /\ g = "candidate_rework_exhausted" => x.s.crework >= MaxArtefacto
  /\ g = "merge_valid" => g_merge_valid(x)
  /\ g = "deploy_required_fast_path" => Despliega(tarea) /\ Ficha[tarea].rapida
  /\ g = "no_deploy_required" => tarea # Nada /\ ~Ficha[tarea].despliega
  /\ g = "deploy_required_non_fast_path" => Despliega(tarea) /\ ~Ficha[tarea].rapida
  /\ g = "candidate_valid" => g_candidate_valid(x)
  /\ g = "candidate_review_approved" => g_candidate_review_approved(x)
  /\ g \in {"code", "artifact", "infra"} => x.ev.causa = g     \* candidate_rejected:<g>
  /\ g = "approval_valid" => g_approval_valid(x)
  /\ g = "approval_rejected" => x.ev.dec = "rejected"
  /\ g = "deployment_succeeded" => g_deployment_succeeded(x)
  /\ g = "deployment_failed" => x.ev.res = "failure"
  /\ g = "verification_passed" => g_verification_passed(x)
  /\ g = "verification_failed" => x.ev.res = "FAIL"
  /\ g = "rollback_permitted" => g_rollback_permitted(x)
  /\ g = "failure_recorded" => x.ev.estado = x.s.estado
  /\ g = "rollback_result_recorded" => TRUE
  /\ g \in Estados => x.ev.a = g                               \* resolution_target:<g>

(* The transitions of an event in a state, by their place in the file.      *)
Candidatas ==
  [s \in Estados |->
     [e \in Eventos |->
        {i \in DOMAIN Transiciones : Transiciones[i].de = s /\ Transiciones[i].ev = e}]]

(***************************************************************************)
(* transition.py                                                           *)
(***************************************************************************)
Hasta(n, m) == IF n < m THEN n ELSE m

EstInicial == [estado |-> "IDLE", tarea |-> Nada, rework |-> 0, crework |-> 0,
               rollback |-> FALSE, refs |-> SinRefs, dev |-> Nada]

bind_task(t) == [EstInicial EXCEPT !.estado = t.a, !.tarea = tarea]

(* Faulty variant: a candidate returned for its code is not a round.        *)
rework_round_SinCandidato(n, t) ==
  IF t.ev = "review_reject" THEN Hasta(n + 1, MaxRework + 1)
  ELSE IF "reset_rework" \in t.efs THEN 0 ELSE n

rework_round(n, t) ==
  IF "increment_rework" \in t.efs THEN Hasta(n + 1, MaxRework + 1)
  ELSE IF "reset_rework" \in t.efs THEN 0 ELSE n

candidate_rework_round(n, t) ==
  IF "increment_candidate_rework" \in t.efs THEN Hasta(n + 1, MaxArtefacto + 1)
  ELSE IF t.efs \cap {"reset_candidate_rework", "reset_release"} # {} THEN 0 ELSE n

clear_refs(refs, t) ==
  LET fuera == t.limpia \cup (IF "reset_release" \in t.efs THEN RELEASE_REFS ELSE {}) IN
  [k \in Refs |-> IF k \in fuera THEN Nada ELSE refs[k]]

Cierra(t) == t.efs \cap {"close_task", "cancel_task"} # {}

GrabaDeveloper(t) == "record_session" \in t.efs /\ Rol[t.de] = "developer"

_apply_effect(s, t, ses) ==
  IF "bind_task" \in t.efs THEN bind_task(t)
  ELSE IF Cierra(t) THEN EstInicial
  ELSE [s EXCEPT
    !.estado  = t.a,
    !.dev     = IF GrabaDeveloper(t) THEN ses ELSE @,
    !.rework  = rework_round(@, t),
    !.crework = candidate_rework_round(@, t),
    !.rollback = (@ \/ "mark_rollback_attempted" \in t.efs) /\ "reset_release" \notin t.efs,
    !.refs    = clear_refs(@, t)]

(* The guards of a transition hold; the first candidate whose guards all    *)
(* hold, in the order of the file.                                          *)
Pasa(i, x) == \A g \in Transiciones[i].gs : Cumple(g, x)

Elegida(is, i, x) == i \in is /\ Pasa(i, x) /\ \A j \in is : Pasa(j, x) => i <= j

(* Sessions matter to the transitions that record or compare one; of those  *)
(* recorded only the developer's is read again.                             *)
SesionesDe(t) ==
  IF GrabaDeveloper(t) \/ "reviewer_session_independent" \in t.gs
  THEN Sesiones ELSE {Nada}

DeTarea(t) == Cierra(t) \/ "bind_task" \in t.efs

Cargado(t, nuevo) == [t |-> t, nuevo |-> nuevo, id |-> est.tarea, viejo |-> FALSE]

Ir(p, paso) == pc' = [pc EXCEPT ![p] = paso]

(* What the guards read: the state with the new evidence in its references. *)
Contexto(t, e, ses) ==
  [s |-> IF t.rec \in Refs THEN [est EXCEPT !.refs[t.rec] = e] ELSE est, ses |-> ses, ev |-> e]

(* apply_transition up to its first write.  Closing needs that the task of  *)
(* tasks/current.yaml is the one of the state.                              *)
Ejecutar(p, ev) ==
  /\ \E i \in Candidatas[est.estado][ev] :
       LET t == Transiciones[i] IN
       /\ Cierra(t) => tarea # Nada /\ tarea = est.tarea
       /\ \E ses \in SesionesDe(t), e \in Evidencia(t.rec) :
            LET x == Contexto(t, e, ses) IN
            /\ Elegida(Candidatas[est.estado][ev], i, x)
            /\ ll' = [ll EXCEPT ![p] = Cargado(t, _apply_effect(x.s, t, ses))]
       /\ Ir(p, IF Cierra(t) THEN "completar" ELSE "registrar")
  /\ UNCHANGED <<est, ficheros, log, ambiente, hist>>

(* A command typed in a terminal.  Human events run in approve.py only; the *)
(* agent may also type close in DONE.                                       *)
Comando(p, ev) ==
  /\ pc[p] = "libre" /\ ev # "activate_task"
  /\ p = IF Rol[est.estado] = "human" THEN "humano" ELSE "agente"
  /\ ev \in {"human_resolve", "human_reject"} => hist.decisiones < MaxDecisiones
  /\ Ejecutar(p, ev)

(* Faulty variant: the log belongs to the task that the state had before.   *)
Registrar_TareaAnterior(p) ==
  /\ pc[p] = "registrar"
  /\ log' = IF ll[p].id = Nada THEN log
            ELSE [log EXCEPT ![p] = [de |-> ll[p].t.de, a |-> ll[p].t.a]]
  /\ Ir(p, "guardar")
  /\ UNCHANGED <<est, ficheros, ambiente, ll, hist>>

(* _append_transition_log, in the directory of the task that the state has  *)
(* before the transition or after it.                                       *)
Registrar(p) ==
  /\ pc[p] = "registrar"
  /\ log' = [log EXCEPT ![p] = [de |-> ll[p].t.de, a |-> ll[p].t.a]]
  /\ Ir(p, "guardar")
  /\ UNCHANGED <<est, ficheros, ambiente, ll, hist>>

HistInicial == [retornos |-> 0, vueltas |-> 0, cruce |-> FALSE, resuelta |-> FALSE, cayo |-> FALSE,
                decisiones |-> 0]

Historia(c) ==
  LET h == [hist EXCEPT !.cruce = @ \/ c.viejo]
      t == c.t
      si(e) == e \in t.efs IN
  IF t = Nada THEN h
  ELSE IF si("bind_task") THEN [HistInicial EXCEPT !.cayo = hist.cayo]
  ELSE IF Cierra(t) THEN [HistInicial EXCEPT !.cayo = hist.cayo, !.cruce = h.cruce]
  ELSE [h EXCEPT
    !.retornos = IF si("reset_release") THEN 0
                 ELSE IF t.a = "ROLLING_BACK" THEN Hasta(@ + 1, 2) ELSE @,
    !.vueltas = IF t.ev = "human_resolve" /\ t.a = "DEVELOPING" THEN 0
                ELSE IF t.ev \in {"review_reject", "candidate_reject"}
                          /\ t.a \in {"REVIEW_REJECTED", "DEVELOPING"}
                THEN Hasta(@ + 1, MaxRework + 1) ELSE @,
    !.decisiones = IF t.ev \in {"human_resolve", "human_reject"} THEN @ + 1 ELSE @,
    !.resuelta = (@ \/ t.ev = "human_resolve") /\ ~si("reset_release")]

(* The command of q has loaded a state that it will save.                   *)
Pendiente(q) == pc[q] \notin {"libre", "vincular", "cerrar"}

(* common.save_state: state.json is replaced by what was computed from the  *)
(* state loaded at the start; other loaded states become old.               *)
Salvar(p, sigue) ==
  /\ est' = ll[p].nuevo
  /\ hist' = Historia(ll[p])
  /\ ll' = [q \in Terminales |->
              IF q # p /\ Pendiente(q) THEN [ll[q] EXCEPT !.viejo = TRUE] ELSE Nada]
  /\ Ir(p, sigue) /\ log' = [log EXCEPT ![p] = Nada]
  /\ UNCHANGED <<ficheros, ambiente>>

(* Faulty variant: DONE waits for someone to close it.                      *)
Guardar_SinCierre(p) == pc[p] = "guardar" /\ Salvar(p, "libre")

(* The end of apply_transition: save, and close a task that is DONE.        *)
Guardar(p) ==
  /\ pc[p] = "guardar"
  /\ Salvar(p, IF ll[p].t # Nada /\ ll[p].nuevo.estado = "DONE" THEN "cerrar" ELSE "libre")

AutoCierre(p) == pc[p] = "cerrar" /\ Ejecutar(p, "close")

(***************************************************************************)
(* closure.close_task: four files, one after the other, before the log and *)
(* state.json.  The bitacora is appended to: twice if the closing repeats. *)
(***************************************************************************)
Completar(p) ==
  /\ pc[p] = "completar"
  /\ completadas' = completadas \cup {ll[p].id}
  /\ Ir(p, "retirar")
  /\ UNCHANGED <<est, tarea, backlog, bitacora, log, ambiente, ll, hist>>

Retirar(p) ==
  /\ pc[p] = "retirar"
  /\ backlog' = backlog \ {ll[p].id}
  /\ Ir(p, "anotar")
  /\ UNCHANGED <<est, tarea, completadas, bitacora, log, ambiente, ll, hist>>

Anotar(p) ==
  /\ pc[p] = "anotar"
  /\ bitacora' = [bitacora EXCEPT ![ll[p].id] = Hasta(@ + 1, 2)]
  /\ Ir(p, "limpiar")
  /\ UNCHANGED <<est, tarea, backlog, completadas, log, ambiente, ll, hist>>

Limpiar(p) ==
  /\ pc[p] = "limpiar"
  /\ tarea' = Nada
  /\ Ir(p, "registrar")
  /\ UNCHANGED <<est, backlog, completadas, bitacora, log, ambiente, ll, hist>>

(***************************************************************************)
(* approve.py                                                              *)
(***************************************************************************)
(* activate: tasks/current.yaml first, then the transition.                 *)
Activar(t) ==
  /\ pc["humano"] = "libre" /\ est.estado = "IDLE" /\ est.tarea = Nada /\ t \in backlog
  /\ tarea' = t
  /\ Ir("humano", "vincular")
  /\ UNCHANGED <<est, backlog, completadas, bitacora, log, ambiente, ll, hist>>

Vincular == pc["humano"] = "vincular" /\ Ejecutar("humano", "activate_task")

(* The nested close is denied: the state is not DONE any more, or the task  *)
(* is not the current one.                                                  *)
Rechazar(p) ==
  /\ pc[p] = "cerrar"
  /\ ~(est.estado = "DONE" /\ tarea # Nada /\ tarea = est.tarea)
  /\ Ir(p, "libre")
  /\ UNCHANGED <<est, ficheros, log, ambiente, ll, hist>>

(* accept reads the state, waits for the human, writes the acceptance for   *)
(* the task that is active then, and saves the state it read with it.       *)
Aceptar ==
  /\ pc["humano"] = "libre" /\ est.estado = "VERIFYING"
  /\ tarea # Nada /\ Ficha[tarea].humanos
  /\ ll' = [ll EXCEPT !["humano"] = Cargado(Nada, est)]
  /\ Ir("humano", "aceptar")
  /\ UNCHANGED <<est, ficheros, log, ambiente, hist>>

EscribirAceptacion ==
  /\ pc["humano"] = "aceptar" /\ est.tarea # Nada
  /\ \E d \in {"accepted", "rejected"} :
       ll' = [ll EXCEPT !["humano"].nuevo.refs["acceptance"] = [dec |-> d, ver |-> ambiente]]
  /\ Ir("humano", "guardar")
  /\ UNCHANGED <<est, ficheros, log, ambiente, hist>>

(* The human does not confirm, or no task is active any more.               *)
NoAceptar ==
  /\ pc["humano"] = "aceptar"
  /\ Ir("humano", "libre") /\ ll' = [ll EXCEPT !["humano"] = Nada]
  /\ UNCHANGED <<est, ficheros, log, ambiente, hist>>

(***************************************************************************)
(* worktree.create loads the state, runs git and saves the state with one  *)
(* worktree more in its list, which nothing here reads.                    *)
(***************************************************************************)
CrearWorktree ==
  /\ pc["agente"] = "libre" /\ est.tarea # Nada
  /\ Rol[est.estado] \in {"developer", "reviewer", "deployer"}
  /\ ll' = [ll EXCEPT !["agente"] = Cargado(Nada, est)]
  /\ Ir("agente", "guardar")
  /\ UNCHANGED <<est, ficheros, log, ambiente, hist>>

(* The deployer's update of the environment, as its role and state allow.   *)
Actualizar ==
  /\ est.refs["approval"] # Nada
  /\ \/ est.estado = "DEPLOYING" /\ ambiente' = est.refs["approval"].ver
     \/ est.estado = "ROLLING_BACK" /\ ambiente' = est.refs["approval"].lkg
  /\ UNCHANGED <<est, ficheros, log, pc, ll, hist>>

(* A command dies between two of its writes; the history keeps whether it   *)
(* was one that writes task files.                                          *)
Caida(p) ==
  /\ pc[p] # "libre"
  /\ Ir(p, "libre") /\ ll' = [ll EXCEPT ![p] = Nada] /\ log' = [log EXCEPT ![p] = Nada]
  /\ hist' = [hist EXCEPT !.cayo = @ \/ pc[p] \in {"vincular", "cerrar"}
                                 \/ (Pendiente(p) /\ ll[p].t # Nada /\ DeTarea(ll[p].t))]
  /\ UNCHANGED <<est, ficheros, ambiente>>

Init ==
  /\ est = EstInicial
  /\ tarea = Nada /\ backlog \in Backlogs /\ completadas = {}
  /\ bitacora = [t \in Tareas |-> 0]
  /\ log = [p \in Terminales |-> Nada] /\ ambiente = Base
  /\ pc = [p \in Terminales |-> "libre"] /\ ll = [p \in Terminales |-> Nada]
  /\ hist = HistInicial

Next ==
  \/ \E p \in Terminales : \E ev \in Eventos : Comando(p, ev)
  \/ \E p \in Terminales :
       \/ Registrar(p) \/ Guardar(p) \/ AutoCierre(p) \/ Rechazar(p) \/ Caida(p)
       \/ Completar(p) \/ Retirar(p) \/ Anotar(p) \/ Limpiar(p)
  \/ \E t \in Tareas : Activar(t)
  \/ Vincular \/ Aceptar \/ EscribirAceptacion \/ NoAceptar
  \/ CrearWorktree \/ Actualizar

Spec == Init /\ [][Next]_vars

-----------------------------------------------------------------------------
(* The state file, the task files and the history have their types.         *)
TypeOK ==
  /\ est \in [estado : Estados, tarea : Tareas \cup {Nada}, rework : 0..MaxRework + 1,
              crework : 0..MaxArtefacto + 1, rollback : BOOLEAN,
              refs : {est.refs},
              dev : Sesiones \cup {Nada}]
  /\ DOMAIN est.refs = Refs
  /\ tarea \in Tareas \cup {Nada} /\ backlog \subseteq Tareas /\ completadas \subseteq Tareas
  /\ ambiente \in Versiones \cup {Base}
  /\ hist \in [retornos : 0..2, vueltas : 0..MaxRework + 1, cruce : BOOLEAN,
               resuelta : BOOLEAN, cayo : BOOLEAN, decisiones : 0..MaxDecisiones]

(* What is deployed is what the human approved and what the reviewer        *)
(* reviewed in another session: in DEPLOYING the approval names the         *)
(* candidate, and, unless a human resolution skipped a stage, the release   *)
(* has the tree of the approved review.  A task that deployed is DONE only  *)
(* with the approved release in the environment.                            *)
DespliegueSeguro ==
  /\ est.estado = "DEPLOYING" =>
       LET a == est.refs["approval"]
           r == est.refs["review_evidence"] IN
       /\ a # Nada /\ r # Nada
       /\ a.dec = "approved" /\ a.ver = est.refs["candidate_evidence"].ver
       /\ Arbol[a.ver.rel] = Arbol[r.head]
       /\ hist.resuelta \/ (r.dec = "APPROVED" /\ r.ses # est.refs["developer_evidence"].ses)
  /\ est.estado = "DONE" /\ tarea # Nada /\ Ficha[tarea].despliega /\ ~hist.cruce =>
       est.refs["approval"] # Nada /\ ambiente.rel = est.refs["approval"].ver.rel

(* The loops of the workflow end: between two decisions of the human the    *)
(* reviewer returns the work at most MaxRework times, and one approval      *)
(* permits one rollback, whatever the order of the commands, as long as no  *)
(* command saves over a state it has not read.                              *)
LimitesDelCiclo ==
  ~hist.cruce => hist.vueltas <= MaxRework /\ hist.retornos <= 1

(* The acceptance that a deployed task is DONE with was given for the       *)
(* version that is deployed, unless a human resolution skipped a stage.     *)
AceptacionVigente ==
  est.estado = "DONE" /\ tarea # Nada /\ Ficha[tarea].despliega /\ Ficha[tarea].humanos
    /\ ~hist.resuelta /\ ~hist.cruce
  => /\ est.refs["acceptance"] # Nada /\ est.refs["acceptance"].dec = "accepted"
     /\ est.refs["acceptance"].ver = est.refs["approval"].ver

(* What is delivered is safe from the review to the acceptance. *)
EntregaSegura == DespliegueSeguro /\ AceptacionVigente

(* No change of state is missing in transitions.jsonl: the log goes first.  *)
CadaCambioRegistrado ==
  [][est'.estado # est.estado =>
       hist'.cruce \/ \E p \in Terminales : log[p] = [de |-> est.estado, a |-> est'.estado]]_vars

(* The task files agree with the state: a task that the state names is the  *)
(* current one, or its closing has cleared it; DONE is being closed, unless *)
(* a command died; and a finished task has left the backlog, with one entry *)
(* in the bitacora if no closing died.                                      *)
Coherencia ==
  /\ TypeOK
  /\ ~hist.cruce =>
       /\ est.tarea # Nada => tarea = est.tarea \/ (tarea = Nada /\ est.tarea \in completadas)
       /\ est.estado = "DONE" /\ ~hist.cayo =>
            pc["agente"] \in {"cerrar", "completar", "retirar", "anotar", "limpiar",
                              "registrar", "guardar"}
       /\ est.tarea = Nada /\ pc["humano"] = "libre" /\ ~hist.cayo =>
            /\ tarea = Nada /\ completadas \cap backlog = {}
            /\ \A t \in Tareas : bitacora[t] = IF t \in completadas THEN 1 ELSE 0
=============================================================================
