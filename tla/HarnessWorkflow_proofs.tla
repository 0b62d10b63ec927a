------------------------ MODULE HarnessWorkflow_proofs ------------------------
(***************************************************************************)
(* Proofs about the workflow engine of the agent harness, for any tasks,   *)
(* sessions, commits, limits and number of commands; and, at the end, about *)
(* the gates where it meets the human, for any criteria, windows, drafts   *)
(* and tasks.                                                              *)
(*                                                                         *)
(* The argument: the human's terminal and the agent's alternate by the     *)
(* role of the state, so the only command that can be old when it saves is *)
(* accept, and a command of the agent that accept overtook.  What makes a  *)
(* delivery safe is carried by every state that is or may yet be saved,    *)
(* old or not (Seguro); the rest holds of what is fresh (Vigente), and the *)
(* task files are followed through the stages of a closing (Ficheros).     *)
(*                                                                         *)
(* Of the gates: until a command writes over what it had not read, the     *)
(* state, the current task and the backlog agree (Acuerdo); a window that  *)
(* is not old holds what the files hold (VentanaFresca); and as long as    *)
(* nothing moved since the human was asked, what the orchestrator holds is *)
(* what the state says (OrqFresco).                                        *)
(***************************************************************************)
EXTENDS HarnessWorkflow, HarnessGates, NaturalsInduction, WellFoundedInduction, TLAPS

-----------------------------------------------------------------------------
(* Definitions *)

Pasos == {"libre", "vincular", "cerrar", "completar", "retirar", "anotar", "limpiar",
          "registrar", "guardar", "aceptar"}

Fila(t) == \E i \in DOMAIN Transiciones : t = Transiciones[i]

Une(t) == "bind_task" \in t.efs

Ordinaria(t) == Fila(t) /\ ~DeTarea(t)

(* What a command that saves makes of each part of the history.             *)
Resuelta(t, R) ==
  IF t = Nada THEN R
  ELSE IF DeTarea(t) THEN FALSE
  ELSE (R \/ t.ev = "human_resolve") /\ "reset_release" \notin t.efs

Vueltas(t, n) ==
  IF t = Nada THEN n
  ELSE IF DeTarea(t) THEN 0
  ELSE IF t.ev = "human_resolve" /\ t.a = "DEVELOPING" THEN 0
  ELSE IF t.ev \in {"review_reject", "candidate_reject"} /\ t.a \in {"REVIEW_REJECTED", "DEVELOPING"}
  THEN Hasta(n + 1, MaxRework + 1) ELSE n

Retornos(t, n) ==
  IF t = Nada THEN n
  ELSE IF DeTarea(t) THEN 0
  ELSE IF "reset_release" \in t.efs THEN 0
  ELSE IF t.a = "ROLLING_BACK" THEN Hasta(n + 1, 2) ELSE n

Decisiones(t, n) ==
  IF t = Nada THEN n
  ELSE IF DeTarea(t) THEN 0
  ELSE IF t.ev \in {"human_resolve", "human_reject"} THEN n + 1 ELSE n

Cruza(c, x) == ~(c.t # Nada /\ Une(c.t)) /\ (x \/ c.viejo)

(* A state of state.json: TypeOK, and it names a task unless it is IDLE.    *)
Tipo(s) ==
  /\ s \in [estado : Estados, tarea : Tareas \cup {Nada}, rework : 0..MaxRework + 1,
            crework : 0..MaxArtefacto + 1, rollback : BOOLEAN, refs : {s.refs},
            dev : Sesiones \cup {Nada}]
  /\ DOMAIN s.refs = Refs
  /\ s.tarea = Nada <=> s.estado = "IDLE"

(* The versions that the references name can run in the environment.        *)
Valores(s) ==
  \A k \in {"candidate_evidence", "approval"} :
    s.refs[k] # Nada => s.refs[k].ver \in Versiones /\ s.refs[k].lkg \in Versiones \cup {Base}

EnEntrega == {"REVIEW_APPROVED", "MERGING", "PREPARING_DEPLOYMENT", "CANDIDATE_REVIEW",
              "WAITING_HUMAN_APPROVAL", "DEPLOYING"}

PosDespliegue == {"VERIFYING", "VERIFY_FAILED", "ROLLING_BACK", "BLOCKED_HUMAN", "DONE"}

(* What makes a delivery safe, stage by stage; R: a human resolution may    *)
(* have skipped a stage.                                                    *)
Revisado(s) ==
  LET r == s.refs["review_evidence"] IN
  /\ r # Nada /\ r.dec = "APPROVED" /\ r.ses # s.refs["developer_evidence"].ses

ConArbol(s) ==
  LET r == s.refs["review_evidence"] IN
  r # Nada /\ Arbol[s.refs["candidate_evidence"].ver.rel] = Arbol[r.head]

Aprobado(s) ==
  LET a == s.refs["approval"] IN
  a # Nada /\ a.dec = "approved" /\ a.ver = s.refs["candidate_evidence"].ver

Seguro(s, R) ==
  /\ s.estado \in EnEntrega => R \/ Revisado(s)
  /\ s.estado \in {"WAITING_HUMAN_APPROVAL", "DEPLOYING"} => ConArbol(s)
  /\ s.estado = "DEPLOYING" => Aprobado(s)

(* What holds of a state as long as nobody saved over what he had not read; *)
(* v and n: the returned reviews and the rollbacks of the history.          *)
Desplegado(s, R) ==
  LET a == s.refs["approval"]
      b == s.refs["acceptance"] IN
  /\ s.estado = "VERIFYING" /\ ~R => a # Nada /\ ambiente = a.ver
  /\ b # Nada /\ ~R => /\ s.estado \in PosDespliegue
                       /\ s.estado = "VERIFYING" => b.ver = a.ver
  /\ s.estado = "DONE" /\ tarea # Nada /\ Ficha[tarea].despliega =>
       /\ a # Nada /\ ambiente.rel = a.ver.rel
       /\ Ficha[tarea].humanos /\ ~R => b # Nada /\ b.dec = "accepted" /\ b.ver = a.ver

Cuentas(s, v, n) ==
  /\ v <= MaxRework /\ v <= s.rework
  /\ n <= 1 /\ (n >= 1 => s.rollback)

DeLaTarea(s) ==
  s.tarea # Nada => tarea = s.tarea \/ (tarea = Nada /\ s.tarea \in completadas)

Vigente(s, R, v, n) == Desplegado(s, R) /\ Cuentas(s, v, n) /\ DeLaTarea(s)

VigenteEst == Vigente(est, hist.resuelta, hist.vueltas, hist.retornos)

VigentePendiente(c) ==
  Vigente(c.nuevo, Resuelta(c.t, hist.resuelta), Vueltas(c.t, hist.vueltas),
          Retornos(c.t, hist.retornos))

(* A command under way closes a task; it is past the four files.            *)
EnCierre == {"completar", "retirar", "anotar", "limpiar"}

Guardando(p) == pc[p] \in {"registrar", "guardar"} /\ ll[p].t # Nada /\ Cierra(ll[p].t)

Cerrando(p) == pc[p] \in EnCierre \/ Guardando(p)

-----------------------------------------------------------------------------
(* The inductive invariant *)

Tipos ==
  /\ Tipo(est) /\ Valores(est)
  /\ tarea \in Tareas \cup {Nada} /\ backlog \subseteq Tareas /\ completadas \subseteq Tareas
  /\ ambiente \in Versiones \cup {Base}
  /\ DOMAIN bitacora = Tareas /\ bitacora = [t \in Tareas |-> bitacora[t]]
  /\ hist \in [retornos : 0..2, vueltas : 0..MaxRework + 1, cruce : BOOLEAN,
               resuelta : BOOLEAN, cayo : BOOLEAN, decisiones : 0..MaxDecisiones]
  /\ pc \in [Terminales -> Pasos]
  /\ DOMAIN ll = Terminales /\ DOMAIN log = Terminales

(* What a command under way has loaded, and will save, whenever it does.    *)
Orden(p) ==
  LET c == ll[p] IN
  /\ c \in [t : {c.t}, nuevo : {c.nuevo}, id : {c.id}, viejo : BOOLEAN]
  /\ Tipo(c.nuevo) /\ Valores(c.nuevo) /\ Seguro(c.nuevo, Resuelta(c.t, hist.resuelta))
  /\ c.t = Nada =>
       /\ pc[p] \in {"aceptar", "guardar"}
       /\ p = "humano" => c.nuevo.estado = "VERIFYING"
       /\ c.nuevo.estado \in DeDeveloper \cup DeReviewer \cup DeDeployer
  /\ c.t # Nada =>
       /\ Fila(c.t) /\ c.nuevo.estado = c.t.a
       /\ c.t.de \in DeHumano <=> p = "humano"
       /\ pc[p] \in EnCierre \cup {"registrar", "guardar"}
       /\ pc[p] \in EnCierre => Cierra(c.t)
       /\ Cierra(c.t) => /\ c.id \in Tareas /\ c.nuevo = EstInicial
                         /\ pc[p] # "completar" => c.id \in completadas
       /\ pc[p] = "guardar" => log[p] = [de |-> c.t.de, a |-> c.t.a]

(* A command that nobody overtook.                                          *)
Fresca(p) ==
  LET c == ll[p] IN
  /\ c.id = est.tarea
  /\ c.t # Nada => c.t.de = est.estado
  /\ c.t = Nada => c.nuevo.estado = est.estado /\ (pc[p] = "aceptar" => c.nuevo = est)
  /\ est.estado = "DEPLOYING" => c.nuevo.refs["approval"] = est.refs["approval"]
  /\ c.t = Nada \/ Ordinaria(c.t) => c.nuevo.tarea = est.tarea
  /\ c.t # Nada /\ Une(c.t) => c.nuevo.tarea = tarea
  /\ c.t # Nada /\ c.t.ev \in {"human_resolve", "human_reject"} => hist.decisiones < MaxDecisiones
  /\ ~Cruza(c, hist.cruce) => VigentePendiente(c)

(* Whose turn it is: in a state of the human the agent runs nothing, and    *)
(* nobody overtakes the human but when he accepts.                          *)
Turnos ==
  /\ est.estado \in DeHumano => pc["agente"] = "libre"
  /\ pc["humano"] # "cerrar" /\ pc["agente"] \notin {"vincular", "aceptar"}
  /\ pc["humano"] = "vincular" => est.estado = "IDLE"
  /\ Pendiente("humano") /\ ll["humano"].t # Nada => ~ll["humano"].viejo
  /\ \A p \in Terminales : Cerrando(p) /\ ~hist.cruce => ~ll[p].viejo

Archivo(t) ==
  IF t \in completadas THEN t \notin backlog /\ bitacora[t] = 1 ELSE bitacora[t] = 0

(* The task files, as long as nothing that writes them died.                *)
Ficheros ==
  /\ \A t \in Tareas :
       Archivo(t) \/ \E p \in Terminales : pc[p] \in {"retirar", "anotar"} /\ ll[p].id = t
  /\ tarea \in completadas => \E p \in Terminales : pc[p] \in EnCierre \ {"completar"}
  /\ \A p \in Terminales :
       /\ pc[p] \in EnCierre => tarea = ll[p].id
       /\ pc[p] = "completar" => ll[p].id \notin completadas
       /\ pc[p] \in {"retirar", "anotar"} => bitacora[ll[p].id] = 0
       /\ pc[p] = "anotar" => ll[p].id \notin backlog
       /\ Guardando(p) => tarea = Nada
  /\ est.estado = "IDLE" /\ pc["humano"] # "vincular"
       /\ ~(Pendiente("humano") /\ ll["humano"].t # Nada) => tarea = Nada
  /\ ~hist.cruce =>
       /\ est.tarea # Nada /\ tarea # est.tarea => \E p \in Terminales : Guardando(p)
       /\ est.estado = "DONE" => pc["agente"] = "cerrar" \/ Cerrando("agente")

Inv ==
  /\ Tipos
  /\ Seguro(est, hist.resuelta)
  /\ ~hist.cruce => VigenteEst
  /\ \A p \in Terminales : Pendiente(p) => Orden(p)
  /\ \A p \in Terminales : Pendiente(p) /\ ~ll[p].viejo => Fresca(p)
  /\ Turnos
  /\ ~hist.cayo => Ficheros

-----------------------------------------------------------------------------
(* What workflow.yaml says of its transitions *)

LEMMA Dominio == DOMAIN Transiciones = 1..39
BY DEF Transiciones

LEMMA FilaTipo ==
  ASSUME NEW t, Fila(t)
  PROVE  t # Nada /\ t.de \in Estados /\ t.a \in Estados /\ t.rec # "acceptance"
<1>1. PICK i \in 1..39 : t = Transiciones[i] BY Dominio DEF Fila
<1>2. t # Nada BY <1>1, Dominio, WorkflowAssumption
<1>3. t.de \in Estados /\ t.a \in Estados /\ t.rec # "acceptance"
  <2>1. CASE i \in 1..13 BY <1>1, <2>1, SMTT(60) DEF Transiciones, T, Estados, DeHumano, DeDeveloper,
                            DeReviewer, DeDeployer, DelSistema
  <2>2. CASE i \in 14..26 BY <1>1, <2>2, SMTT(60) DEF Transiciones, T, Estados, DeHumano,
                             DeDeveloper, DeReviewer, DeDeployer, DelSistema
  <2>3. CASE i \in 27..39 BY <1>1, <2>3, SMTT(60) DEF Transiciones, T, Estados, DeHumano,
                             DeDeveloper, DeReviewer, DeDeployer, DelSistema
  <2> QED BY <2>1, <2>2, <2>3
<1> QED BY <1>2, <1>3

(* The transitions that bind a task or close it are apart from the others.  *)
LEMMA FilaTarea ==
  ASSUME NEW t, Fila(t)
  PROVE  /\ Une(t) => /\ ~Cierra(t) /\ t.de = "IDLE" /\ t.a = "NEW" /\ t.ev = "activate_task"
                      /\ t.rec = "ninguna" /\ "task_selected" \in t.gs
         /\ Cierra(t) => t.de \in {"DONE", "BLOCKED_HUMAN"} /\ t.a = "IDLE"
         /\ ~DeTarea(t) => t.de # "IDLE" /\ t.a # "IDLE"
         /\ t.ev = "close" => Cierra(t)
         /\ t.ev = "activate_task" => Une(t)
         /\ t.de = "IDLE" => Une(t)
         /\ t.de = "DONE" => Cierra(t)
<1>0. Cierra(t) <=> "close_task" \in t.efs \/ "cancel_task" \in t.efs BY DEF Cierra
<1>1. PICK i \in 1..39 : t = Transiciones[i] BY Dominio DEF Fila
<1>2. CASE i \in 1..10 BY <1>1, <1>2, <1>0, SMTT(60) DEF Transiciones, T, DeTarea, Une
<1>3. CASE i \in 11..20 BY <1>1, <1>3, <1>0, SMTT(60) DEF Transiciones, T, DeTarea, Une
<1>4. CASE i \in 21..30 BY <1>1, <1>4, <1>0, SMTT(60) DEF Transiciones, T, DeTarea, Une
<1>5. CASE i \in 31..39 BY <1>1, <1>5, <1>0, SMTT(60) DEF Transiciones, T, DeTarea, Une
<1> QED BY <1>2, <1>3, <1>4, <1>5

(* Into the stages of a delivery a release comes with its review, from the  *)
(* stage before, or by a human resolution.                                  *)
LEMMA FilaEntrega ==
  ASSUME NEW t, Fila(t), t.a \in EnEntrega
  PROVE  /\ ~DeTarea(t) /\ "reset_release" \notin t.efs
         /\ \/ t.a = "REVIEW_APPROVED" /\ "review_approved" \in t.gs /\ t.limpia = {}
            \/ /\ t.de \in EnEntrega
               /\ {t.rec} \cap {"review_evidence", "developer_evidence"} = {}
               /\ t.limpia \cap {"review_evidence", "developer_evidence"} = {}
            \/ t.ev = "human_resolve"
<1>0. Cierra(t) <=> "close_task" \in t.efs \/ "cancel_task" \in t.efs BY DEF Cierra
<1>1. PICK i \in 1..39 : t = Transiciones[i] BY Dominio DEF Fila
<1>2. CASE i \in 1..10 BY <1>1, <1>2, <1>0, SMTT(60) DEF Transiciones, T, DeTarea, EnEntrega
<1>3. CASE i \in 11..20 BY <1>1, <1>3, <1>0, SMTT(60) DEF Transiciones, T, DeTarea, EnEntrega
<1>4. CASE i \in 21..30 BY <1>1, <1>4, <1>0, SMTT(60) DEF Transiciones, T, DeTarea, EnEntrega
<1>5. CASE i \in 31..39 BY <1>1, <1>5, <1>0, SMTT(60) DEF Transiciones, T, DeTarea, EnEntrega
<1> QED BY <1>2, <1>3, <1>4, <1>5

LEMMA FilaAprobacion ==
  ASSUME NEW t, Fila(t)
  PROVE  /\ t.a = "WAITING_HUMAN_APPROVAL" => t.limpia = {} /\ "candidate_review_approved" \in t.gs
         /\ t.a = "DEPLOYING" => /\ t.de = "WAITING_HUMAN_APPROVAL" /\ t.rec = "approval"
                                 /\ t.limpia = {} /\ "approval_valid" \in t.gs
         /\ t.de = "DEPLOYING" => /\ t.rec # "approval" /\ t.limpia = {} /\ ~DeTarea(t)
                                  /\ "reset_release" \notin t.efs
<1>0. Cierra(t) <=> "close_task" \in t.efs \/ "cancel_task" \in t.efs BY DEF Cierra
<1>1. PICK i \in 1..39 : t = Transiciones[i] BY Dominio DEF Fila
<1>2. CASE i \in 1..10 BY <1>1, <1>2, <1>0, SMTT(60) DEF Transiciones, T, DeTarea
<1>3. CASE i \in 11..20 BY <1>1, <1>3, <1>0, SMTT(60) DEF Transiciones, T, DeTarea
<1>4. CASE i \in 21..30 BY <1>1, <1>4, <1>0, SMTT(60) DEF Transiciones, T, DeTarea
<1>5. CASE i \in 31..39 BY <1>1, <1>5, <1>0, SMTT(60) DEF Transiciones, T, DeTarea
<1> QED BY <1>2, <1>3, <1>4, <1>5

LEMMA FilaVerificacion ==
  ASSUME NEW t, Fila(t)
  PROVE  /\ t.a = "VERIFYING" =>
              /\ ~DeTarea(t) /\ "reset_release" \notin t.efs /\ t.limpia = {}
              /\ t.de \in {"DEPLOYING", "BLOCKED_HUMAN"}
              /\ \/ t.ev = "human_resolve"
                 \/ "deployment_succeeded" \in t.gs /\ t.rec = "deployment_evidence"
         /\ t.a = "DONE" =>
              /\ ~DeTarea(t) /\ "reset_release" \notin t.efs /\ t.limpia = {}
              /\ t.ev # "human_resolve" /\ t.de \in {"MERGING", "VERIFYING"}
              /\ \/ "no_deploy_required" \in t.gs
                 \/ /\ t.de = "VERIFYING" /\ t.rec = "verification_evidence"
                    /\ "verification_passed" \in t.gs
         /\ t.de \in PosDespliegue /\ t.ev # "human_resolve" /\ ~DeTarea(t) =>
              t.a \in PosDespliegue \ {"VERIFYING"}
<1>0. Cierra(t) <=> "close_task" \in t.efs \/ "cancel_task" \in t.efs BY DEF Cierra
<1>1. PICK i \in 1..39 : t = Transiciones[i] BY Dominio DEF Fila
<1>2. CASE i \in 1..10 BY <1>1, <1>2, <1>0, SMTT(150) DEF Transiciones, T, DeTarea, PosDespliegue
<1>3. CASE i \in 11..20 BY <1>1, <1>3, <1>0, SMTT(150) DEF Transiciones, T, DeTarea, PosDespliegue
<1>4. CASE i \in 21..30 BY <1>1, <1>4, <1>0, SMTT(150) DEF Transiciones, T, DeTarea, PosDespliegue
<1>5. CASE i \in 31..39 BY <1>1, <1>5, <1>0, SMTT(150) DEF Transiciones, T, DeTarea, PosDespliegue
<1> QED BY <1>2, <1>3, <1>4, <1>5

LEMMA FilaLimites ==
  ASSUME NEW t, Fila(t), ~DeTarea(t)
  PROVE  /\ t.ev \in {"review_reject", "candidate_reject"} /\ t.a \in {"REVIEW_REJECTED", "DEVELOPING"}
              => "rework_available" \in t.gs /\ "increment_rework" \in t.efs
         /\ "reset_rework" \in t.efs => t.ev = "human_resolve" /\ t.a = "DEVELOPING"
         /\ t.a = "ROLLING_BACK" => /\ "rollback_permitted" \in t.gs
                                    /\ "mark_rollback_attempted" \in t.efs
                                    /\ "reset_release" \notin t.efs
<1>0. Cierra(t) <=> "close_task" \in t.efs \/ "cancel_task" \in t.efs BY DEF Cierra
<1>1. PICK i \in 1..39 : t = Transiciones[i] BY Dominio DEF Fila
<1>2. CASE i \in 1..10 BY <1>1, <1>2, <1>0, SMTT(60) DEF Transiciones, T, DeTarea
<1>3. CASE i \in 11..20 BY <1>1, <1>3, <1>0, SMTT(60) DEF Transiciones, T, DeTarea
<1>4. CASE i \in 21..30 BY <1>1, <1>4, <1>0, SMTT(60) DEF Transiciones, T, DeTarea
<1>5. CASE i \in 31..39 BY <1>1, <1>5, <1>0, SMTT(60) DEF Transiciones, T, DeTarea
<1> QED BY <1>2, <1>3, <1>4, <1>5

LEMMA FilaHumana ==
  ASSUME NEW t, Fila(t), t.ev \in {"human_resolve", "human_reject"}
  PROVE  t.de \in DeHumano
<1>1. PICK i \in 1..39 : t = Transiciones[i] BY Dominio DEF Fila
<1>2. CASE i \in 1..10 BY <1>1, <1>2, SMTT(60) DEF Transiciones, T, DeHumano
<1>3. CASE i \in 11..20 BY <1>1, <1>3, SMTT(60) DEF Transiciones, T, DeHumano
<1>4. CASE i \in 21..30 BY <1>1, <1>4, SMTT(60) DEF Transiciones, T, DeHumano
<1>5. CASE i \in 31..39 BY <1>1, <1>5, SMTT(60) DEF Transiciones, T, DeHumano
<1> QED BY <1>2, <1>3, <1>4, <1>5

LEMMA Roles ==
  ASSUME NEW s \in Estados
  PROVE  /\ Rol[s] = "human" <=> s \in DeHumano
         /\ Rol[s] \in {"developer", "reviewer", "deployer"} <=>
              s \in DeDeveloper \cup DeReviewer \cup DeDeployer
         /\ s \in DeDeveloper \cup DeReviewer \cup DeDeployer =>
              s # "DONE" /\ s # "IDLE" /\ s \notin DeHumano
BY DEF Rol, Estados, DeHumano, DeDeveloper, DeReviewer, DeDeployer, DelSistema

LEMMA EventosPropios == "close" \in Eventos /\ "activate_task" \in Eventos
<1>1. Transiciones[1].ev = "activate_task" /\ Transiciones[39].ev = "close"
  BY DEF Transiciones, T
<1>2. 1 \in DOMAIN Transiciones /\ 39 \in DOMAIN Transiciones BY Dominio
<1> QED BY <1>1, <1>2 DEF Eventos, ToSet

-----------------------------------------------------------------------------
(* What the guards read, and what a transition makes of the state *)

Fuera(t) == t.limpia \cup (IF "reset_release" \in t.efs THEN Refs ELSE {})

LEMMA Contextos ==
  ASSUME Tipo(est), NEW t, NEW e, NEW ses, NEW x, x = Contexto(t, e, ses)
  PROVE  /\ x.ev = e /\ x.ses = ses
         /\ x.s.estado = est.estado /\ x.s.tarea = est.tarea /\ x.s.rework = est.rework
         /\ x.s.crework = est.crework /\ x.s.rollback = est.rollback /\ x.s.dev = est.dev
         /\ DOMAIN x.s.refs = Refs
         /\ \A k \in Refs : x.s.refs[k] = IF k = t.rec THEN e ELSE est.refs[k]
         /\ x.s \in [estado : Estados, tarea : Tareas \cup {Nada}, rework : 0..MaxRework + 1,
                     crework : 0..MaxArtefacto + 1, rollback : BOOLEAN, refs : {x.s.refs},
                     dev : Sesiones \cup {Nada}]
<1>1. x.ev = e /\ x.ses = ses BY DEF Contexto
<1>2. CASE t.rec \in Refs
  <2>1. x.s = [est EXCEPT !.refs[t.rec] = e] BY <1>2 DEF Contexto
  <2>2. x.s.refs = [est.refs EXCEPT ![t.rec] = e] BY <2>1 DEF Tipo
  <2> QED BY <1>1, <2>1, <2>2, <1>2 DEF Tipo
<1>3. CASE t.rec \notin Refs
  <2>1. x.s = est BY <1>3 DEF Contexto
  <2> QED BY <1>1, <2>1, <1>3 DEF Tipo
<1> QED BY <1>2, <1>3

LEMMA Ronda ==
  ASSUME NEW n \in 0..MaxRework + 1, NEW m \in 0..MaxArtefacto + 1, NEW t
  PROVE  rework_round(n, t) \in 0..MaxRework + 1 /\ candidate_rework_round(m, t) \in 0..MaxArtefacto + 1
BY WorkflowAssumption DEF rework_round, candidate_rework_round, Hasta

LEMMA Efecto ==
  ASSUME Tipo(est), NEW t, Fila(t), ~DeTarea(t), t.de = est.estado, NEW e, NEW ses \in SesionesDe(t),
         NEW n, n = _apply_effect(Contexto(t, e, ses).s, t, ses)
  PROVE  /\ n.estado = t.a /\ n.tarea = est.tarea /\ n.rework = rework_round(est.rework, t)
         /\ n.rollback = ((est.rollback \/ "mark_rollback_attempted" \in t.efs)
                            /\ "reset_release" \notin t.efs)
         /\ \A k \in Refs :
              n.refs[k] = IF k \in Fuera(t) THEN Nada ELSE IF k = t.rec THEN e ELSE est.refs[k]
         /\ Tipo(n)
<1> DEFINE x == Contexto(t, e, ses)
<1>1. /\ x.s.estado = est.estado /\ x.s.tarea = est.tarea /\ x.s.rework = est.rework
      /\ x.s.crework = est.crework /\ x.s.rollback = est.rollback /\ x.s.dev = est.dev
      /\ \A k \in Refs : x.s.refs[k] = IF k = t.rec THEN e ELSE est.refs[k]
      /\ x.s \in [estado : Estados, tarea : Tareas \cup {Nada}, rework : 0..MaxRework + 1,
                  crework : 0..MaxArtefacto + 1, rollback : BOOLEAN, refs : {x.s.refs},
                  dev : Sesiones \cup {Nada}]
  BY Contextos
<1> HIDE DEF x
<1>2. n = [x.s EXCEPT
             !.estado  = t.a,
             !.dev     = IF GrabaDeveloper(t) THEN ses ELSE @,
             !.rework  = rework_round(@, t),
             !.crework = candidate_rework_round(@, t),
             !.rollback = (@ \/ "mark_rollback_attempted" \in t.efs) /\ "reset_release" \notin t.efs,
             !.refs    = clear_refs(@, t)]
  <2>1. ~Cierra(t) /\ "bind_task" \notin t.efs BY DEF DeTarea
  <2> QED BY <2>1 DEF _apply_effect, x
<1>3. /\ n.estado = t.a /\ n.tarea = est.tarea /\ n.rework = rework_round(est.rework, t)
      /\ n.crework = candidate_rework_round(est.crework, t)
      /\ n.dev = IF GrabaDeveloper(t) THEN ses ELSE est.dev
      /\ n.rollback = ((est.rollback \/ "mark_rollback_attempted" \in t.efs)
                         /\ "reset_release" \notin t.efs)
      /\ n.refs = clear_refs(x.s.refs, t)
  BY <1>1, <1>2
<1>4. n.refs = [k \in Refs |-> IF k \in Fuera(t) THEN Nada ELSE x.s.refs[k]]
  BY <1>3 DEF clear_refs, Fuera, RELEASE_REFS
<1>5. \A k \in Refs :
        n.refs[k] = IF k \in Fuera(t) THEN Nada ELSE IF k = t.rec THEN e ELSE est.refs[k]
  BY <1>1, <1>4
<1>6. t.a \in Estados /\ t.a # "IDLE" /\ est.estado # "IDLE" BY FilaTipo, FilaTarea
<1>7. n.dev \in Sesiones \cup {Nada}
  BY <1>3, <1>1 DEF SesionesDe, Tipo
<1>8. n.rework \in 0..MaxRework + 1 /\ n.crework \in 0..MaxArtefacto + 1
  BY <1>3, <1>1, Ronda DEF Tipo
<1>9. Tipo(n)
  <2>1. n.tarea \in Tareas \cup {Nada} /\ n.rollback \in BOOLEAN /\ n.tarea # Nada
    BY <1>3, <1>6 DEF Tipo
  <2>2. n \in [estado : Estados, tarea : Tareas \cup {Nada}, rework : 0..MaxRework + 1,
               crework : 0..MaxArtefacto + 1, rollback : BOOLEAN, refs : {n.refs},
               dev : Sesiones \cup {Nada}]
    BY <1>1, <1>2, <1>3, <1>6, <1>7, <1>8, <2>1
  <2>3. DOMAIN n.refs = Refs BY <1>4
  <2> QED BY <2>1, <2>2, <2>3, <1>3, <1>6 DEF Tipo
<1> QED BY <1>3, <1>5, <1>9

(* The state after a task is bound.                                         *)
Vinculado == [estado |-> "NEW", tarea |-> tarea, rework |-> 0, crework |-> 0,
              rollback |-> FALSE, refs |-> SinRefs, dev |-> Nada]

LEMMA EfectoTarea ==
  ASSUME NEW t, Fila(t), NEW s, NEW ses, NEW n, n = _apply_effect(s, t, ses), tarea \in Tareas \cup {Nada}
  PROVE  /\ Cierra(t) => n = EstInicial
         /\ Une(t) => n = Vinculado
<1>1. Cierra(t) => n = EstInicial BY FilaTarea DEF _apply_effect, Une
<1>2. Une(t) => n = [EstInicial EXCEPT !.estado = "NEW", !.tarea = tarea]
  BY FilaTarea DEF _apply_effect, bind_task, Une
<1> QED BY <1>1, <1>2 DEF EstInicial, Vinculado

LEMMA TipoInicial ==
  /\ Tipo(EstInicial) /\ Valores(EstInicial)
  /\ EstInicial.estado = "IDLE" /\ EstInicial.tarea = Nada /\ EstInicial.rework = 0
  /\ \A k \in Refs : EstInicial.refs[k] = Nada
<1>1. "IDLE" \in Estados BY DEF Estados, DeHumano
<1>2. DOMAIN SinRefs = Refs /\ \A k \in Refs : SinRefs[k] = Nada BY DEF SinRefs
<1>3. "candidate_evidence" \in Refs /\ "approval" \in Refs BY DEF Refs
<1>4. Tipo(EstInicial)
  BY <1>1, <1>2, WorkflowAssumption DEF Tipo, EstInicial
<1>5. Valores(EstInicial) BY <1>2, <1>3 DEF EstInicial, Valores
<1> QED BY <1>2, <1>4, <1>5 DEF EstInicial

LEMMA TipoNueva ==
  ASSUME tarea \in Tareas
  PROVE  /\ Tipo(Vinculado) /\ Valores(Vinculado)
         /\ Vinculado.estado = "NEW" /\ Vinculado.tarea = tarea
         /\ Vinculado.rework = 0 /\ \A k \in Refs : Vinculado.refs[k] = Nada
<1>1. "NEW" \in Estados BY DEF Estados, DeDeveloper
<1>2. DOMAIN SinRefs = Refs /\ \A k \in Refs : SinRefs[k] = Nada BY DEF SinRefs
<1>3. "candidate_evidence" \in Refs /\ "approval" \in Refs BY DEF Refs
<1>4. Tipo(Vinculado) BY <1>1, <1>2, WorkflowAssumption DEF Tipo, Vinculado
<1>5. Valores(Vinculado) BY <1>2, <1>3 DEF Valores, Vinculado
<1> QED BY <1>2, <1>4, <1>5 DEF Vinculado

(* The history after a command saves, field by field.                       *)
LEMMA Historias ==
  ASSUME NEW c, c.t = Nada \/ Fila(c.t), c.viejo \in BOOLEAN,
         hist \in [retornos : 0..2, vueltas : 0..MaxRework + 1, cruce : BOOLEAN,
                   resuelta : BOOLEAN, cayo : BOOLEAN, decisiones : 0..MaxDecisiones],
         NEW h, h = Historia(c)
  PROVE  /\ h.cruce = Cruza(c, hist.cruce) /\ h.cayo = hist.cayo
         /\ h.resuelta = Resuelta(c.t, hist.resuelta) /\ h.vueltas = Vueltas(c.t, hist.vueltas)
         /\ h.retornos = Retornos(c.t, hist.retornos)
         /\ h.decisiones = Decisiones(c.t, hist.decisiones)
         /\ (c.t # Nada /\ c.t.ev \in {"human_resolve", "human_reject"}
               => hist.decisiones < MaxDecisiones)
            => h \in [retornos : 0..2, vueltas : 0..MaxRework + 1, cruce : BOOLEAN,
                      resuelta : BOOLEAN, cayo : BOOLEAN, decisiones : 0..MaxDecisiones]
<1> DEFINE TH == [retornos : 0..2, vueltas : 0..MaxRework + 1, cruce : BOOLEAN,
                  resuelta : BOOLEAN, cayo : BOOLEAN, decisiones : 0..MaxDecisiones]
           g == [hist EXCEPT !.cruce = @ \/ c.viejo]
<1>1. /\ g \in TH /\ g.cruce = (hist.cruce \/ c.viejo) /\ g.cayo = hist.cayo
      /\ g.resuelta = hist.resuelta /\ g.vueltas = hist.vueltas /\ g.retornos = hist.retornos
      /\ g.decisiones = hist.decisiones
  OBVIOUS
<1>2. CASE c.t = Nada
  <2>1. h = g BY <1>2 DEF Historia
  <2> QED BY <2>1, <1>1, <1>2 DEF Cruza, Resuelta, Vueltas, Retornos, Decisiones
<1>3. CASE c.t # Nada /\ Une(c.t)
  <2>1. h = [HistInicial EXCEPT !.cayo = hist.cayo] BY <1>3 DEF Historia, Une
  <2>2. h = [retornos |-> 0, vueltas |-> 0, cruce |-> FALSE, resuelta |-> FALSE,
             cayo |-> hist.cayo, decisiones |-> 0]
    BY <2>1 DEF HistInicial
  <2>3. DeTarea(c.t) BY <1>3 DEF DeTarea, Une
  <2>4. h.cruce = Cruza(c, hist.cruce)
    <3>1. h.cruce = FALSE BY <2>2
    <3>2. Cruza(c, hist.cruce) = FALSE BY <1>3 DEF Cruza
    <3> QED BY <3>1, <3>2
  <2>5. /\ Resuelta(c.t, hist.resuelta) = FALSE /\ Vueltas(c.t, hist.vueltas) = 0
        /\ Retornos(c.t, hist.retornos) = 0 /\ Decisiones(c.t, hist.decisiones) = 0
    BY <2>3, <1>3 DEF Resuelta, Vueltas, Retornos, Decisiones
  <2>6. h.cayo = hist.cayo /\ h.resuelta = FALSE /\ h.vueltas = 0 /\ h.retornos = 0 /\ h.decisiones = 0
    BY <2>2
  <2>7. h \in TH BY <2>2, WorkflowAssumption
  <2> QED BY <2>4, <2>5, <2>6, <2>7, Zenon
<1>4. CASE c.t # Nada /\ ~Une(c.t) /\ Cierra(c.t)
  <2>1. h = [HistInicial EXCEPT !.cayo = hist.cayo, !.cruce = g.cruce] BY <1>4 DEF Historia, Une
  <2>2. h = [retornos |-> 0, vueltas |-> 0, cruce |-> hist.cruce \/ c.viejo, resuelta |-> FALSE,
             cayo |-> hist.cayo, decisiones |-> 0]
    BY <2>1, <1>1 DEF HistInicial
  <2>3. DeTarea(c.t) BY <1>4 DEF DeTarea
  <2>4. h.cruce = Cruza(c, hist.cruce) BY <2>2, <1>4 DEF Cruza
  <2> QED BY <2>2, <2>3, <2>4, <1>1, <1>4, WorkflowAssumption
      DEF Resuelta, Vueltas, Retornos, Decisiones
<1>5. CASE c.t # Nada /\ ~DeTarea(c.t)
  <2> DEFINE t == c.t
             A == IF "reset_release" \in t.efs THEN 0
                  ELSE IF t.a = "ROLLING_BACK" THEN Hasta(g.retornos + 1, 2) ELSE g.retornos
             B == IF t.ev = "human_resolve" /\ t.a = "DEVELOPING" THEN 0
                  ELSE IF t.ev \in {"review_reject", "candidate_reject"}
                            /\ t.a \in {"REVIEW_REJECTED", "DEVELOPING"}
                  THEN Hasta(g.vueltas + 1, MaxRework + 1) ELSE g.vueltas
             D == IF t.ev \in {"human_resolve", "human_reject"} THEN g.decisiones + 1 ELSE g.decisiones
             R == (g.resuelta \/ t.ev = "human_resolve") /\ "reset_release" \notin t.efs
  <2>1. h = [g EXCEPT !.retornos = A, !.vueltas = B, !.decisiones = D, !.resuelta = R]
    BY <1>5, <1>1 DEF Historia, DeTarea
  <2>2. A \in 0..2 /\ B \in 0..MaxRework + 1 /\ R \in BOOLEAN
    BY <1>1, WorkflowAssumption DEF Hasta
  <2>3. (t.ev \in {"human_resolve", "human_reject"} => hist.decisiones < MaxDecisiones)
          => D \in 0..MaxDecisiones
    BY <1>1, WorkflowAssumption
  <2>4. A = Retornos(t, hist.retornos) /\ B = Vueltas(t, hist.vueltas)
        /\ D = Decisiones(t, hist.decisiones) /\ R = Resuelta(t, hist.resuelta)
    BY <1>1, <1>5 DEF Retornos, Vueltas, Decisiones, Resuelta
  <2>5. g.cruce = Cruza(c, hist.cruce) BY <1>1, <1>5 DEF Cruza, DeTarea, Une
  <2> HIDE DEF A, B, D, R, g
  <2>6. /\ h.cruce = g.cruce /\ h.cayo = g.cayo /\ h.resuelta = R /\ h.vueltas = B
        /\ h.retornos = A /\ h.decisiones = D
    BY <2>1, <1>1
  <2>7. D \in 0..MaxDecisiones => h \in TH BY <2>1, <2>2, <1>1
  <2> QED BY <2>3, <2>4, <2>5, <2>6, <2>7, <1>1, <1>5
<1> QED BY <1>2, <1>3, <1>4, <1>5 DEF DeTarea, Une

-----------------------------------------------------------------------------
(* A command loads the state *)

(* The state that transition t leaves, with evidence e in session ses.      *)
Tras(t, e, ses) == _apply_effect(Contexto(t, e, ses).s, t, ses)

(* It may be taken.                                                         *)
Permitida(t, e, ses) ==
  /\ Fila(t) /\ t.de = est.estado /\ ses \in SesionesDe(t) /\ e \in Evidencia(t.rec)
  /\ Cierra(t) => tarea # Nada /\ tarea = est.tarea
  /\ \A g \in t.gs : Cumple(g, Contexto(t, e, ses))

(* Terminal p takes it.                                                     *)
Cargado_(p, t, e, ses) ==
  /\ Permitida(t, e, ses)
  /\ ll' = [ll EXCEPT ![p] = Cargado(t, Tras(t, e, ses))]
  /\ pc' = [pc EXCEPT ![p] = IF Cierra(t) THEN "completar" ELSE "registrar"]
  /\ UNCHANGED <<est, ficheros, log, ambiente, hist>>

LEMMA Ejecuciones ==
  ASSUME est.estado \in Estados, NEW p \in Terminales, NEW ev \in Eventos, Ejecutar(p, ev)
  PROVE  \E t, e, ses : Cargado_(p, t, e, ses) /\ t.ev = ev
<1> DEFINE C == Candidatas[est.estado][ev]
<1>1. C = {i \in DOMAIN Transiciones : Transiciones[i].de = est.estado /\ Transiciones[i].ev = ev}
  BY DEF Candidatas
<1> HIDE DEF C
<1>2. PICK i \in C :
        LET t == Transiciones[i] IN
        /\ Cierra(t) => tarea # Nada /\ tarea = est.tarea
        /\ \E ses \in SesionesDe(t), e \in Evidencia(t.rec) :
             /\ Elegida(C, i, Contexto(t, e, ses))
             /\ ll' = [ll EXCEPT ![p] = Cargado(t, _apply_effect(Contexto(t, e, ses).s, t, ses))]
        /\ Ir(p, IF Cierra(t) THEN "completar" ELSE "registrar")
  BY DEF Ejecutar, C
<1>3. i \in DOMAIN Transiciones /\ Transiciones[i].de = est.estado /\ Transiciones[i].ev = ev
  BY <1>1, <1>2
<1> DEFINE t == Transiciones[i]
<1>4. PICK ses \in SesionesDe(t), e \in Evidencia(t.rec) :
        /\ Elegida(C, i, Contexto(t, e, ses))
        /\ ll' = [ll EXCEPT ![p] = Cargado(t, _apply_effect(Contexto(t, e, ses).s, t, ses))]
  BY <1>2
<1>5. /\ pc' = [pc EXCEPT ![p] = IF Cierra(t) THEN "completar" ELSE "registrar"]
      /\ UNCHANGED <<est, ficheros, log, ambiente, hist>>
      /\ Cierra(t) => tarea # Nada /\ tarea = est.tarea
  BY <1>2 DEF Ir, Ejecutar
<1>6. \A g \in t.gs : Cumple(g, Contexto(t, e, ses))
  BY <1>4 DEF Elegida, Pasa
<1>7. Fila(t) BY <1>3 DEF Fila
<1>8. Cargado_(p, t, e, ses) /\ t.ev = ev
  BY <1>3, <1>4, <1>5, <1>6, <1>7 DEF Cargado_, Permitida, Tras
<1> QED BY <1>8

(* The guards that the proofs read.                                         *)
LEMMA Guardas ==
  ASSUME NEW t, NEW x, \A g \in t.gs : Cumple(g, x)
  PROVE  /\ "task_selected" \in t.gs => g_task_selected(x)
         /\ "review_approved" \in t.gs => g_review_approved(x)
         /\ "candidate_review_approved" \in t.gs => g_candidate_review_approved(x)
         /\ "approval_valid" \in t.gs => g_approval_valid(x)
         /\ "deployment_succeeded" \in t.gs => g_deployment_succeeded(x)
         /\ "verification_passed" \in t.gs => g_verification_passed(x)
         /\ "rollback_permitted" \in t.gs => g_rollback_permitted(x)
         /\ "no_deploy_required" \in t.gs => tarea # Nada /\ ~Ficha[tarea].despliega
         /\ "rework_available" \in t.gs => x.s.rework < MaxRework
BY DEF Cumple

LEMMA Referencias ==
  {"developer_evidence", "review_evidence", "merge_evidence", "candidate_evidence",
   "candidate_review_evidence", "approval", "deployment_evidence", "verification_evidence",
   "acceptance"} \subseteq Refs
BY DEF Refs

(* Binding or closing leaves a state without references.                    *)
LEMMA CargaTarea ==
  ASSUME Tipos, NEW t, NEW e, NEW ses, Permitida(t, e, ses), DeTarea(t)
  PROVE  LET n == Tras(t, e, ses) IN
         /\ Tipo(n) /\ Valores(n) /\ n.rework = 0 /\ n.estado = t.a
         /\ n.estado \in {"IDLE", "NEW"} /\ \A k \in Refs : n.refs[k] = Nada
         /\ Cierra(t) => n = EstInicial
         /\ Une(t) => n.tarea = tarea
<1> DEFINE n == Tras(t, e, ses)
<1>1. CASE Cierra(t)
  <2>1. n = EstInicial BY <1>1, EfectoTarea DEF Permitida, Tipos, Tras
  <2>2. ~Une(t) /\ t.a = "IDLE" BY <1>1, FilaTarea DEF Permitida
  <2> QED BY <2>1, <2>2, TipoInicial
<1>2. CASE Une(t)
  <2>1. t.a = "NEW" /\ ~Cierra(t) /\ "task_selected" \in t.gs BY <1>2, FilaTarea DEF Permitida
  <2>2. tarea \in Tareas BY <2>1, Guardas DEF Permitida, g_task_selected, Tipos
  <2>3. n = Vinculado
    <3>1. Fila(t) /\ tarea \in Tareas \cup {Nada} BY DEF Permitida, Tipos
    <3> QED BY <1>2, <3>1, EfectoTarea DEF Tras
  <2> QED BY <2>1, <2>2, <2>3, TipoNueva
<1> QED BY <1>1, <1>2 DEF DeTarea, Une

(* Every other transition: the references after it.                         *)
LEMMA CargaOrdinaria ==
  ASSUME Tipos, NEW t, NEW e, NEW ses, Permitida(t, e, ses), ~DeTarea(t)
  PROVE  LET n == Tras(t, e, ses)
             x == Contexto(t, e, ses) IN
         /\ n.estado = t.a /\ n.tarea = est.tarea /\ n.rework = rework_round(est.rework, t)
         /\ n.rollback = ((est.rollback \/ "mark_rollback_attempted" \in t.efs)
                            /\ "reset_release" \notin t.efs)
         /\ Tipo(n)
         /\ \A k \in Refs : n.refs[k] = IF k \in Fuera(t) THEN Nada ELSE x.s.refs[k]
         /\ \A k \in Refs : x.s.refs[k] = IF k = t.rec THEN e ELSE est.refs[k]
         /\ \A k \in Refs : k # t.rec /\ k \notin Fuera(t) => n.refs[k] = est.refs[k]
<1> DEFINE n == Tras(t, e, ses)
           x == Contexto(t, e, ses)
<1>1. Fila(t) /\ t.de = est.estado /\ ses \in SesionesDe(t) /\ Tipo(est) BY DEF Permitida, Tipos
<1>2. \A k \in Refs : x.s.refs[k] = IF k = t.rec THEN e ELSE est.refs[k] BY <1>1, Contextos
<1>3. n = _apply_effect(Contexto(t, e, ses).s, t, ses) BY DEF Tras
<1>4. /\ n.estado = t.a /\ n.tarea = est.tarea /\ n.rework = rework_round(est.rework, t)
      /\ n.rollback = ((est.rollback \/ "mark_rollback_attempted" \in t.efs)
                         /\ "reset_release" \notin t.efs)
      /\ \A k \in Refs :
           n.refs[k] = IF k \in Fuera(t) THEN Nada ELSE IF k = t.rec THEN e ELSE est.refs[k]
      /\ Tipo(n)
  BY <1>1, <1>3, Efecto
<1> QED BY <1>2, <1>4

(* What makes a delivery safe passes on to the state a command loads.       *)
LEMMA CargaSegura ==
  ASSUME Tipos, Seguro(est, hist.resuelta), NEW t, NEW e, NEW ses, Permitida(t, e, ses)
  PROVE  LET n == Tras(t, e, ses) IN
         Seguro(n, Resuelta(t, hist.resuelta))
<1> DEFINE n == Tras(t, e, ses)
<1>0. Fila(t) /\ t.de = est.estado /\ t # Nada BY FilaTipo DEF Permitida
<1>1. CASE DeTarea(t)
  <2>1. n.estado \in {"IDLE", "NEW"} BY <1>1, CargaTarea
  <2> QED BY <2>1 DEF Seguro, EnEntrega
<1>2. CASE ~DeTarea(t)
  <2> DEFINE x == Contexto(t, e, ses)
  <2>1. /\ n.estado = t.a
        /\ \A k \in Refs : n.refs[k] = IF k \in Fuera(t) THEN Nada ELSE x.s.refs[k]
        /\ \A k \in Refs : k # t.rec /\ k \notin Fuera(t) => n.refs[k] = est.refs[k]
    BY <1>2, CargaOrdinaria
  <2>2. \A g \in t.gs : Cumple(g, x) BY DEF Permitida
  <2> HIDE DEF x
  <2>3. ASSUME t.a \in EnEntrega, ~Resuelta(t, hist.resuelta) PROVE Revisado(n)
    <3>1. "reset_release" \notin t.efs /\ t.ev # "human_resolve" /\ ~hist.resuelta
      BY <1>0, <1>2, <2>3, FilaEntrega DEF Resuelta
    <3>2. CASE "review_approved" \in t.gs /\ t.limpia = {}
      <4>1. Fuera(t) = {} BY <3>1, <3>2 DEF Fuera
      <4>2. g_review_approved(x) BY <2>2, <3>2, Guardas
      <4>3. /\ n.refs["review_evidence"] = x.s.refs["review_evidence"]
            /\ n.refs["developer_evidence"] = x.s.refs["developer_evidence"]
        BY <2>1, <4>1, Referencias
      <4> QED BY <4>2, <4>3 DEF g_review_approved, Revisado, Hay, Ref
    <3>3. CASE /\ t.de \in EnEntrega
               /\ {t.rec} \cap {"review_evidence", "developer_evidence"} = {}
               /\ t.limpia \cap {"review_evidence", "developer_evidence"} = {}
      <4>1. Revisado(est) BY <1>0, <3>1, <3>3 DEF Seguro
      <4>2. /\ n.refs["review_evidence"] = est.refs["review_evidence"]
            /\ n.refs["developer_evidence"] = est.refs["developer_evidence"]
        BY <2>1, <3>1, <3>3, Referencias DEF Fuera
      <4> QED BY <4>1, <4>2 DEF Revisado
    <3> QED BY <1>0, <2>3, <3>1, <3>2, <3>3, FilaEntrega
  <2>4. ASSUME t.a = "WAITING_HUMAN_APPROVAL" PROVE ConArbol(n)
    <3>1. t.limpia = {} /\ "candidate_review_approved" \in t.gs BY <1>0, <2>4, FilaAprobacion
    <3>2. Fuera(t) = {} BY <1>0, <2>4, <3>1, FilaEntrega DEF Fuera, EnEntrega
    <3>3. g_candidate_review_approved(x) BY <2>2, <3>1, Guardas
    <3>4. /\ n.refs["review_evidence"] = x.s.refs["review_evidence"]
          /\ n.refs["candidate_evidence"] = x.s.refs["candidate_evidence"]
      BY <2>1, <3>2, Referencias
    <3> QED BY <3>3, <3>4 DEF g_candidate_review_approved, ConArbol, Hay, Ref
  <2>5. ASSUME t.a = "DEPLOYING" PROVE ConArbol(n) /\ Aprobado(n)
    <3>1. t.limpia = {} /\ "approval_valid" \in t.gs /\ t.rec = "approval"
          /\ est.estado = "WAITING_HUMAN_APPROVAL"
      BY <1>0, <2>5, FilaAprobacion
    <3>2. Fuera(t) = {} BY <1>0, <2>5, <3>1, FilaEntrega DEF Fuera, EnEntrega
    <3>3. g_approval_valid(x) BY <2>2, <3>1, Guardas
    <3>4. /\ n.refs["approval"] = x.s.refs["approval"]
          /\ n.refs["candidate_evidence"] = x.s.refs["candidate_evidence"]
          /\ n.refs["candidate_evidence"] = est.refs["candidate_evidence"]
          /\ n.refs["review_evidence"] = est.refs["review_evidence"]
      BY <2>1, <3>1, <3>2, Referencias
    <3>5. ConArbol(est) BY <3>1 DEF Seguro
    <3>6. ConArbol(n) BY <3>4, <3>5 DEF ConArbol
    <3>7. Aprobado(n) BY <3>3, <3>4 DEF g_approval_valid, Aprobado, Hay, Ref
    <3> QED BY <3>6, <3>7
  <2> QED BY <2>1, <2>3, <2>4, <2>5 DEF Seguro
<1> QED BY <1>1, <1>2

(* So do the versions that the references name.                             *)
LEMMA CargaValores ==
  ASSUME Tipos, NEW t, NEW e, NEW ses, Permitida(t, e, ses)
  PROVE  LET n == Tras(t, e, ses) IN
         Valores(n)
<1> DEFINE n == Tras(t, e, ses)
<1>1. CASE DeTarea(t) BY <1>1, CargaTarea
<1>2. CASE ~DeTarea(t)
  <2> DEFINE x == Contexto(t, e, ses)
  <2>1. /\ \A k \in Refs : n.refs[k] = IF k \in Fuera(t) THEN Nada ELSE x.s.refs[k]
        /\ \A k \in Refs : x.s.refs[k] = IF k = t.rec THEN e ELSE est.refs[k]
    BY <1>2, CargaOrdinaria
  <2> HIDE DEF x
  <2>2. Valores(est) /\ e \in Evidencia(t.rec) /\ ambiente \in Versiones \cup {Base}
    BY DEF Tipos, Permitida
  <2>3. t.rec = "candidate_evidence" => e.ver \in Versiones /\ e.lkg \in Versiones \cup {Base}
    <3>1. \A y \in Evidencia("candidate_evidence") : y \in [ver : Versiones, lkg : {ambiente}]
      BY DEF Evidencia
    <3>2. t.rec = "candidate_evidence" => e \in [ver : Versiones, lkg : {ambiente}]
      BY <2>2, <3>1, Zenon
    <3> QED BY <2>2, <3>2
  <2>4. t.rec = "approval" => e.ver \in Versiones /\ e.lkg \in Versiones \cup {Base}
    <3> DEFINE c == est.refs["candidate_evidence"]
    <3>1. \A y \in Evidencia("approval") :
            c # Nada /\ y \in [dec : {"approved", "rejected"}, ver : {c.ver}, lkg : {c.lkg}]
      BY DEF Evidencia
    <3>2. c # Nada => c.ver \in Versiones /\ c.lkg \in Versiones \cup {Base} BY <2>2 DEF Valores
    <3> HIDE DEF c
    <3>3. t.rec = "approval" =>
            c # Nada /\ e \in [dec : {"approved", "rejected"}, ver : {c.ver}, lkg : {c.lkg}]
      BY <2>2, <3>1, Zenon
    <3> QED BY <3>2, <3>3
  <2>5. "candidate_evidence" \in Refs /\ "approval" \in Refs BY Referencias
  <2> QED BY <2>1, <2>2, <2>3, <2>4, <2>5 DEF Valores
<1> QED BY <1>1, <1>2

(* What the versions that a state names are, once it is deployed, passes    *)
(* on too.                                                                  *)
LEMMA CargaDesplegada ==
  ASSUME Tipos, NEW t, NEW e, NEW ses, Permitida(t, e, ses), ~DeTarea(t),
         Desplegado(est, hist.resuelta)
  PROVE  LET n == Tras(t, e, ses) IN
         Desplegado(n, Resuelta(t, hist.resuelta))
<1> DEFINE n == Tras(t, e, ses)
<1> DEFINE x == Contexto(t, e, ses)
           R == Resuelta(t, hist.resuelta)
<1>1. /\ n.estado = t.a
      /\ \A k \in Refs : n.refs[k] = IF k \in Fuera(t) THEN Nada ELSE x.s.refs[k]
      /\ \A k \in Refs : x.s.refs[k] = IF k = t.rec THEN e ELSE est.refs[k]
  BY CargaOrdinaria
<1>2. /\ Fila(t) /\ t # Nada /\ t.de = est.estado /\ e \in Evidencia(t.rec)
      /\ t.rec # "acceptance"
      /\ \A g \in t.gs : Cumple(g, x)
  BY FilaTipo DEF Permitida
<1>3. R = ((hist.resuelta \/ t.ev = "human_resolve") /\ "reset_release" \notin t.efs)
  BY <1>2 DEF Resuelta
<1>4. "approval" \in Refs /\ "acceptance" \in Refs /\ "deployment_evidence" \in Refs
      /\ "verification_evidence" \in Refs
  BY Referencias
<1> HIDE DEF x, R
<1>5. ASSUME t.a = "VERIFYING", ~R
      PROVE  n.refs["approval"] # Nada /\ ambiente = n.refs["approval"].ver
  <2>1. /\ Fuera(t) = {} /\ "deployment_succeeded" \in t.gs /\ t.rec = "deployment_evidence"
    BY <1>2, <1>3, <1>5, FilaVerificacion DEF Fuera
  <2>2. g_deployment_succeeded(x) BY <1>2, <2>1, Guardas
  <2>3. n.refs["approval"] = x.s.refs["approval"] /\ x.s.refs["deployment_evidence"] = e
    BY <1>1, <1>4, <2>1
  <2>4. e.ver = ambiente
    <3>1. e \in Evidencia("deployment_evidence") BY <1>2, <2>1, Zenon
    <3>2. e \in [res : {"success"}, aceptado : {TRUE}, ver : {ambiente}] \cup
               [res : {"failure"}, aceptado : BOOLEAN, ver : {ambiente}]
      BY <3>1 DEF Evidencia
    <3> QED BY <3>2
  <2> QED BY <2>2, <2>3, <2>4 DEF g_deployment_succeeded, Hay, Ref
<1>6. ASSUME n.refs["acceptance"] # Nada, ~R
      PROVE  t.a \in PosDespliegue \ {"VERIFYING"}
  <2>1. "acceptance" \notin Fuera(t) /\ n.refs["acceptance"] = est.refs["acceptance"]
    BY <1>1, <1>2, <1>4, <1>6
  <2>2. "reset_release" \notin t.efs BY <1>4, <2>1 DEF Fuera
  <2>3. ~hist.resuelta /\ t.ev # "human_resolve" BY <1>3, <1>6, <2>2
  <2>4. est.estado \in PosDespliegue BY <1>6, <2>1, <2>3 DEF Desplegado
  <2> QED BY <1>2, <2>3, <2>4, FilaVerificacion
<1>7. ASSUME t.a = "DONE", tarea # Nada, Ficha[tarea].despliega
      PROVE  /\ n.refs["approval"] # Nada /\ ambiente.rel = n.refs["approval"].ver.rel
             /\ Ficha[tarea].humanos /\ ~R =>
                  /\ n.refs["acceptance"] # Nada /\ n.refs["acceptance"].dec = "accepted"
                  /\ n.refs["acceptance"].ver = n.refs["approval"].ver
  <2>1. /\ Fuera(t) = {} /\ t.ev # "human_resolve" /\ "reset_release" \notin t.efs
        /\ "no_deploy_required" \in t.gs \/ (/\ t.de = "VERIFYING" /\ t.rec = "verification_evidence"
                                             /\ "verification_passed" \in t.gs)
    BY <1>2, <1>7, FilaVerificacion DEF Fuera
  <2>2. /\ est.estado = "VERIFYING" /\ t.rec = "verification_evidence"
        /\ g_verification_passed(x)
    BY <1>2, <1>7, <2>1, Guardas
  <2>3. /\ n.refs["approval"] = x.s.refs["approval"] /\ x.s.refs["verification_evidence"] = e
        /\ n.refs["acceptance"] = x.s.refs["acceptance"]
        /\ n.refs["approval"] = est.refs["approval"]
        /\ n.refs["acceptance"] = est.refs["acceptance"]
    BY <1>1, <1>4, <2>1, <2>2
  <2>4. e.res = "PASS" => e.rel = ambiente.rel
    <3>1. e \in Evidencia("verification_evidence") BY <1>2, <2>2, Zenon
    <3>2. e \in [res : {"PASS"}, clase : {Nada}, rel : {ambiente.rel}] \cup
               [res : {"FAIL"}, clase : {"infrastructure", "functional"}, rel : {Nada}]
      BY <3>1 DEF Evidencia
    <3> QED BY <3>2
  <2>5. n.refs["approval"] # Nada /\ ambiente.rel = n.refs["approval"].ver.rel
    BY <2>2, <2>3, <2>4 DEF g_verification_passed, Hay, Ref
  <2>6. ASSUME Ficha[tarea].humanos, ~R
        PROVE  /\ n.refs["acceptance"] # Nada /\ n.refs["acceptance"].dec = "accepted"
               /\ n.refs["acceptance"].ver = n.refs["approval"].ver
    <3>1. n.refs["acceptance"] # Nada /\ n.refs["acceptance"].dec = "accepted"
      BY <2>2, <2>3, <2>6 DEF g_verification_passed, Hay, Ref
    <3>2. ~hist.resuelta BY <1>3, <2>1, <2>6
    <3> QED BY <2>2, <2>3, <3>1, <3>2 DEF Desplegado
  <2> QED BY <2>5, <2>6
<1>8. Desplegado(n, R) BY <1>1, <1>5, <1>6, <1>7 DEF Desplegado
<1> QED BY <1>8 DEF R

LEMMA CargaCuentas ==
  ASSUME Tipos, NEW t, NEW e, NEW ses, Permitida(t, e, ses), ~DeTarea(t),
         Cuentas(est, hist.vueltas, hist.retornos)
  PROVE  LET n == Tras(t, e, ses) IN
         Cuentas(n, Vueltas(t, hist.vueltas), Retornos(t, hist.retornos))
<1> DEFINE n == Tras(t, e, ses)
<1> DEFINE x == Contexto(t, e, ses)
<1>1. /\ n.estado = t.a /\ n.rework = rework_round(est.rework, t)
      /\ n.rollback = ((est.rollback \/ "mark_rollback_attempted" \in t.efs)
                         /\ "reset_release" \notin t.efs)
  BY CargaOrdinaria
<1>2. x.s.rework = est.rework /\ x.s.rollback = est.rollback BY Contextos DEF Tipos
<1>3. /\ Fila(t) /\ t # Nada /\ \A g \in t.gs : Cumple(g, x)
  BY FilaTipo DEF Permitida
<1> HIDE DEF x
<1>4. /\ hist.vueltas \in Nat /\ hist.retornos \in Nat /\ est.rework \in Nat /\ MaxRework \in Nat
      /\ est.rework <= MaxRework + 1 /\ hist.vueltas <= MaxRework /\ hist.vueltas <= est.rework
      /\ hist.retornos <= 1 /\ (hist.retornos >= 1 => est.rollback)
  BY WorkflowAssumption DEF Tipos, Tipo, Cuentas
<1>5. Vueltas(t, hist.vueltas) <= MaxRework /\ Vueltas(t, hist.vueltas) <= n.rework
  <2>1. CASE t.ev = "human_resolve" /\ t.a = "DEVELOPING"
    <3>1. Vueltas(t, hist.vueltas) = 0 BY <1>3, <2>1 DEF Vueltas
    <3>2. n.rework \in Nat BY <1>1, <1>4 DEF rework_round, Hasta
    <3> QED BY <1>4, <3>1, <3>2
  <2>2. CASE /\ ~(t.ev = "human_resolve" /\ t.a = "DEVELOPING")
             /\ t.ev \in {"review_reject", "candidate_reject"}
             /\ t.a \in {"REVIEW_REJECTED", "DEVELOPING"}
    <3>1. Vueltas(t, hist.vueltas) = Hasta(hist.vueltas + 1, MaxRework + 1)
      BY <1>3, <2>2 DEF Vueltas
    <3>2. "rework_available" \in t.gs /\ "increment_rework" \in t.efs BY <1>3, <2>2, FilaLimites
    <3>3. est.rework < MaxRework BY <1>2, <1>3, <3>2, Guardas
    <3>4. n.rework = Hasta(est.rework + 1, MaxRework + 1) BY <1>1, <3>2 DEF rework_round
    <3> QED BY <1>4, <3>1, <3>3, <3>4 DEF Hasta
  <2>3. CASE /\ ~(t.ev = "human_resolve" /\ t.a = "DEVELOPING")
             /\ ~(/\ t.ev \in {"review_reject", "candidate_reject"}
                  /\ t.a \in {"REVIEW_REJECTED", "DEVELOPING"})
    <3>1. Vueltas(t, hist.vueltas) = hist.vueltas BY <1>3, <2>3 DEF Vueltas
    <3>2. "reset_rework" \notin t.efs BY <1>3, <2>3, FilaLimites
    <3>3. n.rework = IF "increment_rework" \in t.efs
                     THEN Hasta(est.rework + 1, MaxRework + 1) ELSE est.rework
      BY <1>1, <3>2 DEF rework_round
    <3> QED BY <1>4, <3>1, <3>3 DEF Hasta
  <2> QED BY <2>1, <2>2, <2>3
<1>6. /\ Retornos(t, hist.retornos) <= 1
      /\ Retornos(t, hist.retornos) >= 1 => n.rollback
  <2>1. CASE "reset_release" \in t.efs
    <3>1. Retornos(t, hist.retornos) = 0 BY <1>3, <2>1 DEF Retornos
    <3> QED BY <3>1
  <2>2. CASE "reset_release" \notin t.efs /\ t.a = "ROLLING_BACK"
    <3>1. Retornos(t, hist.retornos) = Hasta(hist.retornos + 1, 2) BY <1>3, <2>2 DEF Retornos
    <3>2. "rollback_permitted" \in t.gs /\ "mark_rollback_attempted" \in t.efs
      BY <1>3, <2>2, FilaLimites
    <3>3. ~est.rollback BY <1>2, <1>3, <3>2, Guardas DEF g_rollback_permitted
    <3>4. hist.retornos = 0 BY <1>4, <3>3
    <3>5. n.rollback BY <1>1, <2>2, <3>2
    <3> QED BY <3>1, <3>4, <3>5 DEF Hasta
  <2>3. CASE "reset_release" \notin t.efs /\ t.a # "ROLLING_BACK"
    <3>1. Retornos(t, hist.retornos) = hist.retornos BY <1>3, <2>3 DEF Retornos
    <3>2. est.rollback => n.rollback BY <1>1, <2>3
    <3> QED BY <1>4, <3>1, <3>2
  <2> QED BY <2>1, <2>2, <2>3
<1> QED BY <1>5, <1>6 DEF Cuentas

(* A command loads a current state if the one in state.json is current; a   *)
(* new task starts with one whatever happened before.                       *)
LEMMA CargaVigente ==
  ASSUME Tipos, NEW t, NEW e, NEW ses, Permitida(t, e, ses), Une(t) \/ VigenteEst
  PROVE  LET n == Tras(t, e, ses) IN
         Vigente(n, Resuelta(t, hist.resuelta), Vueltas(t, hist.vueltas), Retornos(t, hist.retornos))
<1> DEFINE n == Tras(t, e, ses)
<1>0. Fila(t) /\ t # Nada BY FilaTipo DEF Permitida
<1>1. CASE DeTarea(t)
  <2>1. /\ Vueltas(t, hist.vueltas) = 0 /\ Retornos(t, hist.retornos) = 0
    BY <1>0, <1>1 DEF Vueltas, Retornos
  <2>2. n.estado \in {"IDLE", "NEW"} /\ n.rework = 0 /\ \A k \in Refs : n.refs[k] = Nada
    BY <1>1, CargaTarea
  <2>3. n.tarea = Nada \/ n.tarea = tarea
    <3>1. CASE Une(t) BY <1>1, <3>1, CargaTarea
    <3>2. CASE Cierra(t)
      <4>1. n = EstInicial BY <1>1, <3>2, CargaTarea
      <4> QED BY <4>1, TipoInicial
    <3> QED BY <1>1, <3>1, <3>2 DEF DeTarea, Une
  <2>4. n.refs["acceptance"] = Nada BY <2>2, Referencias
  <2>5. Desplegado(n, Resuelta(t, hist.resuelta)) BY <2>2, <2>4 DEF Desplegado
  <2>6. Cuentas(n, 0, 0) BY <2>2, WorkflowAssumption DEF Cuentas
  <2> QED BY <2>1, <2>3, <2>5, <2>6 DEF Vigente, DeLaTarea
<1>2. CASE ~DeTarea(t)
  <2>1. VigenteEst BY <1>2 DEF DeTarea, Une
  <2>2. n.tarea = est.tarea BY <1>2, CargaOrdinaria
  <2>3. DeLaTarea(n) BY <2>1, <2>2 DEF VigenteEst, Vigente, DeLaTarea
  <2> QED BY <1>2, <2>1, <2>3, CargaDesplegada, CargaCuentas DEF VigenteEst, Vigente
<1> QED BY <1>1, <1>2

-----------------------------------------------------------------------------
(* Who may be under way at once, and what a step leaves as it was *)

(* While the human runs a transition the agent runs nothing, and nobody has *)
(* overtaken him.                                                           *)
LEMMA Aislado ==
  ASSUME Inv, Pendiente("humano"), ll["humano"].t # Nada
  PROVE  /\ ll["humano"].t.de = est.estado /\ est.estado \in DeHumano /\ pc["agente"] = "libre"
         /\ ~ll["humano"].viejo /\ Fresca("humano")
<1>1. "humano" \in Terminales BY DEF Terminales
<1>2. ~ll["humano"].viejo BY DEF Inv, Turnos
<1>3. Orden("humano") /\ Fresca("humano") BY <1>1, <1>2 DEF Inv
<1>4. ll["humano"].t.de = est.estado /\ est.estado \in DeHumano BY <1>3 DEF Orden, Fresca
<1> QED BY <1>2, <1>3, <1>4 DEF Inv, Turnos

LEMMA DeCierre ==
  ASSUME Inv, NEW p \in Terminales, Cerrando(p)
  PROVE  /\ Pendiente(p) /\ Orden(p) /\ ll[p].t # Nada /\ Cierra(ll[p].t) /\ Fila(ll[p].t)
         /\ ll[p].id \in Tareas /\ ll[p].t.de \in {"DONE", "BLOCKED_HUMAN"}
<1>1. Pendiente(p) BY DEF Cerrando, Guardando, EnCierre, Pendiente
<1>2. Orden(p) BY <1>1 DEF Inv
<1>3. ll[p].t # Nada /\ Cierra(ll[p].t)
  <2>1. CASE Guardando(p) BY <2>1 DEF Guardando
  <2>2. CASE pc[p] \in EnCierre BY <1>2, <2>2 DEF Orden, EnCierre
  <2> QED BY <2>1, <2>2 DEF Cerrando
<1>4. Fila(ll[p].t) /\ ll[p].id \in Tareas BY <1>2, <1>3 DEF Orden
<1>5. ll[p].t.de \in {"DONE", "BLOCKED_HUMAN"} BY <1>3, <1>4, FilaTarea
<1> QED BY <1>1, <1>2, <1>3, <1>4, <1>5

LEMMA UnCierre ==
  ASSUME Inv, NEW p \in Terminales, NEW q \in Terminales, Cerrando(p), Cerrando(q)
  PROVE  p = q
<1>1. Cerrando("humano") => pc["agente"] = "libre" BY DeCierre, Aislado DEF Terminales
<1>2. pc["agente"] = "libre" => ~Cerrando("agente") BY DEF Cerrando, Guardando, EnCierre
<1> QED BY <1>1, <1>2 DEF Terminales

(* Accept has loaded the state VERIFYING.                                   *)
LEMMA DeAceptar ==
  ASSUME Inv, NEW p \in Terminales, pc[p] = "aceptar"
  PROVE  /\ p = "humano" /\ Pendiente(p) /\ Orden(p) /\ ll[p].t = Nada
         /\ ll[p].nuevo.estado = "VERIFYING"
<1>1. p = "humano" BY DEF Inv, Turnos, Terminales
<1>2. Pendiente(p) BY DEF Pendiente
<1>3. Orden(p) BY <1>2 DEF Inv
<1>4. ll[p].t = Nada BY <1>3 DEF Orden, EnCierre
<1> QED BY <1>1, <1>2, <1>3, <1>4 DEF Orden

LEMMA OrdenQueda ==
  ASSUME NEW p, Orden(p), ll'[p] = ll[p], pc'[p] = pc[p], log'[p] = log[p],
         completadas \subseteq completadas', hist'.resuelta = hist.resuelta
  PROVE  Orden(p)'
BY DEF Orden

(* Of the history at most that a command died changes.                      *)
SoloCayo ==
  /\ hist'.cruce = hist.cruce /\ hist'.resuelta = hist.resuelta /\ hist'.vueltas = hist.vueltas
  /\ hist'.retornos = hist.retornos /\ hist'.decisiones = hist.decisiones

(* What is fresh stays fresh while the state, its history, the current task *)
(* and the environment stay.                                                *)
LEMMA FrescaQueda ==
  ASSUME NEW p, Fresca(p), ll'[p] = ll[p], pc'[p] = "aceptar" => pc[p] = "aceptar",
         UNCHANGED <<est, tarea, ambiente>>, SoloCayo, completadas \subseteq completadas'
  PROVE  Fresca(p)'
<1> DEFINE c == ll[p]
<1>1. ~Cruza(c, hist.cruce) => VigentePendiente(c)' 
  <2>1. SUFFICES ASSUME VigentePendiente(c) PROVE VigentePendiente(c)'
    BY DEF Fresca
  <2> QED BY <2>1 DEF VigentePendiente, Vigente, Desplegado, Cuentas, DeLaTarea, SoloCayo
<1> QED BY <1>1 DEF Fresca, VigentePendiente, SoloCayo

LEMMA VigentePasa ==
  ASSUME UNCHANGED <<tarea, ambiente>>, completadas \subseteq completadas',
         NEW CONSTANT s, NEW CONSTANT R, NEW CONSTANT v, NEW CONSTANT n, Vigente(s, R, v, n)
  PROVE  Vigente(s, R, v, n)'
BY DEF Vigente, Desplegado, Cuentas, DeLaTarea

LEMMA VigenteEstQueda ==
  ASSUME VigenteEst, UNCHANGED <<est, tarea, ambiente>>, SoloCayo, completadas \subseteq completadas'
  PROVE  VigenteEst'
BY DEF VigenteEst, Vigente, Desplegado, Cuentas, DeLaTarea, SoloCayo

(* So do the task files while no closing moves and no task is selected.     *)
LEMMA FicherosQueda ==
  ASSUME Ficheros, UNCHANGED <<est, tarea, backlog, completadas, bitacora>>,
         hist'.cruce = hist.cruce,
         \A q \in Terminales :
           /\ pc'[q] \in EnCierre \/ pc[q] \in EnCierre => pc'[q] = pc[q] /\ ll'[q].id = ll[q].id
           /\ Guardando(q)' <=> Guardando(q),
         est.estado = "DONE" /\ ~hist.cruce /\ pc["agente"] = "cerrar" => pc'["agente"] = "cerrar",
         est.estado = "IDLE" /\ pc'["humano"] # "vincular"
           /\ ~(Pendiente("humano")' /\ ll'["humano"].t # Nada) => tarea = Nada
  PROVE  Ficheros'
<1>1. \A u \in Tareas :
        Archivo(u)' \/ \E q \in Terminales : pc'[q] \in {"retirar", "anotar"} /\ ll'[q].id = u
  <2>1. \A u \in Tareas : Archivo(u)' <=> Archivo(u) BY DEF Archivo
  <2>2. \A q \in Terminales : pc[q] \in {"retirar", "anotar"} => pc'[q] = pc[q] /\ ll'[q].id = ll[q].id
    BY DEF EnCierre
  <2> QED BY <2>1, <2>2 DEF Ficheros
<1>2. tarea' \in completadas' => \E q \in Terminales : pc'[q] \in EnCierre \ {"completar"}
  BY DEF Ficheros
<1>3. \A q \in Terminales :
        /\ pc'[q] \in EnCierre => tarea' = ll'[q].id
        /\ pc'[q] = "completar" => ll'[q].id \notin completadas'
        /\ pc'[q] \in {"retirar", "anotar"} => bitacora'[ll'[q].id] = 0
        /\ pc'[q] = "anotar" => ll'[q].id \notin backlog'
        /\ Guardando(q)' => tarea' = Nada
  BY DEF Ficheros, EnCierre
<1>4. ~hist'.cruce =>
        /\ est'.tarea # Nada /\ tarea' # est'.tarea => \E q \in Terminales : Guardando(q)'
        /\ est'.estado = "DONE" => pc'["agente"] = "cerrar" \/ Cerrando("agente")'
  BY DEF Ficheros, Cerrando, Terminales
<1> QED BY <1>1, <1>2, <1>3, <1>4 DEF Ficheros

-----------------------------------------------------------------------------
(* The steps *)

(* A command loads the state and computes a new one, in its terminal's turn. *)
LEMMA PasoCarga ==
  ASSUME Inv, NEW p \in Terminales, NEW t, NEW e, NEW ses, Cargado_(p, t, e, ses), ~Pendiente(p),
         t.de \in DeHumano <=> p = "humano",
         t.ev \in {"human_resolve", "human_reject"} => hist.decisiones < MaxDecisiones
  PROVE  Inv'
<1> DEFINE n == Tras(t, e, ses)
           paso == IF Cierra(t) THEN "completar" ELSE "registrar"
<1>1. /\ Permitida(t, e, ses) /\ Fila(t) /\ t # Nada /\ t.de = est.estado
      /\ Cierra(t) => tarea # Nada /\ tarea = est.tarea
  BY FilaTipo DEF Cargado_, Permitida
<1>2. Tipos /\ Tipo(est) /\ Seguro(est, hist.resuelta) /\ tarea \in Tareas \cup {Nada}
  BY DEF Inv, Tipos
<1>3. /\ UNCHANGED <<est, tarea, backlog, completadas, bitacora, log, ambiente, hist>>
      /\ ll' = [ll EXCEPT ![p] = Cargado(t, n)] /\ pc' = [pc EXCEPT ![p] = paso]
  BY DEF Cargado_, ficheros
<1>4. /\ DOMAIN ll = Terminales /\ DOMAIN pc = Terminales
  BY <1>2 DEF Tipos
<1>c. PICK c : c = ll'[p] OBVIOUS
<1>5. /\ c = [t |-> t, nuevo |-> n, id |-> est.tarea, viejo |-> FALSE] /\ pc'[p] = paso
      /\ \A q \in Terminales : q # p => ll'[q] = ll[q] /\ pc'[q] = pc[q]
      /\ DOMAIN ll' = Terminales
  BY <1>3, <1>4, <1>c DEF Cargado
<1>6. /\ Tipo(n) /\ n.estado = t.a
      /\ ~DeTarea(t) => n.tarea = est.tarea
      /\ Une(t) => n.tarea = tarea
      /\ Cierra(t) => n = EstInicial
  BY <1>1, <1>2, CargaTarea, CargaOrdinaria DEF DeTarea, Une
<1>7. Valores(n) /\ Seguro(n, Resuelta(t, hist.resuelta))
  BY <1>1, <1>2, CargaValores, CargaSegura
<1>8. Une(t) \/ ~hist.cruce =>
        Vigente(n, Resuelta(t, hist.resuelta), Vueltas(t, hist.vueltas), Retornos(t, hist.retornos))
  BY <1>1, <1>2, CargaVigente DEF Inv
<1>9. est.estado = "DEPLOYING" => n.refs["approval"] = est.refs["approval"]
  <2>1. SUFFICES ASSUME est.estado = "DEPLOYING" PROVE n.refs["approval"] = est.refs["approval"]
    OBVIOUS
  <2>2. ~DeTarea(t) /\ "approval" # t.rec /\ "approval" \notin Fuera(t) /\ "approval" \in Refs
    BY <1>1, <2>1, FilaAprobacion, Referencias DEF Fuera
  <2> QED BY <1>1, <1>2, <2>2, CargaOrdinaria
<1> HIDE DEF n
<1>10. Tipos'
  <2>1. pc' \in [Terminales -> Pasos] BY <1>2, <1>3 DEF Tipos, Pasos
  <2> QED BY <1>2, <1>3, <1>5, <2>1 DEF Tipos, Tipo, Valores
<1>11. Seguro(est', hist'.resuelta) BY <1>2, <1>3
<1>12. ~hist'.cruce => VigenteEst' BY <1>3, VigenteEstQueda DEF Inv, SoloCayo
<1>13. Orden(p)'
  <2>1. Cierra(t) => est.tarea \in Tareas BY <1>1, <1>2
  <2>2. c.t = t /\ c.nuevo = n /\ c.id = est.tarea /\ c.viejo = FALSE BY <1>5
  <2>3. pc'[p] \in {"completar", "registrar"} /\ (Cierra(t) => pc'[p] = "completar")
        /\ (pc'[p] = "completar" => Cierra(t))
    BY <1>5
  <2>4. c \in [t : {c.t}, nuevo : {c.nuevo}, id : {c.id}, viejo : BOOLEAN] BY <1>5
  <2> HIDE DEF paso
  <2> QED BY <1>1, <1>3, <1>6, <1>7, <1>c, <2>1, <2>2, <2>3, <2>4 DEF Orden, EnCierre
<1>14. \A q \in Terminales : Pendiente(q)' => Orden(q)'
  <2>1. TAKE q \in Terminales
  <2>2. CASE q = p BY <1>13, <2>2
  <2>3. CASE q # p
    <3>1. Pendiente(q)' => Pendiente(q) BY <1>5, <2>3 DEF Pendiente
    <3>2. ll'[q] = ll[q] /\ pc'[q] = pc[q] /\ log'[q] = log[q] BY <1>3, <1>5, <2>3
    <3> QED BY <1>3, <3>1, <3>2, OrdenQueda DEF Inv
  <2> QED BY <2>2, <2>3
<1>15. Fresca(p)'
  <2>1. c.t = t /\ c.nuevo = n /\ c.id = est.tarea /\ c.viejo = FALSE BY <1>5
  <2>2. Une(t) \/ ~hist.cruce => VigentePendiente(c)'
    BY <1>3, <1>8, <2>1, VigentePasa DEF VigentePendiente
  <2>3. ~Cruza(c, hist.cruce) => VigentePendiente(c)' BY <1>1, <2>1, <2>2 DEF Cruza
  <2>4. ~DeTarea(t) <=> Ordinaria(t) BY <1>1 DEF Ordinaria
  <2> QED BY <1>1, <1>3, <1>6, <1>9, <1>c, <2>1, <2>3, <2>4 DEF Fresca
<1>16. \A q \in Terminales : Pendiente(q)' /\ ~ll'[q].viejo => Fresca(q)'
  <2>1. TAKE q \in Terminales
  <2>2. CASE q = p BY <1>15, <2>2
  <2>3. CASE q # p
    <3>1. Pendiente(q)' => Pendiente(q) BY <1>5, <2>3 DEF Pendiente
    <3>2. ll'[q] = ll[q] /\ pc'[q] = pc[q] BY <1>5, <2>3
    <3> QED BY <1>3, <3>1, <3>2, FrescaQueda DEF Inv, SoloCayo
  <2> QED BY <2>2, <2>3
<1>17. est.estado \in DeHumano => pc["agente"] = "libre" /\ p = "humano"
  BY <1>1 DEF Inv, Turnos
<1>18. \A q \in Terminales : q # p => (Cerrando(q)' <=> Cerrando(q)) /\ (Guardando(q)' <=> Guardando(q))
  BY <1>5 DEF Cerrando, Guardando, EnCierre
<1>19. ~Cerrando(p) /\ ~Guardando(p) /\ ~Guardando(p)' /\ pc[p] \in {"libre", "vincular", "cerrar"}
  BY <1>2, <1>5, <1>c DEF Cerrando, Guardando, EnCierre, Pendiente
<1>20. Turnos'
  <2>1. est'.estado \in DeHumano => pc'["agente"] = "libre" BY <1>3, <1>5, <1>17 DEF Terminales
  <2>2. /\ pc'["humano"] # "cerrar" /\ pc'["agente"] \notin {"vincular", "aceptar"}
        /\ pc'["humano"] = "vincular" => est'.estado = "IDLE"
    BY <1>3, <1>5 DEF Inv, Turnos, Terminales
  <2>3. Pendiente("humano")' /\ ll'["humano"].t # Nada => ~ll'["humano"].viejo
    <3>1. CASE p = "humano"
      <4>1. ~c.viejo BY <1>5
      <4> QED BY <1>c, <3>1, <4>1
    <3>2. CASE p # "humano" BY <1>5, <3>2 DEF Inv, Turnos, Terminales, Pendiente
    <3> QED BY <3>1, <3>2
  <2>4. \A q \in Terminales : Cerrando(q)' /\ ~hist'.cruce => ~ll'[q].viejo
    BY <1>3, <1>5, <1>c, <1>18 DEF Inv, Turnos
  <2> QED BY <2>1, <2>2, <2>3, <2>4 DEF Turnos
<1>21. ASSUME ~hist'.cayo PROVE Ficheros'
  <2>1. Ficheros BY <1>3, <1>21 DEF Inv
  <2>2. \A q \in Terminales : pc[q] \in EnCierre => q # p /\ pc'[q] = pc[q] /\ ll'[q] = ll[q]
    BY <1>5, <1>19 DEF EnCierre
  <2>3. \A q \in Terminales : pc[q] \in {"retirar", "anotar"} => pc[q] \in EnCierre BY DEF EnCierre
  <2>4. \A u \in Tareas :
          Archivo(u)' \/ \E q \in Terminales : pc'[q] \in {"retirar", "anotar"} /\ ll'[q].id = u
    <3>1. \A u \in Tareas : Archivo(u)' <=> Archivo(u) BY <1>3 DEF Archivo
    <3> QED BY <2>1, <2>2, <2>3, <3>1 DEF Ficheros
  <2>5. tarea' \in completadas' => \E q \in Terminales : pc'[q] \in EnCierre \ {"completar"}
    BY <1>3, <2>1, <2>2 DEF Ficheros
  <2>6. Cierra(t) => tarea \notin completadas
    <3>1. SUFFICES ASSUME Cierra(t), tarea \in completadas PROVE FALSE OBVIOUS
    <3>2. PICK q \in Terminales : pc[q] \in EnCierre \ {"completar"} BY <2>1, <3>1 DEF Ficheros
    <3>3. q # p /\ Cerrando(q) BY <1>19, <3>2 DEF Cerrando
    <3>4. CASE q = "humano"
      <4>1. est.estado \in DeHumano BY <3>3, <3>4, DeCierre, Aislado
      <4> QED BY <1>17, <3>3, <3>4, <4>1
    <3>5. CASE q = "agente"
      <4>1. p = "humano" BY <3>3, <3>5 DEF Terminales
      <4>2. est.estado \in DeHumano BY <1>1, <4>1
      <4> QED BY <1>17, <3>2, <3>5, <4>2 DEF EnCierre
    <3> QED BY <3>4, <3>5 DEF Terminales
  <2>7. \A q \in Terminales :
          /\ pc'[q] \in EnCierre => tarea' = ll'[q].id
          /\ pc'[q] = "completar" => ll'[q].id \notin completadas'
          /\ pc'[q] \in {"retirar", "anotar"} => bitacora'[ll'[q].id] = 0
          /\ pc'[q] = "anotar" => ll'[q].id \notin backlog'
          /\ Guardando(q)' => tarea' = Nada
    <3>1. TAKE q \in Terminales
    <3>2. CASE q = p
      <4>1. /\ pc'[q] \in {"completar", "registrar"} /\ ll'[q].id = est.tarea
            /\ pc'[q] = "completar" => Cierra(t)
        BY <1>5, <1>c, <3>2
      <4> QED BY <1>1, <1>3, <1>19, <2>6, <3>2, <4>1 DEF EnCierre
    <3>3. CASE q # p
      <4>1. ll'[q] = ll[q] /\ pc'[q] = pc[q] /\ (Guardando(q)' <=> Guardando(q)) BY <1>5, <1>18, <3>3
      <4> QED BY <1>3, <2>1, <4>1 DEF Ficheros
    <3> QED BY <3>2, <3>3
  <2>8. est'.estado = "IDLE" /\ pc'["humano"] # "vincular"
          /\ ~(Pendiente("humano")' /\ ll'["humano"].t # Nada) => tarea' = Nada
    <3>1. SUFFICES ASSUME est.estado = "IDLE" PROVE Pendiente("humano")' /\ ll'["humano"].t # Nada
      BY <1>3
    <3>2. p = "humano" BY <1>1, <3>1 DEF DeHumano
    <3> QED BY <1>1, <1>5, <1>c, <3>2 DEF Pendiente
  <2>9. ~hist'.cruce /\ est'.tarea # Nada /\ tarea' # est'.tarea => \E q \in Terminales : Guardando(q)'
    BY <1>3, <1>18, <1>19, <2>1 DEF Ficheros
  <2>10. est'.estado = "DONE" => Cerrando("agente")'
    <3>1. SUFFICES ASSUME est.estado = "DONE" PROVE Cerrando("agente")' BY <1>3
    <3>2. Cierra(t) /\ p = "agente" BY <1>1, <3>1, FilaTarea DEF DeHumano, Terminales
    <3>3. pc'["agente"] = "completar" BY <1>5, <3>2
    <3> QED BY <3>3 DEF Cerrando, EnCierre
  <2> QED BY <2>4, <2>5, <2>7, <2>8, <2>9, <2>10 DEF Ficheros
<1> QED BY <1>10, <1>11, <1>12, <1>14, <1>16, <1>20, <1>21 DEF Inv

(* A command loads the state, and will save it as it is or with an          *)
(* acceptance.                                                              *)
LEMMA PasoLectura ==
  ASSUME Inv, NEW p \in Terminales, pc[p] = "libre",
         ll' = [ll EXCEPT ![p] = Cargado(Nada, est)],
         NEW paso, pc' = [pc EXCEPT ![p] = paso],
         paso = IF p = "humano" THEN "aceptar" ELSE "guardar",
         p = "humano" => est.estado = "VERIFYING",
         est.estado \in DeDeveloper \cup DeReviewer \cup DeDeployer,
         UNCHANGED <<est, ficheros, log, ambiente, hist>>
  PROVE  Inv'
<1>1. Tipos /\ Tipo(est) /\ Valores(est) /\ Seguro(est, hist.resuelta)
  BY DEF Inv, Tipos
<1>2. UNCHANGED <<est, tarea, backlog, completadas, bitacora, log, ambiente, hist>> BY DEF ficheros
<1>3. DOMAIN ll = Terminales /\ DOMAIN pc = Terminales BY <1>1 DEF Tipos
<1>c. PICK c : c = ll'[p] OBVIOUS
<1>4. /\ c = [t |-> Nada, nuevo |-> est, id |-> est.tarea, viejo |-> FALSE] /\ pc'[p] = paso
      /\ \A q \in Terminales : q # p => ll'[q] = ll[q] /\ pc'[q] = pc[q]
      /\ DOMAIN ll' = Terminales
  BY <1>3, <1>c DEF Cargado
<1>5. /\ c.t = Nada /\ c.nuevo = est /\ c.id = est.tarea /\ ~c.viejo
      /\ c \in [t : {c.t}, nuevo : {c.nuevo}, id : {c.id}, viejo : BOOLEAN]
  BY <1>4
<1>6. paso \in {"aceptar", "guardar"} /\ (paso = "aceptar" => p = "humano")
  OBVIOUS
<1>7. est.estado \notin DeHumano /\ est.estado # "IDLE" /\ est.estado # "DONE"
  BY <1>1, Roles DEF Tipo
<1>8. Tipos'
  <2>1. pc' \in [Terminales -> Pasos] BY <1>1, <1>6 DEF Tipos, Pasos
  <2> QED BY <1>1, <1>2, <1>4, <2>1 DEF Tipos, Tipo, Valores
<1>9. ~hist'.cruce => VigenteEst' BY <1>2, VigenteEstQueda DEF Inv, SoloCayo
<1>10. Orden(p)'
  <2>1. Seguro(c.nuevo, Resuelta(c.t, hist.resuelta)) BY <1>1, <1>5 DEF Resuelta
  <2> QED BY <1>1, <1>2, <1>4, <1>5, <1>6, <1>c, <2>1 DEF Orden
<1>11. \A q \in Terminales : Pendiente(q)' => Orden(q)'
  <2>1. TAKE q \in Terminales
  <2>2. CASE q = p BY <1>10, <2>2
  <2>3. CASE q # p
    <3>1. Pendiente(q)' => Pendiente(q) BY <1>4, <2>3 DEF Pendiente
    <3>2. ll'[q] = ll[q] /\ pc'[q] = pc[q] /\ log'[q] = log[q] BY <1>2, <1>4, <2>3
    <3> QED BY <1>2, <3>1, <3>2, OrdenQueda DEF Inv
  <2> QED BY <2>2, <2>3
<1>12. Fresca(p)'
  <2>1. ~hist.cruce => VigentePendiente(c)
    BY <1>5 DEF Inv, VigenteEst, VigentePendiente, Resuelta, Vueltas, Retornos
  <2>2. ~hist.cruce => VigentePendiente(c)' BY <1>2, <2>1, VigentePasa DEF VigentePendiente
  <2>3. ~Cruza(c, hist.cruce) => VigentePendiente(c)' BY <1>5, <2>2 DEF Cruza
  <2> QED BY <1>2, <1>5, <1>c, <2>3 DEF Fresca
<1>13. \A q \in Terminales : Pendiente(q)' /\ ~ll'[q].viejo => Fresca(q)'
  <2>1. TAKE q \in Terminales
  <2>2. CASE q = p BY <1>12, <2>2
  <2>3. CASE q # p
    <3>1. Pendiente(q)' => Pendiente(q) BY <1>4, <2>3 DEF Pendiente
    <3>2. ll'[q] = ll[q] /\ pc'[q] = pc[q] BY <1>4, <2>3
    <3> QED BY <1>2, <3>1, <3>2, FrescaQueda DEF Inv, SoloCayo
  <2> QED BY <2>2, <2>3
<1>14. \A q \in Terminales : (Cerrando(q)' <=> Cerrando(q)) /\ (Guardando(q)' <=> Guardando(q))
  <2>1. ~Cerrando(p) /\ ~Guardando(p) /\ ~Cerrando(p)' /\ ~Guardando(p)'
    BY <1>4, <1>5, <1>6, <1>c DEF Cerrando, Guardando, EnCierre
  <2> QED BY <1>4, <2>1 DEF Cerrando, Guardando, EnCierre
<1>15. Turnos'
  <2>1. \A q \in Terminales : Cerrando(q)' /\ ~hist'.cruce => ~ll'[q].viejo
    BY <1>2, <1>4, <1>5, <1>c, <1>14 DEF Inv, Turnos
  <2>2. Pendiente("humano")' /\ ll'["humano"].t # Nada => ~ll'["humano"].viejo
    BY <1>4, <1>5, <1>c DEF Inv, Turnos, Pendiente, Terminales
  <2>3. /\ pc'["humano"] # "cerrar" /\ pc'["agente"] \notin {"vincular", "aceptar"}
        /\ pc'["humano"] = "vincular" => est'.estado = "IDLE"
    BY <1>2, <1>4, <1>6 DEF Inv, Turnos, Terminales
  <2> QED BY <1>2, <1>7, <2>1, <2>2, <2>3 DEF Turnos
<1>16. ~hist'.cayo => Ficheros'
  <2>1. \A q \in Terminales :
          pc'[q] \in EnCierre \/ pc[q] \in EnCierre => pc'[q] = pc[q] /\ ll'[q].id = ll[q].id
    BY <1>4, <1>6 DEF EnCierre
  <2> QED BY <1>2, <1>7, <1>14, <2>1, FicherosQueda DEF Inv
<1> QED BY <1>1, <1>2, <1>8, <1>9, <1>11, <1>13, <1>15, <1>16 DEF Inv

(* A command goes on to its next write: the turns do not change.            *)
LEMMA PasoDentro ==
  ASSUME Inv, NEW p \in Terminales, NEW paso, pc' = [pc EXCEPT ![p] = paso],
         \/ pc[p] \in EnCierre /\ paso \in EnCierre \cup {"registrar"}
         \/ pc[p] = "registrar" /\ paso = "guardar",
         UNCHANGED <<est, ll, hist, ambiente>>
  PROVE  /\ pc'[p] = paso /\ (\A q \in Terminales : q # p => pc'[q] = pc[q])
         /\ pc' \in [Terminales -> Pasos]
         /\ Pendiente(p) /\ Orden(p) /\ ll[p].t # Nada
         /\ \A q \in Terminales : Pendiente(q)' <=> Pendiente(q)
         /\ \A q \in Terminales : Cerrando(q)' <=> Cerrando(q)
         /\ \A q \in Terminales : q # p => (Guardando(q)' <=> Guardando(q))
         /\ pc[p] \in EnCierre => \A q \in Terminales : Cerrando(q) => q = p
         /\ Turnos'
<1>1. pc \in [Terminales -> Pasos] BY DEF Inv, Tipos
<1>2. paso \in Pasos /\ paso \notin {"libre", "vincular", "cerrar", "aceptar"}
  BY DEF EnCierre, Pasos
<1>3. pc'[p] = paso /\ (\A q \in Terminales : q # p => pc'[q] = pc[q]) /\ pc' \in [Terminales -> Pasos]
  BY <1>1, <1>2
<1>4. Pendiente(p) BY DEF Pendiente, EnCierre
<1>5. Orden(p) BY <1>4 DEF Inv
<1>6. ll[p].t # Nada /\ (pc[p] \in EnCierre => Cierra(ll[p].t)) BY <1>5 DEF Orden, EnCierre
<1>7. \A q \in Terminales : Pendiente(q)' <=> Pendiente(q)
  BY <1>2, <1>3, <1>4 DEF Pendiente
<1>8. \A q \in Terminales : Cerrando(q)' <=> Cerrando(q)
  BY <1>3, <1>6 DEF Cerrando, Guardando, EnCierre
<1>9. \A q \in Terminales : q # p => (Guardando(q)' <=> Guardando(q))
  BY <1>3 DEF Guardando
<1>10. pc[p] \in EnCierre => \A q \in Terminales : Cerrando(q) => q = p
  BY UnCierre DEF Cerrando
<1>11. Turnos'
  <2>1. Turnos BY DEF Inv
  <2>2. est'.estado \in DeHumano => pc'["agente"] = "libre"
    BY <1>3, <1>4, <2>1 DEF Turnos, Terminales, Pendiente
  <2>3. /\ pc'["humano"] # "cerrar" /\ pc'["agente"] \notin {"vincular", "aceptar"}
        /\ pc'["humano"] = "vincular" => est'.estado = "IDLE"
    BY <1>2, <1>3, <2>1 DEF Turnos, Terminales
  <2>4. Pendiente("humano")' /\ ll'["humano"].t # Nada => ~ll'["humano"].viejo
    BY <1>7, <2>1 DEF Turnos, Terminales
  <2>5. \A q \in Terminales : Cerrando(q)' /\ ~hist'.cruce => ~ll'[q].viejo
    BY <1>8, <2>1 DEF Turnos
  <2> QED BY <2>2, <2>3, <2>4, <2>5 DEF Turnos
<1> QED BY <1>3, <1>4, <1>5, <1>6, <1>7, <1>8, <1>9, <1>10, <1>11

LEMMA PasoRegistrar ==
  ASSUME Inv, NEW p \in Terminales, Registrar(p)
  PROVE  Inv'
<1>1. /\ pc[p] = "registrar" /\ pc' = [pc EXCEPT ![p] = "guardar"]
      /\ log' = [log EXCEPT ![p] = [de |-> ll[p].t.de, a |-> ll[p].t.a]]
      /\ UNCHANGED <<est, tarea, backlog, completadas, bitacora, ambiente, ll, hist>>
  BY DEF Registrar, Ir, ficheros
<1>2. /\ pc'[p] = "guardar" /\ (\A q \in Terminales : q # p => pc'[q] = pc[q])
      /\ pc' \in [Terminales -> Pasos]
      /\ Orden(p) /\ ll[p].t # Nada
      /\ \A q \in Terminales : Pendiente(q)' <=> Pendiente(q)
      /\ \A q \in Terminales : Cerrando(q)' <=> Cerrando(q)
      /\ \A q \in Terminales : q # p => (Guardando(q)' <=> Guardando(q))
      /\ Turnos'
  BY <1>1, PasoDentro
<1>3. Tipos' BY <1>1, <1>2 DEF Inv, Tipos, Tipo, Valores
<1>4. Seguro(est', hist'.resuelta) BY <1>1 DEF Inv
<1>5. ~hist'.cruce => VigenteEst' BY <1>1, VigenteEstQueda DEF Inv, SoloCayo
<1>6. \A q \in Terminales : Pendiente(q)' => Orden(q)'
  <2>1. TAKE q \in Terminales
  <2>2. CASE q = p
    <3>1. log'[p] = [de |-> ll[p].t.de, a |-> ll[p].t.a] BY <1>1 DEF Inv, Tipos
    <3> QED BY <1>1, <1>2, <2>2, <3>1 DEF Orden, EnCierre
  <2>3. CASE q # p
    <3>1. log'[q] = log[q] BY <1>1, <2>3 DEF Inv, Tipos
    <3> QED BY <1>1, <1>2, <2>3, <3>1, OrdenQueda DEF Inv
  <2> QED BY <2>2, <2>3
<1>7. \A q \in Terminales : Pendiente(q)' /\ ~ll'[q].viejo => Fresca(q)'
  BY <1>1, <1>2, FrescaQueda DEF Inv, SoloCayo
<1>8. ~hist'.cayo => Ficheros'
  <2>1. \A q \in Terminales :
          /\ pc'[q] \in EnCierre \/ pc[q] \in EnCierre => pc'[q] = pc[q] /\ ll'[q].id = ll[q].id
          /\ Guardando(q)' <=> Guardando(q)
    BY <1>1, <1>2 DEF EnCierre, Guardando
  <2>2. est.estado = "IDLE" /\ pc'["humano"] # "vincular"
          /\ ~(Pendiente("humano")' /\ ll'["humano"].t # Nada) /\ ~hist.cayo => tarea = Nada
    BY <1>1, <1>2 DEF Inv, Ficheros, Terminales
  <2> QED BY <1>1, <1>2, <2>1, <2>2, FicherosQueda DEF Inv, Terminales
<1> QED BY <1>2, <1>3, <1>4, <1>5, <1>6, <1>7, <1>8 DEF Inv

(* A closing goes on from one file of tasks to the next.                    *)
LEMMA PasoArchivo ==
  ASSUME Inv, NEW p \in Terminales, NEW paso \in {"retirar", "anotar", "limpiar"},
         pc[p] \in EnCierre, pc' = [pc EXCEPT ![p] = paso],
         UNCHANGED <<est, tarea, log, ambiente, ll, hist>>,
         completadas' = completadas \cup {ll[p].id} \/ completadas' = completadas,
         ll[p].id \in completadas', backlog' \subseteq Tareas, DOMAIN bitacora' = Tareas,
         bitacora' = [u \in Tareas |-> bitacora'[u]],
         ~hist.cayo =>
           /\ \A u \in Tareas :
                Archivo(u)' \/ (u = ll[p].id /\ paso \in {"retirar", "anotar"})
           /\ paso \in {"retirar", "anotar"} => bitacora'[ll[p].id] = 0
           /\ paso = "anotar" => ll[p].id \notin backlog'
  PROVE  Inv'
<1>1. /\ pc'[p] = paso /\ (\A q \in Terminales : q # p => pc'[q] = pc[q])
      /\ pc' \in [Terminales -> Pasos]
      /\ Orden(p) /\ ll[p].t # Nada
      /\ \A q \in Terminales : Pendiente(q)' <=> Pendiente(q)
      /\ \A q \in Terminales : Cerrando(q)' <=> Cerrando(q)
      /\ \A q \in Terminales : q # p => (Guardando(q)' <=> Guardando(q))
      /\ \A q \in Terminales : Cerrando(q) => q = p
      /\ Turnos'
  <2>1. paso \in EnCierre BY DEF EnCierre
  <2> QED BY <2>1, PasoDentro
<1>2. Cerrando(p) /\ ~Guardando(p) /\ ~Guardando(p)' BY <1>1 DEF Cerrando, Guardando, EnCierre
<1>3. ll[p].id \in Tareas BY <1>2, DeCierre
<1>4. completadas \subseteq completadas' /\ completadas' \subseteq Tareas
  BY <1>3 DEF Inv, Tipos
<1>5. Tipos' BY <1>1, <1>4 DEF Inv, Tipos, Tipo, Valores
<1>6. Seguro(est', hist'.resuelta) BY DEF Inv
<1>7. ~hist'.cruce => VigenteEst' BY <1>4, VigenteEstQueda DEF Inv, SoloCayo
<1>8. \A q \in Terminales : Pendiente(q)' => Orden(q)'
  <2>1. TAKE q \in Terminales
  <2>2. CASE q = p BY <1>1, <1>3, <2>2 DEF Orden, EnCierre
  <2>3. CASE q # p BY <1>1, <1>4, <2>3, OrdenQueda DEF Inv
  <2> QED BY <2>2, <2>3
<1>9. \A q \in Terminales : Pendiente(q)' /\ ~ll'[q].viejo => Fresca(q)'
  BY <1>1, <1>4, FrescaQueda DEF Inv, SoloCayo
<1>10. ASSUME ~hist'.cayo PROVE Ficheros'
  <2>1. Ficheros /\ ~hist.cayo BY <1>10 DEF Inv
  <2>2. \A q \in Terminales : pc'[q] \in EnCierre => q = p
    BY <1>1 DEF Cerrando
  <2>3. \A u \in Tareas :
          Archivo(u)' \/ \E q \in Terminales : pc'[q] \in {"retirar", "anotar"} /\ ll'[q].id = u
    BY <1>1, <2>1
  <2>4. \E q \in Terminales : pc'[q] \in EnCierre \ {"completar"} BY <1>1 DEF EnCierre
  <2>5. \A q \in Terminales :
          /\ pc'[q] \in EnCierre => tarea' = ll'[q].id
          /\ pc'[q] = "completar" => ll'[q].id \notin completadas'
          /\ pc'[q] \in {"retirar", "anotar"} => bitacora'[ll'[q].id] = 0
          /\ pc'[q] = "anotar" => ll'[q].id \notin backlog'
          /\ Guardando(q)' => tarea' = Nada
    <3>1. TAKE q \in Terminales
    <3>2. CASE q = p BY <1>1, <1>2, <2>1, <3>2 DEF Ficheros
    <3>3. CASE q # p
      <4>1. ~Cerrando(q)' BY <1>1, <3>3
      <4> QED BY <4>1 DEF Cerrando, EnCierre
    <3> QED BY <3>2, <3>3
  <2>6. est'.estado = "IDLE" /\ pc'["humano"] # "vincular"
          /\ ~(Pendiente("humano")' /\ ll'["humano"].t # Nada) => tarea' = Nada
    BY <1>1, <2>1 DEF Ficheros, Terminales, EnCierre
  <2>7. ~hist'.cruce =>
          /\ est'.tarea # Nada /\ tarea' # est'.tarea => \E q \in Terminales : Guardando(q)'
          /\ est'.estado = "DONE" => pc'["agente"] = "cerrar" \/ Cerrando("agente")'
    BY <1>1, <1>2, <2>1 DEF Ficheros, Terminales, EnCierre
  <2> QED BY <2>3, <2>4, <2>5, <2>6, <2>7 DEF Ficheros
<1> QED BY <1>1, <1>5, <1>6, <1>7, <1>8, <1>9, <1>10 DEF Inv

(* The task is appended to the completed ones, dropped from the backlog,    *)
(* and gets its entry in the bitacora.                                      *)
LEMMA PasoCompletar ==
  ASSUME Inv, NEW p \in Terminales, Completar(p)
  PROVE  Inv'
<1>1. /\ pc[p] = "completar" /\ pc' = [pc EXCEPT ![p] = "retirar"]
      /\ completadas' = completadas \cup {ll[p].id}
      /\ UNCHANGED <<est, tarea, backlog, bitacora, log, ambiente, ll, hist>>
  BY DEF Completar, Ir
<1>2. Cerrando(p) /\ pc[p] \in EnCierre BY <1>1 DEF Cerrando, EnCierre
<1>3. ll[p].id \in Tareas BY <1>2, DeCierre
<1>4. ~hist.cayo => \A u \in Tareas : Archivo(u)
  <2>1. \A q \in Terminales : pc[q] \notin {"retirar", "anotar"}
    BY <1>1, <1>2, UnCierre DEF Cerrando, EnCierre
  <2> QED BY <2>1 DEF Inv, Ficheros
<1>5. ~hist.cayo => bitacora[ll[p].id] = 0 BY <1>1, <1>3, <1>4 DEF Inv, Ficheros, Archivo
<1>6. ~hist.cayo => \A u \in Tareas : u # ll[p].id => Archivo(u)'
  BY <1>1, <1>4 DEF Archivo
<1> QED BY <1>1, <1>2, <1>5, <1>6, PasoArchivo DEF Inv, Tipos

LEMMA PasoRetirar ==
  ASSUME Inv, NEW p \in Terminales, Retirar(p)
  PROVE  Inv'
<1>1. /\ pc[p] = "retirar" /\ pc' = [pc EXCEPT ![p] = "anotar"]
      /\ backlog' = backlog \ {ll[p].id}
      /\ UNCHANGED <<est, tarea, completadas, bitacora, log, ambiente, ll, hist>>
  BY DEF Retirar, Ir
<1>2. Cerrando(p) /\ pc[p] \in EnCierre BY <1>1 DEF Cerrando, EnCierre
<1>3. ll[p].id \in Tareas /\ ll[p].id \in completadas BY <1>1, <1>2, DeCierre DEF Orden
<1>4. ~hist.cayo => \A u \in Tareas : u # ll[p].id => Archivo(u)
  <2>1. \A q \in Terminales : pc[q] \in {"retirar", "anotar"} => q = p
    BY <1>2, UnCierre DEF Cerrando, EnCierre
  <2> QED BY <2>1 DEF Inv, Ficheros
<1>5. ~hist.cayo => bitacora[ll[p].id] = 0 BY <1>1 DEF Inv, Ficheros
<1>6. ~hist.cayo => \A u \in Tareas : u # ll[p].id => Archivo(u)'
  BY <1>1, <1>4 DEF Archivo
<1> QED BY <1>1, <1>2, <1>3, <1>5, <1>6, PasoArchivo DEF Inv, Tipos

LEMMA PasoAnotar ==
  ASSUME Inv, NEW p \in Terminales, Anotar(p)
  PROVE  Inv'
<1>1. /\ pc[p] = "anotar" /\ pc' = [pc EXCEPT ![p] = "limpiar"]
      /\ bitacora' = [bitacora EXCEPT ![ll[p].id] = Hasta(@ + 1, 2)]
      /\ UNCHANGED <<est, tarea, backlog, completadas, log, ambiente, ll, hist>>
  BY DEF Anotar, Ir
<1>2. Cerrando(p) /\ pc[p] \in EnCierre BY <1>1 DEF Cerrando, EnCierre
<1>3. ll[p].id \in Tareas /\ ll[p].id \in completadas BY <1>1, <1>2, DeCierre DEF Orden
<1>4. ~hist.cayo => \A u \in Tareas : u # ll[p].id => Archivo(u)
  <2>1. \A q \in Terminales : pc[q] \in {"retirar", "anotar"} => q = p
    BY <1>2, UnCierre DEF Cerrando, EnCierre
  <2> QED BY <2>1 DEF Inv, Ficheros
<1>5. bitacora = [u \in Tareas |-> bitacora[u]] BY DEF Inv, Tipos
<1>6. /\ bitacora' = [u \in Tareas |-> IF u = ll[p].id THEN Hasta(bitacora[u] + 1, 2) ELSE bitacora[u]]
  BY <1>1, <1>5
<1>7. ~hist.cayo => \A u \in Tareas : u # ll[p].id => Archivo(u)'
  BY <1>1, <1>4, <1>6 DEF Archivo
<1>8. ~hist.cayo => Archivo(ll[p].id)'
  <2>1. ~hist.cayo => bitacora[ll[p].id] = 0 /\ ll[p].id \notin backlog BY <1>1 DEF Inv, Ficheros
  <2>2. ~hist.cayo => bitacora'[ll[p].id] = 1 BY <1>3, <1>6, <2>1 DEF Hasta
  <2> QED BY <1>1, <1>3, <2>1, <2>2 DEF Archivo
<1>9. DOMAIN bitacora' = Tareas /\ bitacora' = [u \in Tareas |-> bitacora'[u]] BY <1>6
<1> QED BY <1>1, <1>2, <1>3, <1>7, <1>8, <1>9, PasoArchivo DEF Inv, Tipos

(* The current task is cleared: the one that the state names is completed.  *)
LEMMA PasoLimpiar ==
  ASSUME Inv, NEW p \in Terminales, Limpiar(p)
  PROVE  Inv'
<1>1. /\ pc[p] = "limpiar" /\ pc' = [pc EXCEPT ![p] = "registrar"] /\ tarea' = Nada
      /\ UNCHANGED <<est, backlog, completadas, bitacora, log, ambiente, ll, hist>>
  BY DEF Limpiar, Ir
<1>2. /\ pc'[p] = "registrar" /\ (\A q \in Terminales : q # p => pc'[q] = pc[q])
      /\ pc' \in [Terminales -> Pasos]
      /\ Pendiente(p) /\ Orden(p) /\ ll[p].t # Nada
      /\ \A q \in Terminales : Pendiente(q)' <=> Pendiente(q)
      /\ \A q \in Terminales : Cerrando(q)' <=> Cerrando(q)
      /\ \A q \in Terminales : q # p => (Guardando(q)' <=> Guardando(q))
      /\ \A q \in Terminales : Cerrando(q) => q = p
      /\ Turnos'
  <2>1. pc[p] \in EnCierre BY <1>1 DEF EnCierre
  <2> QED BY <1>1, <2>1, PasoDentro
<1>3. /\ Cerrando(p) /\ Cierra(ll[p].t) /\ Fila(ll[p].t) /\ ll[p].id \in completadas
      /\ ll[p].nuevo = EstInicial
  <2>1. Cerrando(p) BY <1>1 DEF Cerrando, EnCierre
  <2> QED BY <1>1, <1>2, <2>1, DeCierre DEF Orden
<1>4. Guardando(p)' BY <1>1, <1>2, <1>3 DEF Guardando
<1>5. ~hist.cruce => Fresca(p) /\ ll[p].id = est.tarea /\ ll[p].t.de = est.estado
  <2>1. ~hist.cruce => ~ll[p].viejo BY <1>3 DEF Inv, Turnos
  <2>2. ~hist.cruce => Fresca(p) BY <1>2, <2>1 DEF Inv
  <2> QED BY <1>2, <2>2 DEF Fresca
<1>6. Tipos' BY <1>1, <1>2 DEF Inv, Tipos, Tipo, Valores
<1>7. Seguro(est', hist'.resuelta) BY <1>1 DEF Inv
<1>8. ~hist'.cruce => VigenteEst'
  <2>1. Nada \notin Tareas BY WorkflowAssumption
  <2> QED BY <1>1, <1>3, <1>5, <2>1 DEF Inv, VigenteEst, Vigente, Desplegado, Cuentas, DeLaTarea
<1>9. \A q \in Terminales : Pendiente(q)' => Orden(q)'
  <2>1. TAKE q \in Terminales
  <2>2. CASE q = p BY <1>1, <1>2, <1>3, <2>2 DEF Orden, EnCierre
  <2>3. CASE q # p BY <1>1, <1>2, <2>3, OrdenQueda DEF Inv
  <2> QED BY <2>2, <2>3
<1>10. ASSUME NEW q \in Terminales, Pendiente(q)', ~ll'[q].viejo
       PROVE  Fresca(q)'
  <2>1. Fresca(q) /\ Orden(q) BY <1>1, <1>2, <1>10 DEF Inv
  <2>2. CASE q = p
    <3>1. ~Une(ll[p].t) /\ ~Ordinaria(ll[p].t)
      BY <1>3, FilaTarea DEF Ordinaria, DeTarea
    <3>2. ~Cruza(ll[p], hist.cruce) => VigentePendiente(ll[p])'
      <4>1. SUFFICES ASSUME VigentePendiente(ll[p]) PROVE VigentePendiente(ll[p])'
        BY <2>1, <2>2 DEF Fresca
      <4>2. ll[p].nuevo.estado = "IDLE" /\ ll[p].nuevo.tarea = Nada
            /\ ll[p].nuevo.refs["acceptance"] = Nada
        BY <1>3, TipoInicial, Referencias
      <4> QED BY <1>1, <4>1, <4>2 DEF VigentePendiente, Vigente, Desplegado, Cuentas, DeLaTarea
    <3> QED BY <1>1, <1>2, <2>1, <2>2, <3>1, <3>2 DEF Fresca, VigentePendiente
  <2>3. CASE q # p
    <3>1. q = "humano" /\ p = "agente" /\ ll[q].t = Nada
      <4>1. ~(p = "humano") BY <1>2, <1>10, <2>3, Aislado DEF Terminales, Pendiente
      <4>2. q = "humano" /\ p = "agente" BY <2>3, <4>1 DEF Terminales
      <4>3. ll["humano"].t = Nada BY <1>2, <1>10, <4>2, Aislado DEF Pendiente
      <4> QED BY <4>2, <4>3
    <3>2. est.estado = "VERIFYING" BY <2>1, <3>1 DEF Orden, Fresca
    <3>3. ll[p].t.de = "DONE"
      <4>1. ll[p].t.de \in {"DONE", "BLOCKED_HUMAN"} BY <1>3, DeCierre
      <4> QED BY <1>2, <3>1, <4>1 DEF Orden, DeHumano
    <3>4. hist.cruce BY <1>5, <3>2, <3>3
    <3>5. Cruza(ll[q], hist.cruce) BY <3>1, <3>4 DEF Cruza
    <3> QED BY <1>1, <1>2, <2>1, <2>3, <3>1, <3>5 DEF Fresca, Cruza
  <2> QED BY <2>2, <2>3
<1>11. ASSUME ~hist'.cayo PROVE Ficheros'
  <2>1. Ficheros BY <1>1, <1>11 DEF Inv
  <2>2. \A q \in Terminales : pc'[q] \notin EnCierre
    BY <1>1, <1>2 DEF Cerrando, EnCierre
  <2>3. \A u \in Tareas : Archivo(u)'
    <3>1. \A q \in Terminales : pc[q] \notin {"retirar", "anotar"}
      BY <1>1, <1>2 DEF Cerrando, EnCierre
    <3>2. \A u \in Tareas : Archivo(u)' <=> Archivo(u) BY <1>1 DEF Archivo
    <3> QED BY <2>1, <3>1, <3>2 DEF Ficheros
  <2>4. tarea' \notin completadas' BY <1>1, WorkflowAssumption DEF Inv, Tipos
  <2>5. ~hist'.cruce /\ est'.estado = "DONE" => pc'["agente"] = "cerrar" \/ Cerrando("agente")'
    BY <1>1, <1>2, <2>1 DEF Ficheros, Terminales
  <2> QED BY <1>1, <1>4, <2>2, <2>3, <2>4, <2>5 DEF Ficheros, EnCierre
<1> QED BY <1>2, <1>6, <1>7, <1>8, <1>9, <1>10, <1>11 DEF Inv

(* The human's answer becomes part of the state that he will save: it was   *)
(* given for what the environment runs.                                     *)
LEMMA PasoEscribir ==
  ASSUME Inv, EscribirAceptacion
  PROVE  Inv'
<1> DEFINE p == "humano"
<1>0. p \in Terminales BY DEF Terminales
<1>1. PICK d \in {"accepted", "rejected"} :
        ll' = [ll EXCEPT ![p].nuevo.refs["acceptance"] = [dec |-> d, ver |-> ambiente]]
  BY DEF EscribirAceptacion
<1>2. /\ pc[p] = "aceptar" /\ pc' = [pc EXCEPT ![p] = "guardar"]
      /\ UNCHANGED <<est, tarea, backlog, completadas, bitacora, log, ambiente, hist>>
  BY DEF EscribirAceptacion, Ir, ficheros
<1>3. pc \in [Terminales -> Pasos] /\ DOMAIN ll = Terminales BY DEF Inv, Tipos
<1> HIDE DEF p
<1>4. /\ pc'[p] = "guardar" /\ pc' \in [Terminales -> Pasos] /\ DOMAIN ll' = Terminales
      /\ \A q \in Terminales : q # p => pc'[q] = pc[q] /\ ll'[q] = ll[q]
  BY <1>0, <1>1, <1>2, <1>3 DEF Pasos
<1>c. PICK c : c = ll[p] OBVIOUS
<1>d. PICK c1 : c1 = ll'[p] OBVIOUS
<1>5. Orden(p) /\ c.t = Nada /\ c.nuevo.estado = "VERIFYING" /\ Pendiente(p)
  BY <1>0, <1>2, <1>c, DeAceptar
<1>6. /\ c \in [t : {c.t}, nuevo : {c.nuevo}, id : {c.id}, viejo : BOOLEAN]
      /\ Tipo(c.nuevo) /\ Valores(c.nuevo)
  BY <1>5, <1>c DEF Orden
<1>e. PICK n : n = c.nuevo OBVIOUS
<1>f. PICK n1 : n1 = [n EXCEPT !.refs["acceptance"] = [dec |-> d, ver |-> ambiente]] OBVIOUS
<1>7. c1 = [c EXCEPT !.nuevo = n1] BY <1>0, <1>1, <1>3, <1>6, <1>c, <1>d, <1>e, <1>f
<1>8. /\ c1.t = Nada /\ c1.nuevo = n1 /\ c1.id = c.id /\ (c1.viejo <=> c.viejo)
      /\ c1 \in [t : {c1.t}, nuevo : {c1.nuevo}, id : {c1.id}, viejo : BOOLEAN]
  BY <1>5, <1>6, <1>7
<1>9. /\ n1.estado = n.estado /\ n1.tarea = n.tarea /\ n1.rework = n.rework
      /\ n1.rollback = n.rollback
      /\ n1.refs = [n.refs EXCEPT !["acceptance"] = [dec |-> d, ver |-> ambiente]]
      /\ n1 \in [estado : Estados, tarea : Tareas \cup {Nada}, rework : 0..MaxRework + 1,
                 crework : 0..MaxArtefacto + 1, rollback : BOOLEAN, refs : {n1.refs},
                 dev : Sesiones \cup {Nada}]
  BY <1>6, <1>e, <1>f DEF Tipo
<1>10. /\ DOMAIN n1.refs = Refs /\ n1.refs["acceptance"].ver = ambiente
       /\ \A k \in Refs : k # "acceptance" => n1.refs[k] = n.refs[k]
  BY <1>6, <1>9, <1>e, Referencias DEF Tipo
<1>11. Tipo(n1) BY <1>6, <1>9, <1>10, <1>e DEF Tipo
<1>12. Valores(n1) BY <1>6, <1>10, <1>e, Referencias DEF Valores
<1>13. Tipos' BY <1>2, <1>4 DEF Inv, Tipos, Tipo, Valores
<1>14. Seguro(est', hist'.resuelta) BY <1>2 DEF Inv
<1>15. ~hist'.cruce => VigenteEst' BY <1>2, VigenteEstQueda DEF Inv, SoloCayo
<1>16. Orden(p)'
  <2>1. n1.estado = "VERIFYING" BY <1>5, <1>9, <1>e
  <2>2. Seguro(n1, Resuelta(Nada, hist.resuelta)) BY <2>1 DEF Seguro, EnEntrega
  <2>3. "VERIFYING" \in DeDeployer BY DEF DeDeployer
  <2> QED BY <1>2, <1>4, <1>8, <1>11, <1>12, <1>d, <2>1, <2>2, <2>3 DEF Orden
<1>17. \A q \in Terminales : Pendiente(q)' => Orden(q)'
  <2>1. TAKE q \in Terminales
  <2>2. CASE q = p BY <1>16, <2>2
  <2>3. CASE q # p
    <3>1. Pendiente(q)' => Pendiente(q) BY <1>4, <2>3 DEF Pendiente
    <3>2. ll'[q] = ll[q] /\ pc'[q] = pc[q] /\ log'[q] = log[q] BY <1>2, <1>4, <2>3
    <3> QED BY <1>2, <3>1, <3>2, OrdenQueda DEF Inv
  <2> QED BY <2>2, <2>3
<1>18. ~ll'[p].viejo => Fresca(p)'
  <2>1. SUFFICES ASSUME ~c1.viejo PROVE Fresca(p)' BY <1>d
  <2>2. Fresca(p) BY <1>0, <1>5, <1>8, <1>c, <2>1 DEF Inv
  <2>3. n = est /\ c.id = est.tarea BY <1>2, <1>5, <1>c, <1>e, <2>2 DEF Fresca
  <2>4. ~hist.cruce => VigentePendiente(c1)
    <3>1. SUFFICES ASSUME ~hist.cruce
                   PROVE  Vigente(n1, hist.resuelta, hist.vueltas, hist.retornos)
      BY <1>8 DEF VigentePendiente, Resuelta, Vueltas, Retornos
    <3>2. Vigente(n, hist.resuelta, hist.vueltas, hist.retornos)
      BY <2>3, <3>1 DEF Inv, VigenteEst
    <3>3. n1.estado = "VERIFYING" /\ n1.refs["approval"] = n.refs["approval"] /\ n.estado = "VERIFYING"
      BY <1>5, <1>9, <1>10, <1>e, Referencias
    <3>4. Desplegado(n1, hist.resuelta)
      BY <1>10, <3>2, <3>3 DEF Vigente, Desplegado, PosDespliegue
    <3> QED BY <1>9, <3>2, <3>4 DEF Vigente, Cuentas, DeLaTarea
  <2>5. ~hist.cruce => VigentePendiente(c1)' BY <1>2, <2>4, VigentePasa DEF VigentePendiente
  <2>6. ~Cruza(c1, hist.cruce) => VigentePendiente(c1)' BY <1>8, <2>5 DEF Cruza
  <2>7. n1.refs["approval"] = est.refs["approval"] BY <1>10, <2>3, Referencias
  <2> QED BY <1>2, <1>4, <1>8, <1>9, <1>d, <2>3, <2>6, <2>7 DEF Fresca
<1>19. \A q \in Terminales : Pendiente(q)' /\ ~ll'[q].viejo => Fresca(q)'
  <2>1. TAKE q \in Terminales
  <2>2. CASE q = p BY <1>18, <2>2
  <2>3. CASE q # p
    <3>1. Pendiente(q)' => Pendiente(q) BY <1>4, <2>3 DEF Pendiente
    <3>2. ll'[q] = ll[q] /\ pc'[q] = pc[q] BY <1>4, <2>3
    <3> QED BY <1>2, <3>1, <3>2, FrescaQueda DEF Inv, SoloCayo
  <2> QED BY <2>2, <2>3
<1>20. \A q \in Terminales : (Cerrando(q)' <=> Cerrando(q)) /\ (Guardando(q)' <=> Guardando(q))
  <2>1. ~Cerrando(p) /\ ~Guardando(p) /\ ~Cerrando(p)' /\ ~Guardando(p)'
    BY <1>2, <1>4, <1>5, <1>8, <1>c, <1>d DEF Cerrando, Guardando, EnCierre
  <2> QED BY <1>4, <2>1 DEF Cerrando, Guardando, EnCierre
<1>21. Turnos'
  <2>1. \A q \in Terminales : Cerrando(q)' /\ ~hist'.cruce => ~ll'[q].viejo
    BY <1>2, <1>4, <1>8, <1>c, <1>d, <1>20 DEF Inv, Turnos
  <2>2. ll'["humano"].t = Nada BY <1>8, <1>d DEF p
  <2> QED BY <1>2, <1>4, <2>1, <2>2 DEF Inv, Turnos, Terminales, p
<1>22. ~hist'.cayo => Ficheros'
  <2>1. \A q \in Terminales :
          pc'[q] \in EnCierre \/ pc[q] \in EnCierre => pc'[q] = pc[q] /\ ll'[q].id = ll[q].id
    BY <1>2, <1>4 DEF EnCierre
  <2>2. /\ pc'["agente"] = pc["agente"]
        /\ est.estado = "IDLE" /\ ~hist.cayo => tarea = Nada
    BY <1>2, <1>4, <1>5, <1>c DEF Inv, Ficheros, Terminales, p
  <2> QED BY <1>2, <1>20, <2>1, <2>2, FicherosQueda DEF Inv
<1> QED BY <1>13, <1>14, <1>15, <1>17, <1>19, <1>21, <1>22 DEF Inv

(* A command ends without saving anything.                                  *)
LEMMA PasoLibre ==
  ASSUME Inv, NEW p \in Terminales, pc' = [pc EXCEPT ![p] = "libre"],
         UNCHANGED <<est, ficheros, ambiente>>, DOMAIN ll' = Terminales, DOMAIN log' = Terminales,
         \A q \in Terminales : q # p => ll'[q] = ll[q] /\ log'[q] = log[q],
         hist' \in [retornos : 0..2, vueltas : 0..MaxRework + 1, cruce : BOOLEAN,
                    resuelta : BOOLEAN, cayo : BOOLEAN, decisiones : 0..MaxDecisiones],
         SoloCayo,
         ~hist'.cayo =>
           /\ ~hist.cayo /\ ~Cerrando(p)
           /\ p = "humano" /\ est.estado = "IDLE" =>
                pc[p] # "vincular" /\ ~(Pendiente(p) /\ ll[p].t # Nada)
           /\ est.estado = "DONE" /\ ~hist.cruce => ~(p = "agente" /\ pc[p] = "cerrar")
  PROVE  Inv'
<1>1. /\ UNCHANGED <<est, tarea, backlog, completadas, bitacora, ambiente>>
      /\ pc \in [Terminales -> Pasos]
  BY DEF ficheros, Inv, Tipos
<1>2. /\ pc'[p] = "libre" /\ pc' \in [Terminales -> Pasos]
      /\ \A q \in Terminales : q # p => pc'[q] = pc[q]
      /\ ~Pendiente(p)' /\ ~Cerrando(p)' /\ ~Guardando(p)'
  BY <1>1 DEF Pasos, Pendiente, Cerrando, Guardando, EnCierre
<1>3. \A q \in Terminales :
        q # p => /\ Pendiente(q)' <=> Pendiente(q)
                 /\ Cerrando(q)' <=> Cerrando(q)
                 /\ Guardando(q)' <=> Guardando(q)
  BY <1>2 DEF Pendiente, Cerrando, Guardando, EnCierre
<1>4. Tipos' BY <1>1, <1>2 DEF Inv, Tipos, Tipo, Valores
<1>5. Seguro(est', hist'.resuelta) BY <1>1 DEF Inv, SoloCayo
<1>6. ~hist'.cruce => VigenteEst' BY <1>1, VigenteEstQueda DEF Inv, SoloCayo
<1>7. \A q \in Terminales : Pendiente(q)' => Orden(q)'
  BY <1>1, <1>2, <1>3, OrdenQueda DEF Inv, SoloCayo
<1>8. \A q \in Terminales : Pendiente(q)' /\ ~ll'[q].viejo => Fresca(q)'
  BY <1>1, <1>2, <1>3, FrescaQueda DEF Inv
<1>9. Turnos'
  <2>1. \A q \in Terminales : Cerrando(q)' /\ ~hist'.cruce => ~ll'[q].viejo
    BY <1>2, <1>3 DEF Inv, Turnos, SoloCayo
  <2>2. Pendiente("humano")' /\ ll'["humano"].t # Nada => ~ll'["humano"].viejo
    BY <1>2, <1>3 DEF Inv, Turnos, Terminales
  <2>3. est'.estado \in DeHumano => pc'["agente"] = "libre"
    BY <1>1, <1>2 DEF Inv, Turnos, Terminales
  <2>4. /\ pc'["humano"] # "cerrar" /\ pc'["agente"] \notin {"vincular", "aceptar"}
        /\ pc'["humano"] = "vincular" => est'.estado = "IDLE"
    BY <1>1, <1>2 DEF Inv, Turnos, Terminales
  <2> QED BY <2>1, <2>2, <2>3, <2>4 DEF Turnos
<1>10. ASSUME ~hist'.cayo PROVE Ficheros'
  <2>1. Ficheros /\ ~Cerrando(p) /\ ~Guardando(p) BY <1>10 DEF Inv, Cerrando
  <2>2. \A q \in Terminales :
          /\ pc'[q] \in EnCierre \/ pc[q] \in EnCierre => pc'[q] = pc[q] /\ ll'[q].id = ll[q].id
          /\ Guardando(q)' <=> Guardando(q)
    BY <1>2, <1>3, <2>1 DEF Cerrando, EnCierre
  <2>3. est.estado = "DONE" /\ ~hist.cruce /\ pc["agente"] = "cerrar" => pc'["agente"] = "cerrar"
    BY <1>2, <1>10 DEF Terminales
  <2>4. est.estado = "IDLE" /\ pc'["humano"] # "vincular"
          /\ ~(Pendiente("humano")' /\ ll'["humano"].t # Nada) => tarea = Nada
    BY <1>2, <1>3, <1>10, <2>1 DEF Terminales, Ficheros
  <2>5. hist'.cruce = hist.cruce BY DEF SoloCayo
  <2> QED BY <1>1, <2>1, <2>2, <2>3, <2>4, <2>5, FicherosQueda
<1> QED BY <1>4, <1>5, <1>6, <1>7, <1>8, <1>9, <1>10 DEF Inv

LEMMA PasoNoAceptar ==
  ASSUME Inv, NoAceptar
  PROVE  Inv'
<1>1. /\ pc["humano"] = "aceptar" /\ pc' = [pc EXCEPT !["humano"] = "libre"]
      /\ ll' = [ll EXCEPT !["humano"] = Nada] /\ UNCHANGED <<est, ficheros, log, ambiente, hist>>
  BY DEF NoAceptar, Ir
<1>2. "humano" \in Terminales BY DEF Terminales
<1>3. ll["humano"].t = Nada /\ ~Cerrando("humano")
  BY <1>1, <1>2, DeAceptar DEF Cerrando, Guardando, EnCierre
<1>4. SoloCayo /\ Tipos BY <1>1 DEF SoloCayo, Inv
<1> QED BY <1>1, <1>2, <1>3, <1>4, PasoLibre DEF Tipos

LEMMA PasoRechazar ==
  ASSUME Inv, NEW p \in Terminales, Rechazar(p)
  PROVE  Inv'
<1>1. /\ pc[p] = "cerrar" /\ pc' = [pc EXCEPT ![p] = "libre"]
      /\ ~(est.estado = "DONE" /\ tarea # Nada /\ tarea = est.tarea)
      /\ UNCHANGED <<est, ficheros, log, ambiente, hist, ll>>
  BY DEF Rechazar, Ir
<1>2. p = "agente" BY <1>1 DEF Inv, Turnos, Terminales
<1>3. ~Cerrando(p) /\ ~Guardando(p) BY <1>1 DEF Cerrando, Guardando, EnCierre
<1>4. SoloCayo /\ Tipos BY <1>1 DEF SoloCayo, Inv
<1>5. ASSUME ~hist.cayo, est.estado = "DONE", ~hist.cruce PROVE FALSE
  <2>1. est.tarea # Nada BY <1>4, <1>5 DEF Tipos, Tipo
  <2>2. tarea # est.tarea BY <1>1, <1>5, <2>1
  <2>3. PICK q \in Terminales : Guardando(q) BY <1>5, <2>1, <2>2 DEF Inv, Ficheros
  <2>4. q = "humano" BY <1>2, <1>3, <2>3 DEF Terminales
  <2>5. pc["agente"] = "libre" BY <2>3, <2>4, Aislado DEF Guardando, Pendiente
  <2> QED BY <1>1, <1>2, <2>5
<1> QED BY <1>1, <1>2, <1>3, <1>4, <1>5, PasoLibre DEF Tipos

LEMMA PasoCaida ==
  ASSUME Inv, NEW p \in Terminales, Caida(p)
  PROVE  Inv'
<1>1. /\ pc' = [pc EXCEPT ![p] = "libre"]
      /\ ll' = [ll EXCEPT ![p] = Nada] /\ log' = [log EXCEPT ![p] = Nada]
      /\ UNCHANGED <<est, ficheros, ambiente>>
  BY DEF Caida, Ir
<1> DEFINE muere == pc[p] \in {"vincular", "cerrar"}
                      \/ (Pendiente(p) /\ ll[p].t # Nada /\ DeTarea(ll[p].t))
<1>2. hist' = [hist EXCEPT !.cayo = @ \/ muere] BY DEF Caida
<1>3. Tipos BY DEF Inv
<1>4. muere \in BOOLEAN OBVIOUS
<1> HIDE DEF muere
<1>5. /\ hist' \in [retornos : 0..2, vueltas : 0..MaxRework + 1, cruce : BOOLEAN,
                    resuelta : BOOLEAN, cayo : BOOLEAN, decisiones : 0..MaxDecisiones]
      /\ SoloCayo /\ (~hist'.cayo => ~hist.cayo /\ ~muere)
  BY <1>2, <1>3, <1>4 DEF Tipos, SoloCayo
<1>6. ~muere => /\ ~Cerrando(p) /\ pc[p] \notin {"vincular", "cerrar"}
                /\ p = "humano" /\ est.estado = "IDLE" => ~(Pendiente(p) /\ ll[p].t # Nada)
  <2>1. Cerrando(p) => muere BY DeCierre DEF muere, DeTarea
  <2>2. ASSUME p = "humano", est.estado = "IDLE", Pendiente(p), ll[p].t # Nada PROVE muere
    <3>1. ll[p].t.de = "IDLE" /\ Fila(ll[p].t) BY <2>2, Aislado DEF Inv, Orden
    <3>2. DeTarea(ll[p].t) BY <3>1, FilaTarea DEF DeTarea, Une
    <3> QED BY <2>2, <3>2 DEF muere
  <2> QED BY <2>1, <2>2 DEF muere
<1>7. DOMAIN ll' = Terminales /\ DOMAIN log' = Terminales
      /\ \A q \in Terminales : q # p => ll'[q] = ll[q] /\ log'[q] = log[q]
  BY <1>1, <1>3 DEF Tipos
<1> QED BY <1>1, <1>5, <1>6, <1>7, PasoLibre

(* The human selects a task: nothing is under way in IDLE, and a task of    *)
(* the backlog is not a completed one.                                      *)
LEMMA PasoActivar ==
  ASSUME Inv, NEW t \in Tareas, Activar(t)
  PROVE  Inv'
<1>1. /\ pc["humano"] = "libre" /\ est.estado = "IDLE" /\ est.tarea = Nada /\ t \in backlog
      /\ tarea' = t /\ pc' = [pc EXCEPT !["humano"] = "vincular"]
      /\ UNCHANGED <<est, backlog, completadas, bitacora, log, ambiente, ll, hist>>
  BY DEF Activar, Ir
<1>2. pc["agente"] = "libre" BY <1>1 DEF Inv, Turnos, DeHumano
<1>3. /\ pc'["humano"] = "vincular" /\ pc'["agente"] = "libre" /\ pc' \in [Terminales -> Pasos]
  BY <1>1, <1>2 DEF Inv, Tipos, Terminales, Pasos
<1>4. /\ \A q \in Terminales : pc[q] = "libre" /\ pc'[q] \in {"libre", "vincular"}
      /\ \A q \in Terminales : ~Pendiente(q)' /\ ~Cerrando(q)' /\ ~Guardando(q)'
      /\ \A q \in Terminales : ~Pendiente(q) /\ ~Cerrando(q) /\ ~Guardando(q)
  BY <1>1, <1>2, <1>3 DEF Terminales, Pendiente, Cerrando, Guardando, EnCierre
<1>5. Tipos' BY <1>1, <1>3 DEF Inv, Tipos, Tipo, Valores
<1>6. Seguro(est', hist'.resuelta) BY <1>1 DEF Inv
<1>7. ~hist'.cruce => VigenteEst'
  BY <1>1 DEF Inv, VigenteEst, Vigente, Desplegado, Cuentas, DeLaTarea
<1>8. Turnos' BY <1>1, <1>3, <1>4 DEF Turnos, Terminales
<1>9. ASSUME ~hist'.cayo PROVE Ficheros'
  <2>1. \A u \in Tareas : Archivo(u)
    BY <1>1, <1>4, <1>9 DEF Inv, Ficheros
  <2>2. \A u \in Tareas : Archivo(u)' BY <1>1, <2>1 DEF Archivo
  <2>3. tarea' \notin completadas' BY <1>1, <2>1 DEF Archivo
  <2> QED BY <1>1, <1>3, <1>4, <2>2, <2>3 DEF Ficheros, EnCierre
<1> QED BY <1>4, <1>5, <1>6, <1>7, <1>8, <1>9 DEF Inv

(* The deployer updates the environment: the deployment under way says to   *)
(* what; no state that anyone may save yet is affected otherwise.           *)
LEMMA PasoActualizar ==
  ASSUME Inv, Actualizar
  PROVE  Inv'
<1>1. /\ est.refs["approval"] # Nada
      /\ \/ est.estado = "DEPLOYING" /\ ambiente' = est.refs["approval"].ver
         \/ est.estado = "ROLLING_BACK" /\ ambiente' = est.refs["approval"].lkg
      /\ UNCHANGED <<est, tarea, backlog, completadas, bitacora, log, pc, ll, hist>>
  BY DEF Actualizar, ficheros
<1>2. ambiente' \in Versiones \cup {Base}
  <2>1. "approval" \in {"candidate_evidence", "approval"} OBVIOUS
  <2>2. est.refs["approval"].ver \in Versiones /\ est.refs["approval"].lkg \in Versiones \cup {Base}
    BY <1>1, <2>1 DEF Inv, Tipos, Valores
  <2> QED BY <1>1, <2>2
<1>3. Tipos' BY <1>1, <1>2 DEF Inv, Tipos, Tipo, Valores
<1>4. Seguro(est', hist'.resuelta) BY <1>1 DEF Inv
<1>5. ~hist'.cruce => VigenteEst'
  BY <1>1 DEF Inv, VigenteEst, Vigente, Desplegado, Cuentas, DeLaTarea
<1>6. \A q \in Terminales : Pendiente(q)' => Orden(q)'
  <2>1. \A q \in Terminales : Pendiente(q)' <=> Pendiente(q) BY <1>1 DEF Pendiente
  <2> QED BY <1>1, <2>1, OrdenQueda DEF Inv
<1>7. ASSUME NEW q \in Terminales, Pendiente(q)', ~ll'[q].viejo
      PROVE  Fresca(q)'
  <2>c. PICK c : c = ll[q] OBVIOUS
  <2>1. Fresca(q) /\ Orden(q) /\ ll'[q] = c BY <1>1, <1>7, <2>c DEF Inv, Pendiente
  <2>2. c.nuevo.estado # "DONE"
    <3>1. CASE c.t = Nada BY <1>1, <2>1, <2>c, <3>1 DEF Fresca
    <3>2. CASE c.t # Nada BY <1>1, <2>1, <2>c, <3>2, FilaVerificacion DEF Fresca, Orden
    <3> QED BY <3>1, <3>2
  <2>3. c.nuevo.estado = "VERIFYING" => ambiente' = c.nuevo.refs["approval"].ver
    <3>1. SUFFICES ASSUME c.nuevo.estado = "VERIFYING" PROVE est.estado = "DEPLOYING"
      BY <1>1, <2>1, <2>c DEF Fresca
    <3>2. c.t # Nada BY <1>1, <2>1, <2>c, <3>1 DEF Fresca
    <3>3. Fila(c.t) /\ c.t.a = "VERIFYING" /\ c.t.de = est.estado
      BY <2>1, <2>c, <3>1, <3>2 DEF Fresca, Orden
    <3> QED BY <1>1, <3>3, FilaVerificacion
  <2>4. VigentePendiente(c) => VigentePendiente(c)'
    BY <1>1, <2>2, <2>3 DEF VigentePendiente, Vigente, Desplegado, Cuentas, DeLaTarea
  <2>5. ~Cruza(c, hist.cruce) => VigentePendiente(c)' BY <2>1, <2>4, <2>c DEF Fresca
  <2> QED BY <1>1, <2>1, <2>5, <2>c DEF Fresca
<1>8. Turnos' BY <1>1 DEF Inv, Turnos, Pendiente, Cerrando, Guardando
<1>9. ~hist'.cayo => Ficheros'
  <2>1. \A q \in Terminales : Guardando(q)' <=> Guardando(q) BY <1>1 DEF Guardando
  <2>2. est.estado \notin {"IDLE", "DONE"} BY <1>1
  <2> QED BY <1>1, <2>1, <2>2, FicherosQueda DEF Inv
<1> QED BY <1>3, <1>4, <1>5, <1>6, <1>7, <1>8, <1>9 DEF Inv

(* A command replaces state.json by the state it computed.                  *)
LEMMA PasoGuardar ==
  ASSUME Inv, NEW p \in Terminales, Guardar(p)
  PROVE  Inv'
<1>c. PICK c : c = ll[p] OBVIOUS
<1> DEFINE sigue == IF c.t # Nada /\ c.nuevo.estado = "DONE" THEN "cerrar" ELSE "libre"
<1>1. /\ pc[p] = "guardar" /\ est' = c.nuevo /\ hist' = Historia(c)
      /\ ll' = [q \in Terminales |->
                  IF q # p /\ Pendiente(q) THEN [ll[q] EXCEPT !.viejo = TRUE] ELSE Nada]
      /\ pc' = [pc EXCEPT ![p] = sigue] /\ log' = [log EXCEPT ![p] = Nada]
      /\ UNCHANGED <<tarea, backlog, completadas, bitacora, ambiente>>
  BY <1>c DEF Guardar, Salvar, Ir, ficheros
<1>2. sigue \in {"libre", "cerrar"} /\ (sigue = "cerrar" => c.t # Nada /\ c.nuevo.estado = "DONE")
      /\ (c.t # Nada /\ c.nuevo.estado = "DONE" => sigue = "cerrar")
  OBVIOUS
<1> HIDE DEF sigue
<1>3. Tipos /\ pc \in [Terminales -> Pasos] /\ DOMAIN log = Terminales BY DEF Inv, Tipos
<1>4. /\ pc'[p] = sigue /\ pc' \in [Terminales -> Pasos]
      /\ \A q \in Terminales : q # p => pc'[q] = pc[q] /\ log'[q] = log[q]
      /\ DOMAIN ll' = Terminales /\ DOMAIN log' = Terminales
  BY <1>1, <1>2, <1>3 DEF Pasos
<1>5. Pendiente(p) BY <1>1 DEF Pendiente
<1>6. Orden(p) BY <1>5 DEF Inv
<1>7. /\ c.viejo \in BOOLEAN /\ Tipo(c.nuevo) /\ Valores(c.nuevo)
      /\ Seguro(c.nuevo, Resuelta(c.t, hist.resuelta))
      /\ c.t = Nada \/ Fila(c.t)
      /\ c.t # Nada => c.nuevo.estado = c.t.a /\ (c.t.de \in DeHumano <=> p = "humano")
      /\ c.t # Nada /\ Cierra(c.t) => c.nuevo = EstInicial
      /\ c.t = Nada => /\ p = "humano" => c.nuevo.estado = "VERIFYING"
                       /\ c.nuevo.estado \in DeDeveloper \cup DeReviewer \cup DeDeployer
  BY <1>6, <1>c DEF Orden
<1>8. c.t = Nada => c.nuevo.estado \notin DeHumano /\ c.nuevo.estado \notin {"IDLE", "DONE"}
  BY <1>7, Roles DEF Tipo
(* The human's transitions are fresh, and run alone.                        *)
<1>9. c.t # Nada /\ p = "humano" => Fresca(p) /\ pc["agente"] = "libre"
  BY <1>5, <1>c, Aislado
<1>10. /\ hist'.cruce = Cruza(c, hist.cruce) /\ hist'.cayo = hist.cayo
       /\ hist'.resuelta = Resuelta(c.t, hist.resuelta)
       /\ hist'.vueltas = Vueltas(c.t, hist.vueltas)
       /\ hist'.retornos = Retornos(c.t, hist.retornos)
       /\ hist' \in [retornos : 0..2, vueltas : 0..MaxRework + 1, cruce : BOOLEAN,
                     resuelta : BOOLEAN, cayo : BOOLEAN, decisiones : 0..MaxDecisiones]
  <2>1. c.t # Nada /\ c.t.ev \in {"human_resolve", "human_reject"} => hist.decisiones < MaxDecisiones
    BY <1>7, <1>9, <1>c, FilaHumana DEF Fresca
  <2> QED BY <1>1, <1>3, <1>7, <2>1, Historias DEF Tipos
(* Unless the save crosses another, the state loaded is the current one.    *)
<1>11. ~hist'.cruce => Fresca(p) /\ VigentePendiente(c)
  <2>1. CASE c.t # Nada /\ Une(c.t)
    <3>1. p = "humano" BY <1>7, <2>1, FilaTarea DEF DeHumano
    <3> QED BY <1>9, <1>10, <1>c, <2>1, <3>1 DEF Fresca
  <2>2. CASE ~(c.t # Nada /\ Une(c.t))
    <3>1. ~hist'.cruce => ~c.viejo BY <1>10, <2>2 DEF Cruza
    <3>2. ~hist'.cruce => Fresca(p) BY <1>5, <1>c, <3>1 DEF Inv
    <3> QED BY <1>10, <1>c, <3>2 DEF Fresca
  <2> QED BY <2>1, <2>2
(* Who else is under way: accept, or a command of the agent over which the  *)
(* acceptance is saved.                                                     *)
<1>12. ASSUME NEW q \in Terminales, q # p, Pendiente(q)
       PROVE  /\ q = "humano" => ll[q].t = Nada
              /\ q = "agente" => c.t = Nada
  <2>1. q = "humano" => ll[q].t = Nada
    BY <1>5, <1>12, Aislado DEF Terminales, Pendiente
  <2>2. q = "agente" => c.t = Nada
    BY <1>9, <1>12 DEF Terminales, Pendiente
  <2> QED BY <2>1, <2>2
<1>13. /\ ~Pendiente(p)' /\ ~Cerrando(p)' /\ ~Guardando(p)'
       /\ \A q \in Terminales : q # p => (Pendiente(q)' <=> Pendiente(q))
  BY <1>2, <1>4 DEF Pendiente, Cerrando, Guardando, EnCierre
<1>14. ASSUME NEW q \in Terminales, q # p, Pendiente(q)
       PROVE  /\ ll'[q].t = ll[q].t /\ ll'[q].nuevo = ll[q].nuevo /\ ll'[q].id = ll[q].id
              /\ ll'[q].viejo
              /\ ll'[q] \in [t : {ll[q].t}, nuevo : {ll[q].nuevo}, id : {ll[q].id}, viejo : BOOLEAN]
  <2>1. Orden(q) BY <1>14 DEF Inv
  <2>2. ll[q] \in [t : {ll[q].t}, nuevo : {ll[q].nuevo}, id : {ll[q].id}, viejo : BOOLEAN]
    BY <2>1 DEF Orden
  <2>3. ll'[q] = [ll[q] EXCEPT !.viejo = TRUE] BY <1>1, <1>14
  <2> QED BY <2>2, <2>3
<1>15. \A q \in Terminales :
         q # p => (Cerrando(q)' <=> Cerrando(q)) /\ (Guardando(q)' <=> Guardando(q))
  <2>1. TAKE q \in Terminales
  <2>2. HAVE q # p
  <2>3. CASE Pendiente(q)
    <3>1. ll'[q].t = ll[q].t /\ pc'[q] = pc[q] BY <1>4, <1>14, <2>2, <2>3
    <3> QED BY <3>1 DEF Cerrando, Guardando
  <2>4. CASE ~Pendiente(q)
    <3>1. pc[q] \in {"libre", "vincular", "cerrar"} /\ pc'[q] = pc[q]
      BY <1>4, <2>2, <2>4 DEF Pendiente
    <3> QED BY <3>1 DEF Cerrando, Guardando, EnCierre
  <2> QED BY <2>3, <2>4
<1>16. Tipos'
  BY <1>1, <1>3, <1>4, <1>7, <1>10 DEF Tipos, Tipo, Valores
<1>17. Seguro(est', hist'.resuelta) BY <1>1, <1>7, <1>10
<1>18. ~hist'.cruce => VigenteEst'
  BY <1>1, <1>10, <1>11
     DEF VigenteEst, VigentePendiente, Vigente, Desplegado, Cuentas, DeLaTarea
<1>19. \A q \in Terminales : Pendiente(q)' => Orden(q)'
  <2>1. SUFFICES ASSUME NEW q \in Terminales, q # p, Pendiente(q) PROVE Orden(q)'
    BY <1>13
  <2>2. Orden(q) BY <2>1 DEF Inv
  <2>3. Seguro(ll[q].nuevo, Resuelta(ll[q].t, hist'.resuelta))
    <3>1. CASE q = "humano"
      <4>1. ll[q].nuevo.estado = "VERIFYING" BY <1>12, <2>1, <2>2, <3>1 DEF Orden
      <4> QED BY <4>1 DEF Seguro, EnEntrega
    <3>2. CASE q = "agente"
      <4>1. hist'.resuelta = hist.resuelta BY <1>10, <1>12, <2>1, <3>2 DEF Resuelta
      <4> QED BY <2>2, <4>1 DEF Orden
    <3> QED BY <3>1, <3>2 DEF Terminales
  <2>4. pc'[q] = pc[q] /\ log'[q] = log[q] /\ completadas' = completadas BY <1>1, <1>4, <2>1
  <2> QED BY <1>14, <2>1, <2>2, <2>3, <2>4 DEF Orden
<1>20. \A q \in Terminales : Pendiente(q)' /\ ~ll'[q].viejo => Fresca(q)'
  BY <1>13, <1>14
<1>21. sigue = "cerrar" => p = "agente"
  BY <1>2, <1>7, FilaVerificacion DEF Terminales, DeHumano
<1>22. Turnos'
  <2>1. est'.estado \in DeHumano => pc'["agente"] = "libre"
    <3>1. CASE p = "agente" BY <1>1, <1>2, <1>4, <3>1 DEF DeHumano
    <3>2. CASE p = "humano"
      <4>1. "agente" \in Terminales /\ "agente" # p BY <3>2 DEF Terminales
      <4> QED BY <1>1, <1>4, <1>8, <1>9, <3>2, <4>1
    <3> QED BY <3>1, <3>2 DEF Terminales
  <2>2. /\ pc'["humano"] # "cerrar" /\ pc'["agente"] \notin {"vincular", "aceptar"}
    BY <1>2, <1>4, <1>21 DEF Inv, Turnos, Terminales
  <2>3. pc'["humano"] # "vincular"
    BY <1>1, <1>2, <1>4 DEF Inv, Turnos, Terminales, DeHumano
  <2>4. Pendiente("humano")' => ll'["humano"].t = Nada
    BY <1>12, <1>13, <1>14 DEF Terminales
  <2>5. ASSUME NEW q \in Terminales, Cerrando(q)', ~hist'.cruce PROVE FALSE
    <3>1. q # p /\ Cerrando(q) BY <1>13, <1>15, <2>5
    <3>2. Pendiente(q) /\ ll[q].t # Nada /\ ll[q].t.de \in {"DONE", "BLOCKED_HUMAN"}
      BY <3>1, DeCierre
    <3>3. q = "agente" /\ c.t = Nada /\ p = "humano"
      BY <1>12, <3>1, <3>2 DEF Terminales
    <3>4. Fresca(p) /\ ~hist.cruce BY <1>10, <1>11, <2>5, <3>3 DEF Cruza
    <3>5. est.estado = "VERIFYING" BY <1>7, <1>c, <3>3, <3>4 DEF Fresca
    <3>6. Fresca(q) BY <3>1, <3>2, <3>4 DEF Inv, Turnos
    <3> QED BY <3>2, <3>5, <3>6 DEF Fresca
  <2> QED BY <2>1, <2>2, <2>3, <2>4, <2>5 DEF Turnos
<1>23. ASSUME ~hist'.cayo PROVE Ficheros'
  <2>1. Ficheros BY <1>10, <1>23 DEF Inv
  <2>2. \A q \in Terminales :
          /\ pc'[q] \in EnCierre => pc'[q] = pc[q] /\ ll'[q].id = ll[q].id
          /\ pc[q] \in EnCierre => pc'[q] = pc[q] /\ ll'[q].id = ll[q].id
    <3>1. \A q \in Terminales : pc[q] \in EnCierre => Pendiente(q) /\ q # p
      BY <1>1 DEF EnCierre, Pendiente
    <3>2. \A q \in Terminales : pc'[q] \in EnCierre => q # p /\ pc[q] \in EnCierre
      BY <1>2, <1>4 DEF EnCierre
    <3> QED BY <1>4, <1>14, <3>1, <3>2
  <2>3. \A u \in Tareas :
          Archivo(u)' \/ \E q \in Terminales : pc'[q] \in {"retirar", "anotar"} /\ ll'[q].id = u
    <3>1. \A u \in Tareas : Archivo(u)' <=> Archivo(u) BY <1>1 DEF Archivo
    <3>2. \A q \in Terminales : pc[q] \in {"retirar", "anotar"} => pc[q] \in EnCierre BY DEF EnCierre
    <3> QED BY <2>1, <2>2, <3>1, <3>2 DEF Ficheros
  <2>4. tarea' \in completadas' => \E q \in Terminales : pc'[q] \in EnCierre \ {"completar"}
    BY <1>1, <2>1, <2>2 DEF Ficheros
  <2>5. \A q \in Terminales :
          /\ pc'[q] \in EnCierre => tarea' = ll'[q].id
          /\ pc'[q] = "completar" => ll'[q].id \notin completadas'
          /\ pc'[q] \in {"retirar", "anotar"} => bitacora'[ll'[q].id] = 0
          /\ pc'[q] = "anotar" => ll'[q].id \notin backlog'
          /\ Guardando(q)' => tarea' = Nada
    BY <1>1, <1>13, <1>15, <2>1, <2>2 DEF Ficheros, EnCierre
  <2>6. est'.estado = "IDLE" => tarea' = Nada
    <3>1. SUFFICES ASSUME c.nuevo.estado = "IDLE" PROVE tarea = Nada BY <1>1
    <3>2. c.t # Nada /\ Fila(c.t) /\ c.t.a = "IDLE" BY <1>7, <1>8, <3>1
    <3>3. Cierra(c.t) BY <3>2, FilaTarea DEF DeTarea, Une
    <3>4. Guardando(p) BY <1>1, <1>c, <3>2, <3>3 DEF Guardando
    <3> QED BY <2>1, <3>4 DEF Ficheros
  <2>7. ASSUME ~hist'.cruce, est'.tarea # Nada, tarea' # est'.tarea
        PROVE  \E q \in Terminales : Guardando(q)'
    <3>1. Fresca(p) BY <1>11, <2>7
    <3>2. ~(c.t # Nada /\ Une(c.t)) BY <1>1, <1>c, <2>7, <3>1 DEF Fresca
    <3>3. ~(c.t # Nada /\ Cierra(c.t)) BY <1>1, <1>7, <2>7, TipoInicial
    <3>4. c.t = Nada \/ Ordinaria(c.t) BY <1>7, <3>2, <3>3 DEF Ordinaria, DeTarea, Une
    <3>5. c.nuevo.tarea = est.tarea BY <1>c, <3>1, <3>4 DEF Fresca
    <3>6. ~hist.cruce BY <1>10, <2>7, <3>2 DEF Cruza
    <3>7. PICK q \in Terminales : Guardando(q) BY <1>1, <2>1, <2>7, <3>5, <3>6 DEF Ficheros
    <3>8. q # p BY <1>c, <3>3, <3>7 DEF Guardando
    <3> QED BY <1>15, <3>7, <3>8
  <2>8. est'.estado = "DONE" => pc'["agente"] = "cerrar"
    BY <1>1, <1>2, <1>4, <1>8, <1>21
  <2> QED BY <2>3, <2>4, <2>5, <2>6, <2>7, <2>8 DEF Ficheros
<1> QED BY <1>16, <1>17, <1>18, <1>19, <1>20, <1>22, <1>23 DEF Inv

(* The commands that load the state, each in the terminal whose turn it is. *)
LEMMA PasoComando ==
  ASSUME Inv, NEW p \in Terminales, NEW ev \in Eventos, Comando(p, ev)
  PROVE  Inv'
<1>1. pc[p] = "libre" /\ Ejecutar(p, ev) /\ est.estado \in Estados
      /\ p = (IF Rol[est.estado] = "human" THEN "humano" ELSE "agente")
      /\ (ev \in {"human_resolve", "human_reject"} => hist.decisiones < MaxDecisiones)
  BY DEF Comando, Inv, Tipos, Tipo
<1>2. est.estado \in DeHumano <=> p = "humano" BY <1>1, Roles
<1>3. PICK t, e, ses : Cargado_(p, t, e, ses) /\ t.ev = ev BY <1>1, Ejecuciones
<1>4. t.de = est.estado BY <1>3 DEF Cargado_, Permitida
<1>5. ~Pendiente(p) BY <1>1 DEF Pendiente
<1> QED BY <1>1, <1>2, <1>3, <1>4, <1>5, PasoCarga

LEMMA PasoAutoCierre ==
  ASSUME Inv, NEW p \in Terminales, AutoCierre(p)
  PROVE  Inv'
<1>1. pc[p] = "cerrar" /\ Ejecutar(p, "close") /\ est.estado \in Estados
  BY DEF AutoCierre, Inv, Tipos, Tipo
<1>2. p = "agente" /\ est.estado \notin DeHumano BY <1>1 DEF Inv, Turnos, Terminales
<1>3. PICK t, e, ses : Cargado_(p, t, e, ses) /\ t.ev = "close" BY <1>1, Ejecuciones, EventosPropios
<1>4. t.de = est.estado BY <1>3 DEF Cargado_, Permitida
<1>5. ~Pendiente(p) BY <1>1 DEF Pendiente
<1> QED BY <1>2, <1>3, <1>4, <1>5, PasoCarga

LEMMA PasoVincular ==
  ASSUME Inv, Vincular
  PROVE  Inv'
<1>1. /\ pc["humano"] = "vincular" /\ Ejecutar("humano", "activate_task")
      /\ "humano" \in Terminales /\ est.estado \in Estados
  BY DEF Vincular, Inv, Tipos, Tipo, Terminales
<1>2. est.estado \in DeHumano BY <1>1 DEF Inv, Turnos, DeHumano
<1>3. PICK t, e, ses : Cargado_("humano", t, e, ses) /\ t.ev = "activate_task"
  BY <1>1, Ejecuciones, EventosPropios
<1>4. t.de = est.estado BY <1>3 DEF Cargado_, Permitida
<1>5. ~Pendiente("humano") BY <1>1 DEF Pendiente
<1> QED BY <1>1, <1>2, <1>3, <1>4, <1>5, PasoCarga

LEMMA PasoAceptar ==
  ASSUME Inv, Aceptar
  PROVE  Inv'
<1>1. /\ pc["humano"] = "libre" /\ est.estado = "VERIFYING"
      /\ ll' = [ll EXCEPT !["humano"] = Cargado(Nada, est)]
      /\ pc' = [pc EXCEPT !["humano"] = "aceptar"]
      /\ UNCHANGED <<est, ficheros, log, ambiente, hist>>
      /\ "humano" \in Terminales
  BY DEF Aceptar, Ir, Terminales
<1>2. est.estado \in DeDeveloper \cup DeReviewer \cup DeDeployer BY <1>1 DEF DeDeployer
<1> QED BY <1>1, <1>2, PasoLectura

LEMMA PasoCrearWorktree ==
  ASSUME Inv, CrearWorktree
  PROVE  Inv'
<1>1. /\ pc["agente"] = "libre" /\ Rol[est.estado] \in {"developer", "reviewer", "deployer"}
      /\ ll' = [ll EXCEPT !["agente"] = Cargado(Nada, est)]
      /\ pc' = [pc EXCEPT !["agente"] = "guardar"]
      /\ UNCHANGED <<est, ficheros, log, ambiente, hist>>
      /\ "agente" \in Terminales /\ est.estado \in Estados
  BY DEF CrearWorktree, Ir, Terminales, Inv, Tipos, Tipo
<1>2. est.estado \in DeDeveloper \cup DeReviewer \cup DeDeployer BY <1>1, Roles
<1> QED BY <1>1, <1>2, PasoLectura

LEMMA Inicio == Init => Inv
<1> SUFFICES ASSUME Init PROVE Inv OBVIOUS
<1>1. /\ est = EstInicial /\ tarea = Nada /\ backlog \in Backlogs /\ completadas = {}
      /\ bitacora = [t \in Tareas |-> 0] /\ ambiente = Base
      /\ log = [p \in Terminales |-> Nada] /\ pc = [p \in Terminales |-> "libre"]
      /\ ll = [p \in Terminales |-> Nada] /\ hist = HistInicial
  BY DEF Init
<1>2. \A p \in Terminales :
        pc[p] = "libre" /\ ~Pendiente(p) /\ ~Cerrando(p) /\ ~Guardando(p) /\ pc[p] \notin EnCierre
  BY <1>1 DEF Pendiente, Cerrando, Guardando, EnCierre
<1>3. Tipos
  <2>1. hist \in [retornos : 0..2, vueltas : 0..MaxRework + 1, cruce : BOOLEAN,
                  resuelta : BOOLEAN, cayo : BOOLEAN, decisiones : 0..MaxDecisiones]
    BY <1>1, WorkflowAssumption DEF HistInicial
  <2>2. Tipo(est) /\ Valores(est) BY <1>1, TipoInicial
  <2> QED BY <1>1, <2>1, <2>2, WorkflowAssumption DEF Tipos, Pasos
<1>4. /\ est.estado = "IDLE" /\ est.tarea = Nada /\ est.rework = 0 /\ est.refs["acceptance"] = Nada
  BY <1>1, TipoInicial, Referencias
<1>5. Seguro(est, hist.resuelta) BY <1>4 DEF Seguro, EnEntrega
<1>6. hist.vueltas = 0 /\ hist.retornos = 0 BY <1>1 DEF HistInicial
<1>7. VigenteEst
  BY <1>4, <1>6, WorkflowAssumption DEF VigenteEst, Vigente, Desplegado, Cuentas, DeLaTarea
<1>8. Turnos BY <1>2 DEF Turnos, Terminales
<1>9. Ficheros
  <2>1. \A t \in Tareas : Archivo(t) BY <1>1 DEF Archivo
  <2> QED BY <1>1, <1>2, <1>4, <2>1 DEF Ficheros
<1> QED BY <1>2, <1>3, <1>5, <1>7, <1>8, <1>9 DEF Inv

LEMMA Quieto ==
  ASSUME Inv, UNCHANGED vars
  PROVE  Inv'
<1>1. UNCHANGED <<est, tarea, backlog, completadas, bitacora, log, ambiente, pc, ll, hist>>
  BY DEF vars
<1>2. Tipos' BY <1>1 DEF Inv, Tipos, Tipo, Valores
<1>3. ~hist'.cruce => VigenteEst' BY <1>1, VigenteEstQueda DEF Inv, SoloCayo
<1>4. \A q \in Terminales : (Pendiente(q)' <=> Pendiente(q)) /\ (Cerrando(q)' <=> Cerrando(q))
                             /\ (Guardando(q)' <=> Guardando(q))
  BY <1>1 DEF Pendiente, Cerrando, Guardando
<1>5. \A q \in Terminales : Pendiente(q)' => Orden(q)' BY <1>1, <1>4, OrdenQueda DEF Inv
<1>6. \A q \in Terminales : Pendiente(q)' /\ ~ll'[q].viejo => Fresca(q)'
  BY <1>1, <1>4, FrescaQueda DEF Inv, SoloCayo
<1>7. Turnos' BY <1>1, <1>4 DEF Inv, Turnos, Terminales
<1>8. ~hist'.cayo => Ficheros'
  <2>1. ~hist.cayo /\ est.estado = "IDLE" /\ pc'["humano"] # "vincular"
          /\ ~(Pendiente("humano")' /\ ll'["humano"].t # Nada) => tarea = Nada
    BY <1>1, <1>4 DEF Inv, Ficheros, Terminales
  <2> QED BY <1>1, <1>4, <2>1, FicherosQueda DEF Inv
<1> QED BY <1>1, <1>2, <1>3, <1>5, <1>6, <1>7, <1>8 DEF Inv

LEMMA Paso == Inv /\ [Next]_vars => Inv'
<1> SUFFICES ASSUME Inv, [Next]_vars PROVE Inv' OBVIOUS
<1>1. CASE UNCHANGED vars BY <1>1, Quieto
<1>2. CASE Next
  <2>1. ASSUME NEW p \in Terminales, NEW ev \in Eventos, Comando(p, ev) PROVE Inv'
    BY <2>1, PasoComando
  <2>2. ASSUME NEW p \in Terminales, Registrar(p) PROVE Inv' BY <2>2, PasoRegistrar
  <2>3. ASSUME NEW p \in Terminales, Guardar(p) PROVE Inv' BY <2>3, PasoGuardar
  <2>4. ASSUME NEW p \in Terminales, AutoCierre(p) PROVE Inv' BY <2>4, PasoAutoCierre
  <2>5. ASSUME NEW p \in Terminales, Rechazar(p) PROVE Inv' BY <2>5, PasoRechazar
  <2>6. ASSUME NEW p \in Terminales, Caida(p) PROVE Inv' BY <2>6, PasoCaida
  <2>7. ASSUME NEW p \in Terminales, Completar(p) PROVE Inv' BY <2>7, PasoCompletar
  <2>8. ASSUME NEW p \in Terminales, Retirar(p) PROVE Inv' BY <2>8, PasoRetirar
  <2>9. ASSUME NEW p \in Terminales, Anotar(p) PROVE Inv' BY <2>9, PasoAnotar
  <2>10. ASSUME NEW p \in Terminales, Limpiar(p) PROVE Inv' BY <2>10, PasoLimpiar
  <2>11. ASSUME NEW t \in Tareas, Activar(t) PROVE Inv' BY <2>11, PasoActivar
  <2>12. CASE Vincular BY <2>12, PasoVincular
  <2>13. CASE Aceptar BY <2>13, PasoAceptar
  <2>14. CASE EscribirAceptacion BY <2>14, PasoEscribir
  <2>15. CASE NoAceptar BY <2>15, PasoNoAceptar
  <2>16. CASE CrearWorktree BY <2>16, PasoCrearWorktree
  <2>17. CASE Actualizar BY <2>17, PasoActualizar
  <2> QED BY <1>2, <2>1, <2>2, <2>3, <2>4, <2>5, <2>6, <2>7, <2>8, <2>9, <2>10, <2>11, <2>12,
             <2>13, <2>14, <2>15, <2>16, <2>17 DEF Next
<1> QED BY <1>1, <1>2

-----------------------------------------------------------------------------
(* The theorems *)

(* Everything that the proofs keep of the engine holds in every reachable   *)
(* state: what any command has loaded, whose turn it is, and how far the    *)
(* task files of a closing are.                                             *)
THEOREM HarnessInvariante == Spec => []Inv
BY Inicio, Paso, PTL DEF Spec

(* What is deployed is what the reviewer reviewed and the human approved,   *)
(* and a task that deployed is DONE only with the approved release in the   *)
(* environment and, when it has human criteria, an acceptance given for it  *)
(* (workflow.yaml, guards.py, approve.py).                                    *)
THEOREM HarnessEntregaSegura == Spec => []EntregaSegura
<1>1. Inv => EntregaSegura
  <2> SUFFICES ASSUME Inv PROVE EntregaSegura OBVIOUS
  <2>1. ASSUME est.estado = "DEPLOYING"
        PROVE  LET a == est.refs["approval"]
                   r == est.refs["review_evidence"] IN
               /\ a # Nada /\ r # Nada
               /\ a.dec = "approved" /\ a.ver = est.refs["candidate_evidence"].ver
               /\ Arbol[a.ver.rel] = Arbol[r.head]
               /\ hist.resuelta \/ (r.dec = "APPROVED" /\ r.ses # est.refs["developer_evidence"].ses)
    BY <2>1 DEF Inv, Seguro, EnEntrega, Revisado, ConArbol, Aprobado
  <2>2. DespliegueSeguro
    BY <2>1 DEF Inv, DespliegueSeguro, VigenteEst, Vigente, Desplegado
  <2>3. AceptacionVigente
    BY DEF Inv, AceptacionVigente, VigenteEst, Vigente, Desplegado
  <2> QED BY <2>2, <2>3 DEF EntregaSegura
<1> QED BY <1>1, HarnessInvariante, PTL

(* Between two decisions of the human the reviewer returns the work at most *)
(* MaxRework times, and one approval permits one rollback (effects of       *)
(* transition.py and the guards rework_available and rollback_permitted).   *)
THEOREM HarnessLimites == Spec => []LimitesDelCiclo
<1>1. Inv => LimitesDelCiclo
  BY DEF Inv, LimitesDelCiclo, VigenteEst, Vigente, Cuentas
<1> QED BY <1>1, HarnessInvariante, PTL

(* The task files agree with the state (closure.py, approve.py): DONE is    *)
(* being closed, and a finished task has left the backlog with one entry in *)
(* the bitacora, unless a command died or saved over another.               *)
THEOREM HarnessCoherencia == Spec => []Coherencia
<1>1. Inv => Coherencia
  <2> SUFFICES ASSUME Inv PROVE Coherencia OBVIOUS
  <2>1. TypeOK BY DEF Inv, Tipos, Tipo, TypeOK
  <2>2. ~hist.cruce /\ est.tarea # Nada =>
          tarea = est.tarea \/ (tarea = Nada /\ est.tarea \in completadas)
    BY DEF Inv, VigenteEst, Vigente, DeLaTarea
  <2>3. ~hist.cruce /\ est.estado = "DONE" /\ ~hist.cayo =>
          pc["agente"] \in {"cerrar", "completar", "retirar", "anotar", "limpiar",
                            "registrar", "guardar"}
    BY DEF Inv, Ficheros, Cerrando, Guardando, EnCierre
  <2>4. ASSUME est.tarea = Nada, pc["humano"] = "libre", ~hist.cayo
        PROVE  /\ tarea = Nada /\ completadas \cap backlog = {}
               /\ \A t \in Tareas : bitacora[t] = IF t \in completadas THEN 1 ELSE 0
    <3>1. est.estado = "IDLE" BY <2>4 DEF Inv, Tipos, Tipo
    <3>2. \A p \in Terminales : pc[p] = "libre"
      BY <2>4, <3>1 DEF Inv, Turnos, DeHumano, Terminales
    <3>3. tarea = Nada
      <4>1. ~Pendiente("humano") BY <2>4 DEF Pendiente
      <4> QED BY <2>4, <3>1, <4>1 DEF Inv, Ficheros
    <3>4. \A t \in Tareas : Archivo(t) BY <2>4, <3>2 DEF Inv, Ficheros
    <3>5. completadas \subseteq Tareas BY DEF Inv, Tipos
    <3> QED BY <3>3, <3>4, <3>5 DEF Archivo
  <2> QED BY <2>1, <2>2, <2>3, <2>4 DEF Coherencia
<1> QED BY <1>1, HarnessInvariante, PTL

(* Only a save changes the state.                                           *)
LEMMA CambioAlGuardar ==
  ASSUME [Next]_vars, Inv, est' # est
  PROVE  \E p \in Terminales : Guardar(p)
<1>1. CASE UNCHANGED vars BY <1>1 DEF vars
<1>2. CASE Next
  <2>1. ASSUME NEW p \in Terminales, NEW ev \in Eventos, Comando(p, ev) PROVE est' = est
    BY <2>1 DEF Comando, Ejecutar
  <2>2. ASSUME NEW p \in Terminales,
               Registrar(p) \/ AutoCierre(p) \/ Rechazar(p) \/ Caida(p) \/ Completar(p)
                 \/ Retirar(p) \/ Anotar(p) \/ Limpiar(p)
        PROVE  est' = est
    BY <2>2 DEF Registrar, AutoCierre, Ejecutar, Rechazar, Caida, Completar, Retirar, Anotar, Limpiar
  <2>3. ASSUME NEW t \in Tareas, Activar(t) PROVE est' = est BY <2>3 DEF Activar
  <2>4. Vincular \/ Aceptar \/ EscribirAceptacion \/ NoAceptar \/ CrearWorktree \/ Actualizar
          => est' = est
    BY DEF Vincular, Ejecutar, Aceptar, EscribirAceptacion, NoAceptar, CrearWorktree, Actualizar
  <2> QED BY <1>2, <2>1, <2>2, <2>3, <2>4 DEF Next
<1> QED BY <1>1, <1>2

(* Every change of state has its line in transitions.jsonl before it is     *)
(* saved (transition.apply_transition), unless a command saves over a state *)
(* that it has not read.                                                    *)
THEOREM HarnessCambioRegistrado == Spec => CadaCambioRegistrado
<1> DEFINE Registrado ==
      est'.estado # est.estado =>
        hist'.cruce \/ \E p \in Terminales : log[p] = [de |-> est.estado, a |-> est'.estado]
<1>1. Inv /\ [Next]_vars => [Registrado]_vars
  <2> SUFFICES ASSUME Inv, [Next]_vars, est'.estado # est.estado, ~hist'.cruce
               PROVE  \E p \in Terminales : log[p] = [de |-> est.estado, a |-> est'.estado]
    OBVIOUS
  <2>1. PICK p \in Terminales : Guardar(p) BY CambioAlGuardar
  <2>2. pc[p] = "guardar" /\ est' = ll[p].nuevo /\ hist' = Historia(ll[p])
    BY <2>1 DEF Guardar, Salvar
  <2>3. Orden(p) /\ Pendiente(p) BY <2>2 DEF Inv, Pendiente
  <2>4. ll[p].t = Nada \/ Fila(ll[p].t) BY <2>3 DEF Orden
  <2>5. hist'.cruce = Cruza(ll[p], hist.cruce)
    BY <2>2, <2>3, <2>4, Historias DEF Inv, Tipos, Orden
  <2>6. Fresca(p)
    <3>1. CASE ll[p].t # Nada /\ Une(ll[p].t)
      <4>1. ll[p].t.de = "IDLE" /\ p = "humano"
        BY <2>3, <2>4, <3>1, FilaTarea DEF Orden, DeHumano
      <4> QED BY <2>3, <3>1, <4>1, Aislado
    <3>2. CASE ~(ll[p].t # Nada /\ Une(ll[p].t)) BY <2>3, <2>5, <3>2 DEF Cruza, Inv
    <3> QED BY <3>1, <3>2
  <2>7. ll[p].t # Nada BY <2>2, <2>6 DEF Fresca
  <2>8. log[p] = [de |-> ll[p].t.de, a |-> ll[p].t.a] /\ ll[p].nuevo.estado = ll[p].t.a
        /\ ll[p].t.de = est.estado
    BY <2>2, <2>3, <2>6, <2>7 DEF Orden, Fresca
  <2> QED BY <2>2, <2>8
<1> QED BY <1>1, HarnessInvariante, PTL DEF Spec, CadaCambioRegistrado

-----------------------------------------------------------------------------
(***************************************************************************)
(* The gates.                                                              *)
(***************************************************************************)
(* Types of the gates. *)
Fichas == [id : Numeros, def : Definiciones]

Aceptaciones == [dec : {"accept", "reject"}, crit : SUBSET Criterios]

TipoArnes(a) ==
  /\ a \in [estado : Estados, tarea : Numeros \cup {Ninguno}, ficha : {a.ficha}, ultima : {a.ultima},
            fallo : Fallos \cup {Ninguno}, acepta : {a.acepta}]
  /\ a.ficha # Ninguno => a.ficha \in Fichas
  /\ a.acepta # Ninguno => a.acepta \in Aceptaciones

Items == [id : Numeros, estado : {"pending", "active"}, sha : Nat, def : Definiciones \cup {Ninguno}]

(* A backlog that holds each task once. *)
Sana(L) ==
  /\ L \subseteq Items
  /\ \A i, j \in L : i.id = j.id => i = j

(* The draft n is the one whose hash was checked, or took its place between  *)
(* the check and the read. *)
Cotejado(sha, n, R) == n = sha \/ <<sha, n>> \in R

Cotejados(L, R) == \A i \in L : i.sha # 0 => Cotejado(i.sha, i.def.n, R)

Borradores == {b \in [sha : Nat \ {0}, def : Definiciones] : b.def.n = b.sha}

Defines == [cmd : {"define"}, id : Numeros, sha : Nat \ {0}]

MemoriaBien(m) ==
  /\ m \in [destino : BOOLEAN, borradores : Nat, defines : {m.defines}, guardadas : {m.guardadas},
            relevos : {m.relevos}, cruce : BOOLEAN]
  /\ m.defines \subseteq Defines
  /\ m.guardadas \subseteq Numeros

OrqBien(o) ==
  /\ o \in [nodo : {o.nodo}, aceptacion : BOOLEAN, carga : {o.carga}, sugerido : {o.sugerido},
            ordenes : {o.ordenes}, fresca : BOOLEAN]

(* What a window has read. *)
VentanaBien(x) ==
  /\ x \in [c : {x.c}, paso : {"borrador", "archivos", "confirmar"}, viejo : BOOLEAN,
            lista : {x.lista}, def : {x.def}, arnes : {x.arnes}]
  /\ x.c.cmd \in {"define", "activate", "gate", "accept", "resolve"}
  /\ x.paso = "borrador" => x.c.cmd = "define"
  /\ Sana(x.lista)
  /\ x.c.cmd = "define" =>
       /\ x.c.id \in Numeros /\ x.c.sha \in Nat \ {0}
       /\ x.paso # "borrador" => x.def \in Definiciones
       /\ x.paso = "confirmar" => x.c.id \notin IdsDe(x.lista)
  /\ x.c.cmd = "activate" /\ x.paso = "confirmar" =>
       \E i \in x.lista : i.id = x.c.id /\ i.def # Ninguno
  /\ x.c.cmd = "accept" =>
       /\ TipoArnes(x.arnes) /\ x.arnes.estado = "VERIFYING"
       /\ x.c.dec \in {"accept", "reject"} /\ x.c.crit \subseteq Criterios

(* As long as it is not old, what it read is what there is. *)
VentanaFresca(x, a, L, C) ==
  ~x.viejo =>
    /\ x.c.cmd \in {"define", "activate"} /\ x.paso = "confirmar" => x.lista = L
    /\ x.c.cmd = "define" /\ x.paso = "confirmar" => x.c.id \notin C
    /\ x.c.cmd = "activate" => a.estado = "IDLE"
    /\ x.c.cmd = "accept" => x.arnes = a

(* The draft that a define is going to read, or has read. *)
VentanaCotejada(x, B, R) ==
  /\ Cotejados(x.lista, R)
  /\ x.c.cmd = "define" /\ x.paso = "borrador" =>
       B[x.c.id] # Ninguno /\ Cotejado(x.c.sha, B[x.c.id].sha, R)
  /\ x.c.cmd = "define" /\ x.paso # "borrador" => Cotejado(x.c.sha, x.def.n, R)

(* How a task was blocked. *)
Bloqueo(t) == Fila(t) /\ t.a = "BLOCKED_HUMAN"

Coincide(a, L) ==
  /\ a.tarea = Ninguno => a.ficha = Ninguno /\ \A i \in L : i.estado = "pending"
  /\ a.tarea # Ninguno =>
       /\ a.ficha # Ninguno /\ a.ficha.id = a.tarea
       /\ {i \in L : i.estado = "active"} = {i \in L : i.id = a.tarea /\ i.def = a.ficha.def}
       /\ \E i \in L : i.id = a.tarea

Acuerdo(a, L, C, G) ==
  /\ a.estado = "IDLE" <=> a.tarea = Ninguno
  /\ Coincide(a, L)
  /\ IdsDe(L) \cap C = {}
  /\ G \subseteq IdsDe(L) \cup C
  /\ a.estado = "BLOCKED_HUMAN" =>
       /\ Bloqueo(a.ultima)
       /\ a.ultima.rec = "failure_evidence" => a.fallo \in Fallos

Pendiente_(a) == a.estado = "VERIFYING" /\ a.acepta = Ninguno /\ human_criteria(a) # {}

CargaIdle(L) == [Carga("idle") EXCEPT !.ids = IdsDe({i \in L : i.def # Ninguno /\ i.estado = "pending"})]

CargaBloqueo(a) == [Carga("blocked") EXCEPT !.clase = classify_block(a), !.sugerido = Sugerido(a)]

CargaAceptacion(a) == [Carga("acceptance") EXCEPT !.humanos = human_criteria(a)]

Orden_(c, os, a, L, C, B) ==
  \/ /\ c.cmd = "define" /\ c.id \in Numeros /\ c.sha \in Nat \ {0} /\ a.estado = "IDLE"
     /\ B[c.id] # Ninguno /\ B[c.id].sha = c.sha
     /\ c.id \notin IdsDe(L) \cup C
  \/ /\ c.cmd = "activate"
     /\ \/ a.estado = "IDLE" /\ \E i \in L : i.id = c.id /\ i.def # Ninguno
        \/ \E d \in os : d.cmd = "define" /\ d.id = c.id
  \/ c.cmd = "gate" /\ a.estado = "WAITING_HUMAN_APPROVAL"
  \/ /\ c.cmd = "accept" /\ a.estado = "VERIFYING" /\ c.crit # {} /\ c.crit \subseteq human_criteria(a)
     /\ c.dec = "accept" => human_criteria(a) \subseteq c.crit
  \/ c.cmd = "resolve" /\ a.estado = "BLOCKED_HUMAN"

OrqFresco(o, a, L, C, B) ==
  /\ o.nodo = "describir" => o.aceptacion /\ Pendiente_(a)
  /\ o.nodo = "preguntar" =>
       \/ a.estado = "IDLE" /\ o.carga = CargaIdle(L)
       \/ a.estado = "WAITING_HUMAN_APPROVAL" /\ o.carga = Carga("approval")
       \/ a.estado = "BLOCKED_HUMAN" /\ o.carga = CargaBloqueo(a)
       \/ Pendiente_(a) /\ o.carga = CargaAceptacion(a)
  /\ o.nodo \in {"proponer", "entrevista"} => a.estado = "IDLE"
  /\ o.nodo = "entrevista" => o.sugerido \notin IdsDe(L) \cup C
  /\ o.nodo = "mostrar" => \A c \in o.ordenes : Orden_(c, o.ordenes, a, L, C, B)
  /\ o.carga.tipo = "blocked" =>
       /\ a.estado = "BLOCKED_HUMAN"
       /\ o.carga.clase = classify_block(a) /\ o.carga.sugerido = Sugerido(a)

GTipos ==
  /\ TipoArnes(arnes) /\ Sana(lista) /\ cerradas \subseteq Numeros
  /\ borrador \in [Numeros -> Borradores \cup {Ninguno}]
  /\ OrqBien(orq) /\ MemoriaBien(memoria)
  /\ ventana = [v \in Ventanas |-> ventana[v]]
  /\ \A v \in Ventanas : ventana[v] # Ninguno => VentanaBien(ventana[v])

GAcuerdo ==
  /\ ~memoria.cruce => Acuerdo(arnes, lista, cerradas, memoria.guardadas)
  /\ ~memoria.cruce =>
       \A v \in Ventanas : ventana[v] # Ninguno => VentanaFresca(ventana[v], arnes, lista, cerradas)
  /\ orq.fresca => ~memoria.cruce /\ OrqFresco(orq, arnes, lista, cerradas, borrador)

GCotejo ==
  /\ Cotejados(lista, memoria.relevos)
  /\ \A v \in Ventanas :
       ventana[v] # Ninguno => VentanaCotejada(ventana[v], borrador, memoria.relevos)

GInv == GTipos /\ GAcuerdo /\ GCotejo

-----------------------------------------------------------------------------
(* What the gates rely on in workflow.yaml.                                 *)
LEMMA FilaPuerta ==
  ASSUME NEW t, Fila(t)
  PROVE  /\ t.de \in Estados /\ t.a \in Estados
         /\ t.de = "IDLE" => t.ev = "activate_task"
         /\ "bind_task" \in t.efs => t.de = "IDLE"
         /\ t.a = "IDLE" <=> Termina(t)
         /\ t.ev \in {"human_approve", "human_reject", "human_resolve"} =>
              t.rec # "failure_evidence" /\ t.a # "BLOCKED_HUMAN"
<1>0. Termina(t) <=> "close_task" \in t.efs \/ "cancel_task" \in t.efs BY DEF Termina
<1>1. PICK i \in 1..39 : t = Transiciones[i] BY Dominio DEF Fila
<1>2. CASE i \in 1..10 BY <1>1, <1>2, <1>0, SMTT(60) DEF Transiciones, T, Estados, DeHumano, DeDeveloper,
                          DeReviewer, DeDeployer, DelSistema
<1>3. CASE i \in 11..20 BY <1>1, <1>3, <1>0, SMTT(60) DEF Transiciones, T, Estados, DeHumano, DeDeveloper,
                          DeReviewer, DeDeployer, DelSistema
<1>4. CASE i \in 21..30 BY <1>1, <1>4, <1>0, SMTT(60) DEF Transiciones, T, Estados, DeHumano, DeDeveloper,
                          DeReviewer, DeDeployer, DelSistema
<1>5. CASE i \in 31..39 BY <1>1, <1>5, <1>0, SMTT(60) DEF Transiciones, T, Estados, DeHumano, DeDeveloper,
                          DeReviewer, DeDeployer, DelSistema
<1> QED BY <1>2, <1>3, <1>4, <1>5

(* Whatever blocks a task either records a failure or says itself why.      *)
Explica(t) ==
  \/ "infra" \in t.gs
  \/ t.ev \in {"review_reject", "candidate_reject", "rollback_finished", "merged"}

LEMMA FilaBloqueo ==
  ASSUME NEW t, Bloqueo(t)
  PROVE  t.rec = "failure_evidence" <=> ~Explica(t)
<1>1. PICK i \in 1..39 : t = Transiciones[i] BY Dominio DEF Fila, Bloqueo
<1>a. t.a = "BLOCKED_HUMAN" BY DEF Bloqueo
<1>2. CASE i \in 1..10 BY <1>1, <1>2, <1>a, SMTT(60) DEF Transiciones, T, Explica
<1>3. CASE i \in 11..20 BY <1>1, <1>3, <1>a, SMTT(60) DEF Transiciones, T, Explica
<1>4. CASE i \in 21..30 BY <1>1, <1>4, <1>a, SMTT(60) DEF Transiciones, T, Explica
<1>5. CASE i \in 31..39 BY <1>1, <1>5, <1>a, SMTT(60) DEF Transiciones, T, Explica
<1> QED BY <1>2, <1>3, <1>4, <1>5

LEMMA Filas ==
  /\ \A t : Fila(t) <=> t \in Tabla
  /\ Fila(Transiciones[1]) /\ Transiciones[1].a = "NEW" /\ "bind_task" \in Transiciones[1].efs
  /\ ~Termina(Transiciones[1])
  /\ "DEVELOPING" \in Destinos
<1>1. \A t : Fila(t) <=> t \in Tabla
  BY DEF Fila, Tabla, ToSet
<1>2. 1 \in DOMAIN Transiciones /\ 33 \in DOMAIN Transiciones
  BY Dominio
<1>3. /\ Transiciones[1].a = "NEW" /\ Transiciones[1].efs = {"bind_task"}
      /\ Transiciones[33].ev = "human_resolve" /\ Transiciones[33].a = "DEVELOPING"
  BY DEF Transiciones, T
<1>4. ~Termina(Transiciones[1]) /\ "bind_task" \in Transiciones[1].efs
  BY <1>3 DEF Termina
<1>5. Transiciones[33] \in {x \in Tabla : x.ev = "human_resolve"}
  BY <1>2, <1>3 DEF Tabla, ToSet
<1>6. "DEVELOPING" \in Destinos
  BY <1>5, <1>3 DEF Destinos
<1> QED BY <1>1, <1>2, <1>3, <1>4, <1>6 DEF Fila

(* The explanation of a block, and the state that is suggested.             *)
LEMMA ClaseEs ==
  ASSUME NEW a, Bloqueo(a.ultima), a.ultima.rec = "failure_evidence" => a.fallo \in Fallos
  PROVE  /\ classify_block(a) # "unknown"
         /\ classify_block(a) \in Fallos <=> a.ultima.rec = "failure_evidence"
<1>1. Ninguno \notin Fallos
  BY GatesAssumption DEF Fallos
<1>2. CASE a.ultima.rec = "failure_evidence"
  <2>1. ~Explica(a.ultima) /\ a.fallo \in Fallos
    BY <1>2, FilaBloqueo
  <2>2. classify_block(a) = a.fallo
    BY <2>1, <1>1 DEF classify_block, Explica
  <2> QED BY <2>1, <2>2, <1>2 DEF Fallos
<1>3. CASE a.ultima.rec # "failure_evidence"
  <2>1. Explica(a.ultima)
    BY <1>3, FilaBloqueo
  <2>2. classify_block(a) \in {"infra", "rework_exhausted", "rollback", "non_fast_path"}
    BY <2>1 DEF classify_block, Explica
  <2> QED BY <2>2, <1>3 DEF Fallos
<1> QED BY <1>2, <1>3

LEMMA SugeridoEs ==
  ASSUME NEW a
  PROVE  Sugerido(a) \in Destinos \cup {Ninguno}
<1>1. CASE classify_block(a) = "aws_session" /\ a.ultima.de \in Destinos
  BY <1>1 DEF Sugerido
<1>2. CASE ~(classify_block(a) = "aws_session" /\ a.ultima.de \in Destinos)
  BY <1>2, Filas DEF Sugerido
<1> QED BY <1>1, <1>2

(* The greatest of a bounded set of numbers.                                *)
LEMMA MaxEs ==
  ASSUME NEW n \in Nat, NEW S, S \subseteq 0 .. n, S # {}
  PROVE  Max(S) \in S /\ \A y \in S : Max(S) >= y
<1> DEFINE M == {n - x : x \in S}
           Menor == OpToRel(<, Nat)
<1>1. IsWellFoundedOn(Menor, Nat)
  BY NatLessThanWellFounded
<1>2. M \subseteq Nat
  OBVIOUS
<1>2b. M # {}
  <2>1. PICK z \in S : TRUE
    OBVIOUS
  <2>2. n - z \in M
    BY <2>1
  <2> QED BY <2>2
<1>3. \A x, y \in Nat : x < y => <<x, y>> \in Menor
  BY DEF OpToRel
<1> HIDE DEF M, Menor
<1>4. PICK m \in M : \A y \in M : ~(<<y, m>> \in Menor)
  BY <1>1, <1>2, <1>2b, WFMin
<1>5. \A y \in M : ~(y < m)
  BY <1>2, <1>3, <1>4
<1>6. PICK x \in S : m = n - x
  BY DEF M
<1>7. \A y \in S : x >= y
  <2> TAKE y \in S
  <2>1. ~(n - y < n - x)
    BY <1>5, <1>6 DEF M
  <2>2. x \in Nat /\ y \in Nat
    OBVIOUS
  <2> QED
    BY <2>1, <2>2
<1> QED
  BY <1>7 DEF Max

(* What Aplicada makes of a state.                                          *)
LEMMA VacioTipo ==
  TipoArnes(ArnesVacio) /\ ArnesVacio.estado = "IDLE" /\ ArnesVacio.tarea = Ninguno
BY DEF TipoArnes, ArnesVacio, Estados, DeHumano

LEMMA Ligada ==
  ASSUME NEW a, TipoArnes(a), a.ficha \in Fichas, NEW f
  PROVE  LET y == Aplicada(a, Transiciones[1], f) IN
         /\ TipoArnes(y) /\ y.estado = "NEW" /\ y.tarea = a.ficha.id /\ y.ficha = a.ficha
<1> DEFINE y == [ArnesVacio EXCEPT !.estado = "NEW", !.tarea = a.ficha.id, !.ficha = a.ficha]
<1>1. Aplicada(a, Transiciones[1], f) = y
  BY Filas DEF Aplicada
<1>2. y \in [estado : {"NEW"}, tarea : {a.ficha.id}, ficha : {a.ficha}, ultima : {Ninguno},
             fallo : {Ninguno}, acepta : {Ninguno}]
  BY DEF ArnesVacio
<1> HIDE DEF y
<1>3. a.ficha.id \in Numeros
  BY DEF Fichas
<1>4. TipoArnes(y)
  BY <1>2, <1>3 DEF TipoArnes, Estados, DeDeveloper
<1> QED BY <1>1, <1>2, <1>4

LEMMA Seguida ==
  ASSUME NEW a, TipoArnes(a), NEW t, Fila(t), t.de # "IDLE", ~Termina(t),
         NEW f \in Fallos \cup {Ninguno}
  PROVE  LET y == Aplicada(a, t, f) IN
         /\ TipoArnes(y) /\ y.estado = t.a /\ y.tarea = a.tarea /\ y.ficha = a.ficha
         /\ t.a = "BLOCKED_HUMAN" => y.ultima = t
         /\ t.rec = "failure_evidence" => y.fallo = f
<1> DEFINE u == IF t.a = "BLOCKED_HUMAN" THEN t ELSE Ninguno
           g == IF t.rec = "failure_evidence" THEN f
                ELSE IF Suelta(t, "failure_evidence") THEN Ninguno ELSE a.fallo
           h == IF Suelta(t, "acceptance") THEN Ninguno ELSE a.acepta
           y == [a EXCEPT !.estado = t.a, !.ultima = u, !.fallo = g, !.acepta = h]
<1>1. Aplicada(a, t, f) = y
  BY FilaPuerta DEF Aplicada
<1>2. t.a \in Estados
  BY FilaPuerta
<1>3. g \in Fallos \cup {Ninguno} /\ (t.rec = "failure_evidence" => g = f)
  BY DEF TipoArnes
<1>4. (h # Ninguno => h \in Aceptaciones)
  BY DEF TipoArnes
<1>5. t.a = "BLOCKED_HUMAN" => u = t
  OBVIOUS
<1> HIDE DEF u, g, h
<1>6. y \in [estado : {t.a}, tarea : {a.tarea}, ficha : {a.ficha}, ultima : {u},
             fallo : {g}, acepta : {h}]
  BY DEF TipoArnes
<1> HIDE DEF y
<1>7. a.tarea \in Numeros \cup {Ninguno} /\ (a.ficha # Ninguno => a.ficha \in Fichas)
  BY DEF TipoArnes
<1>8. TipoArnes(y)
  BY <1>2, <1>3, <1>4, <1>6, <1>7 DEF TipoArnes
<1> QED BY <1>1, <1>3, <1>5, <1>6, <1>8

(* A transition of a task keeps the state, the current task and the backlog  *)
(* in agreement.                                                            *)
LEMMA Terminada ==
  ASSUME NEW a, NEW L, NEW C, NEW G, TipoArnes(a), Sana(L), C \subseteq Numeros,
         Acuerdo(a, L, C, G), a.tarea # Ninguno
  PROVE  LET K == {i \in L : i.id # a.tarea} IN
         /\ Sana(K) /\ C \cup {a.tarea} \subseteq Numeros
         /\ Acuerdo(ArnesVacio, K, C \cup {a.tarea}, G)
<1> DEFINE K == {i \in L : i.id # a.tarea}
<1>1. a.tarea \in Numeros
  BY DEF TipoArnes
<1>2. Sana(K)
  BY DEF Sana
<1>3. IdsDe(K) \cap (C \cup {a.tarea}) = {}
  BY DEF IdsDe, Acuerdo
<1>4. IdsDe(L) \subseteq IdsDe(K) \cup {a.tarea}
  BY DEF IdsDe
<1>5. G \subseteq IdsDe(K) \cup (C \cup {a.tarea})
  BY <1>4 DEF Acuerdo
<1>6. \A i \in K : i.estado = "pending"
  <2>1. TAKE i \in K
  <2>2. i \in L /\ i.id # a.tarea
    OBVIOUS
  <2>3. i \notin {j \in L : j.estado = "active"}
    BY <2>2 DEF Acuerdo, Coincide
  <2>4. i.estado \in {"pending", "active"}
    BY <2>2 DEF Sana, Items
  <2> QED BY <2>2, <2>3, <2>4
<1>7. Coincide(ArnesVacio, K)
  BY <1>6 DEF Coincide, ArnesVacio
<1>8. Acuerdo(ArnesVacio, K, C \cup {a.tarea}, G)
  BY <1>3, <1>5, <1>7, VacioTipo DEF Acuerdo
<1> QED BY <1>1, <1>2, <1>8

LEMMA Continuada ==
  ASSUME NEW a, NEW L, NEW C, NEW G, TipoArnes(a), Acuerdo(a, L, C, G), a.estado # "IDLE",
         NEW t, Fila(t), t.de = a.estado, ~Termina(t), NEW f \in Fallos \cup {Ninguno},
         t.rec = "failure_evidence" => f \in Fallos
  PROVE  TipoArnes(Aplicada(a, t, f)) /\ Acuerdo(Aplicada(a, t, f), L, C, G)
<1> DEFINE y == Aplicada(a, t, f)
<1>1. /\ TipoArnes(y) /\ y.estado = t.a /\ y.tarea = a.tarea /\ y.ficha = a.ficha
      /\ t.a = "BLOCKED_HUMAN" => y.ultima = t
      /\ t.rec = "failure_evidence" => y.fallo = f
  BY Seguida
<1>2. t.a # "IDLE"
  BY FilaPuerta
<1> HIDE DEF y
<1>3. y.estado = "IDLE" <=> y.tarea = Ninguno
  BY <1>1, <1>2 DEF Acuerdo
<1>4. Coincide(y, L)
  BY <1>1 DEF Acuerdo, Coincide
<1>5. y.estado = "BLOCKED_HUMAN" =>
       Bloqueo(y.ultima) /\ (y.ultima.rec = "failure_evidence" => y.fallo \in Fallos)
  BY <1>1 DEF Bloqueo
<1>6. Acuerdo(y, L, C, G)
  BY <1>3, <1>4, <1>5 DEF Acuerdo
<1> QED BY <1>1, <1>6 DEF y

LEMMA Movida ==
  ASSUME TipoArnes(arnes), Sana(lista), cerradas \subseteq Numeros,
         NEW G, Acuerdo(arnes, lista, cerradas, G),
         NEW t, Fila(t), t.de = arnes.estado, t.de # "IDLE", PuedeCerrar(arnes, t),
         NEW f \in Fallos \cup {Ninguno}, t.rec = "failure_evidence" => f \in Fallos,
         Mover(t, f)
  PROVE  /\ TipoArnes(arnes') /\ Sana(lista') /\ cerradas' \subseteq Numeros
         /\ Acuerdo(arnes', lista', cerradas', G)
         /\ lista' \subseteq lista
         /\ lista' = lista => cerradas' = cerradas
<1>1. arnes' = Aplicada(arnes, t, f)
  BY DEF Mover
<1>2. CASE Termina(t)
  <2>1. arnes.tarea # Ninguno
    BY <1>2 DEF PuedeCerrar
  <2>2. /\ lista' = {i \in lista : i.id # arnes.tarea}
        /\ cerradas' = cerradas \cup {arnes.tarea}
    BY <1>2 DEF Mover
  <2>3. arnes' = ArnesVacio
    BY <1>1, <1>2 DEF Aplicada
  <2>4. lista' # lista
    BY <2>1, <2>2 DEF Acuerdo, Coincide
  <2> QED BY <2>1, <2>2, <2>3, <2>4, Terminada, VacioTipo
<1>3. CASE ~Termina(t)
  <2>1. lista' = lista /\ cerradas' = cerradas
    BY <1>3 DEF Mover
  <2>2. TipoArnes(Aplicada(arnes, t, f)) /\ Acuerdo(Aplicada(arnes, t, f), lista, cerradas, G)
    BY <1>3, Continuada
  <2> QED BY <1>1, <2>1, <2>2
<1> QED BY <1>2, <1>3

(* What a window has read, after a write of another command.                *)
LEMMA Envejece ==
  ASSUME NEW x, x # Ninguno, VentanaBien(x)
  PROVE  /\ VentanaBien(Envejecida(x))
         /\ /\ VentanaFresca(x, arnes, lista, cerradas)
            /\ lista' = lista => cerradas' = cerradas
            => VentanaFresca(Envejecida(x), arnes', lista', cerradas')
         /\ \A B, R : VentanaCotejada(x, B, R) => VentanaCotejada(Envejecida(x), B, R)
<1> DEFINE b == \/ x.viejo
                \/ x.c.cmd \in {"define", "activate"} /\ x.paso = "confirmar" /\ lista' # lista
                \/ x.c.cmd \in {"activate", "accept"} /\ arnes' # arnes
           y == [x EXCEPT !.viejo = b]
<1>1. Envejecida(x) = y
  BY DEF Envejecida, VentanaBien
<1>2. b \in BOOLEAN
  BY DEF VentanaBien
<1>3. b = FALSE => /\ ~x.viejo
                   /\ x.c.cmd \in {"define", "activate"} /\ x.paso = "confirmar" => lista' = lista
                   /\ x.c.cmd \in {"activate", "accept"} => arnes' = arnes
  OBVIOUS
<1> HIDE DEF b
<1>4. y \in [c : {x.c}, paso : {x.paso}, viejo : {b}, lista : {x.lista}, def : {x.def},
             arnes : {x.arnes}]
  BY DEF VentanaBien
<1> HIDE DEF y
<1>5. /\ y.c = x.c /\ y.paso = x.paso /\ y.lista = x.lista /\ y.def = x.def /\ y.arnes = x.arnes
      /\ y.viejo = b
  BY <1>4
<1>5a. y \in [c : {y.c}, paso : {"borrador", "archivos", "confirmar"}, viejo : BOOLEAN,
              lista : {y.lista}, def : {y.def}, arnes : {y.arnes}]
  <2>1. x.paso \in {"borrador", "archivos", "confirmar"}
    BY DEF VentanaBien
  <2> QED BY <1>2, <1>4, <1>5, <2>1
<1>6. VentanaBien(y)
  BY <1>5, <1>5a DEF VentanaBien
<1>7. ASSUME VentanaFresca(x, arnes, lista, cerradas), lista' = lista => cerradas' = cerradas
      PROVE  VentanaFresca(y, arnes', lista', cerradas')
  <2> SUFFICES ASSUME ~y.viejo
               PROVE  /\ y.c.cmd \in {"define", "activate"} /\ y.paso = "confirmar" => y.lista = lista'
                      /\ y.c.cmd = "define" /\ y.paso = "confirmar" => y.c.id \notin cerradas'
                      /\ y.c.cmd = "activate" => arnes'.estado = "IDLE"
                      /\ y.c.cmd = "accept" => y.arnes = arnes'
    BY DEF VentanaFresca
  <2>1. b = FALSE
    BY <1>2, <1>5
  <2>2. /\ x.c.cmd \in {"define", "activate"} /\ x.paso = "confirmar" => x.lista = lista
        /\ x.c.cmd = "define" /\ x.paso = "confirmar" => x.c.id \notin cerradas
        /\ x.c.cmd = "activate" => arnes.estado = "IDLE"
        /\ x.c.cmd = "accept" => x.arnes = arnes
    BY <2>1, <1>3, <1>7 DEF VentanaFresca
  <2>3. /\ x.c.cmd \in {"define", "activate"} /\ x.paso = "confirmar" =>
              lista' = lista /\ cerradas' = cerradas
        /\ x.c.cmd \in {"activate", "accept"} => arnes' = arnes
    BY <2>1, <1>3, <1>7
  <2> QED BY <1>5, <2>2, <2>3
<1>8. \A B, R : VentanaCotejada(x, B, R) => VentanaCotejada(y, B, R)
  BY <1>5 DEF VentanaCotejada
<1> QED BY <1>1, <1>6, <1>7, <1>8

LEMMA Enfria ==
  ASSUME OrqBien(orq), Enfriar
  PROVE  OrqBien(orq') /\ ~orq'.fresca
<1> DEFINE y == [orq EXCEPT !.fresca = FALSE]
<1>1. y \in [nodo : {orq.nodo}, aceptacion : BOOLEAN, carga : {orq.carga}, sugerido : {orq.sugerido},
             ordenes : {orq.ordenes}, fresca : {FALSE}]
  BY DEF OrqBien
<1>2. orq' = y
  BY DEF Enfriar
<1> HIDE DEF y
<1>3. OrqBien(y) /\ ~y.fresca
  BY <1>1 DEF OrqBien
<1> QED BY <1>2, <1>3

(* A write of an agent, or of the command of a window.                      *)
LEMMA Escritura ==
  ASSUME GInv, ~memoria.cruce, borrador' = borrador, Enfriar,
         TipoArnes(arnes'), Sana(lista'), cerradas' \subseteq Numeros, MemoriaBien(memoria'),
         memoria'.relevos = memoria.relevos, Cotejados(lista', memoria.relevos),
         ~memoria'.cruce => Acuerdo(arnes', lista', cerradas', memoria'.guardadas),
         lista' = lista => cerradas' = cerradas,
         ventana' = [w \in Ventanas |-> ventana'[w]],
         \A w \in Ventanas : ventana'[w] = Ninguno \/ ventana'[w] = Envejecida(ventana[w])
  PROVE  GInv'
<1>1. OrqBien(orq') /\ ~orq'.fresca
  BY Enfria DEF GInv, GTipos
<1>2. ventana' = [v \in Ventanas |-> ventana'[v]]
  OBVIOUS
<1>3. ASSUME NEW v \in Ventanas, ventana'[v] # Ninguno
      PROVE  ventana[v] # Ninguno /\ ventana'[v] = Envejecida(ventana[v])
  <2>1. ventana'[v] = Envejecida(ventana[v])
    BY <1>3
  <2>2. ventana[v] # Ninguno
    BY <2>1, <1>3 DEF Envejecida
  <2> QED BY <2>1, <2>2
<1>4. ASSUME NEW v \in Ventanas, ventana'[v] # Ninguno
      PROVE  /\ VentanaBien(ventana'[v])
             /\ VentanaCotejada(ventana'[v], borrador, memoria.relevos)
             /\ VentanaFresca(ventana'[v], arnes', lista', cerradas')
  <2>1. ventana[v] # Ninguno /\ ventana'[v] = Envejecida(ventana[v])
    BY <1>3, <1>4
  <2>2. VentanaBien(ventana[v])
    BY <2>1 DEF GInv, GTipos
  <2>3. VentanaCotejada(ventana[v], borrador, memoria.relevos)
    BY <2>1 DEF GInv, GCotejo
  <2>4. VentanaFresca(ventana[v], arnes, lista, cerradas)
    BY <2>1 DEF GInv, GAcuerdo
  <2>5. /\ VentanaBien(Envejecida(ventana[v]))
        /\ VentanaFresca(Envejecida(ventana[v]), arnes', lista', cerradas')
        /\ \A B, R : VentanaCotejada(ventana[v], B, R) => VentanaCotejada(Envejecida(ventana[v]), B, R)
    BY <2>1, <2>2, <2>4, Envejece
  <2> QED BY <2>1, <2>3, <2>5
<1>6. GTipos'
  <2>1. borrador' \in [Numeros -> Borradores \cup {Ninguno}]
    BY DEF GInv, GTipos
  <2>2. \A v \in Ventanas : ventana'[v] # Ninguno => VentanaBien(ventana'[v])
    BY <1>4
  <2> QED BY <1>1, <1>2, <2>1, <2>2 DEF GTipos
<1>7. GAcuerdo'
  <2>1. ~memoria'.cruce =>
          \A v \in Ventanas : ventana'[v] # Ninguno => VentanaFresca(ventana'[v], arnes', lista', cerradas')
    BY <1>4
  <2> QED BY <1>1, <2>1 DEF GAcuerdo
<1>8. GCotejo'
  <2>1. \A v \in Ventanas :
          ventana'[v] # Ninguno => VentanaCotejada(ventana'[v], borrador', memoria'.relevos)
    BY <1>4
  <2> QED BY <2>1 DEF GCotejo
<1> QED BY <1>6, <1>7, <1>8 DEF GInv

LEMMA Actual ==
  ASSUME GInv, ~memoria.cruce
  PROVE  /\ TipoArnes(arnes) /\ Sana(lista) /\ cerradas \subseteq Numeros /\ MemoriaBien(memoria)
         /\ Acuerdo(arnes, lista, cerradas, memoria.guardadas)
         /\ Cotejados(lista, memoria.relevos)
BY DEF GInv, GTipos, GAcuerdo, GCotejo

LEMMA PasoProgresar ==
  ASSUME GInv, ~memoria.cruce, NEW t \in Tabla, Progresar(t)
  PROVE  GInv'
<1>1. Fila(t) /\ t.de = arnes.estado /\ PuedeCerrar(arnes, t)
  BY Filas DEF Progresar, Permite
<1>2. t.de # "IDLE"
  <2>1. Rol["IDLE"] = "human"
    BY Roles DEF Estados, DeHumano
  <2> QED BY <2>1 DEF Progresar
<1>3. PICK f \in IF t.rec = "failure_evidence" THEN Fallos ELSE {Ninguno} : Mover(t, f)
  BY DEF Progresar
<1>4. f \in Fallos \cup {Ninguno} /\ (t.rec = "failure_evidence" => f \in Fallos)
  OBVIOUS
<1>5. /\ TipoArnes(arnes') /\ Sana(lista') /\ cerradas' \subseteq Numeros
      /\ Acuerdo(arnes', lista', cerradas', memoria.guardadas)
      /\ lista' \subseteq lista /\ (lista' = lista => cerradas' = cerradas)
  BY <1>1, <1>2, <1>3, <1>4, Actual, Movida
<1>6. borrador' = borrador /\ memoria' = memoria /\ Enfriar
  BY DEF Progresar
<1>7. /\ ventana' = [w \in Ventanas |-> ventana'[w]]
      /\ \A w \in Ventanas : ventana'[w] = Ninguno \/ ventana'[w] = Envejecida(ventana[w])
  BY DEF Progresar
<1>8. MemoriaBien(memoria') /\ memoria'.relevos = memoria.relevos
  BY <1>6, Actual
<1>9. Acuerdo(arnes', lista', cerradas', memoria'.guardadas)
  BY <1>5, <1>6
<1>10. Cotejados(lista', memoria.relevos)
  BY <1>5, Actual DEF Cotejados
<1> QED BY <1>5, <1>6, <1>7, <1>8, <1>9, <1>10, Escritura

LEMMA MemoriaTras ==
  ASSUME MemoriaBien(memoria), NEW S \in SUBSET Numeros, NEW b,
         memoria' = [memoria EXCEPT !.guardadas = @ \cup S, !.cruce = @ \/ b]
  PROVE  /\ MemoriaBien(memoria') /\ memoria'.guardadas = memoria.guardadas \cup S
         /\ memoria'.relevos = memoria.relevos
         /\ ~memoria'.cruce => ~b
<1> DEFINE c == memoria.cruce \/ b
           g == memoria.guardadas \cup S
           y == [memoria EXCEPT !.guardadas = g, !.cruce = c]
<1>1. c \in BOOLEAN /\ (c = FALSE => ~b)
  BY DEF MemoriaBien
<1>2. g \subseteq Numeros
  BY DEF MemoriaBien
<1>3. memoria' = y
  BY DEF MemoriaBien
<1> HIDE DEF c, g
<1>4. y \in [destino : BOOLEAN, borradores : Nat, defines : {memoria.defines}, guardadas : {g},
             relevos : {memoria.relevos}, cruce : {c}]
  BY DEF MemoriaBien
<1> HIDE DEF y
<1>5. MemoriaBien(y) /\ y.guardadas = g /\ y.cruce = c /\ y.relevos = memoria.relevos
  BY <1>1, <1>2, <1>4 DEF MemoriaBien
<1> QED BY <1>1, <1>3, <1>5 DEF g

LEMMA Definida ==
  ASSUME GInv, ~memoria.cruce, NEW x, VentanaBien(x), x.c.cmd = "define", x.paso = "confirmar",
         VentanaFresca(x, arnes, lista, cerradas), VentanaCotejada(x, borrador, memoria.relevos),
         Definir(x)
  PROVE  /\ TipoArnes(arnes') /\ Sana(lista') /\ cerradas' = cerradas /\ MemoriaBien(memoria')
         /\ memoria'.relevos = memoria.relevos /\ Cotejados(lista', memoria.relevos)
         /\ ~memoria'.cruce => Acuerdo(arnes', lista', cerradas', memoria'.guardadas)
<1> DEFINE n == [id |-> x.c.id, def |-> x.def, estado |-> "pending", sha |-> x.c.sha]
<1>1. /\ x.c.id \in Numeros /\ x.c.sha \in Nat \ {0} /\ x.def \in Definiciones
      /\ Sana(x.lista) /\ x.c.id \notin IdsDe(x.lista)
  BY DEF VentanaBien
<1>1a. Cotejados(x.lista, memoria.relevos) /\ Cotejado(x.c.sha, x.def.n, memoria.relevos)
  BY DEF VentanaCotejada
<1>2. lista' = x.lista \cup {n} /\ arnes' = arnes /\ cerradas' = cerradas
  BY DEF Definir
<1>3. /\ n \in Items /\ n.sha = x.c.sha /\ n.def = x.def /\ n.id = x.c.id /\ n.estado = "pending"
  BY <1>1 DEF Items
<1> HIDE DEF n
<1>4. \A i \in x.lista : i.id # n.id
  BY <1>1, <1>3 DEF IdsDe
<1>5. Sana(lista')
  BY <1>1, <1>2, <1>3, <1>4 DEF Sana
<1>5a. Cotejados(lista', memoria.relevos)
  BY <1>1a, <1>2, <1>3 DEF Cotejados
<1>6. memoria' = [memoria EXCEPT !.guardadas = @ \cup {x.c.id}, !.cruce = @ \/ x.viejo]
  BY DEF Definir
<1>7. /\ MemoriaBien(memoria') /\ memoria'.guardadas = memoria.guardadas \cup {x.c.id}
      /\ memoria'.relevos = memoria.relevos
      /\ ~memoria'.cruce => ~x.viejo
  <2>1. {x.c.id} \in SUBSET Numeros
    BY <1>1
  <2> QED BY <1>6, <2>1, Actual, MemoriaTras
<1>8. ASSUME ~memoria'.cruce
      PROVE  Acuerdo(arnes', lista', cerradas', memoria'.guardadas)
  <2>1. x.lista = lista /\ n.id \notin cerradas
    BY <1>3, <1>7, <1>8 DEF VentanaFresca
  <2>2. Acuerdo(arnes, lista, cerradas, memoria.guardadas)
    BY Actual
  <2>3. lista' = lista \cup {n} /\ n \notin lista
    BY <1>2, <1>4, <2>1
  <2>4. IdsDe(lista') = IdsDe(lista) \cup {n.id}
    BY <2>3 DEF IdsDe
  <2>5. Coincide(arnes, lista')
    <3>1. arnes.tarea # Ninguno => n.id # arnes.tarea
      BY <1>4, <2>1, <2>2 DEF Acuerdo, Coincide
    <3>2. {i \in lista' : i.estado = "active"} = {i \in lista : i.estado = "active"}
      BY <1>3, <2>3
    <3>3. arnes.tarea # Ninguno =>
            {i \in lista' : i.id = arnes.tarea /\ i.def = arnes.ficha.def}
              = {i \in lista : i.id = arnes.tarea /\ i.def = arnes.ficha.def}
      BY <2>3, <3>1
    <3> QED BY <1>3, <2>2, <2>3, <3>2, <3>3 DEF Acuerdo, Coincide
  <2>6. IdsDe(lista') \cap cerradas = {}
    BY <2>1, <2>2, <2>4 DEF Acuerdo
  <2>7. memoria'.guardadas \subseteq IdsDe(lista') \cup cerradas
    BY <1>3, <1>7, <2>2, <2>4 DEF Acuerdo
  <2>8. Acuerdo(arnes, lista', cerradas, memoria'.guardadas)
    BY <2>2, <2>5, <2>6, <2>7 DEF Acuerdo
  <2> QED BY <1>2, <2>8
<1> QED BY <1>2, <1>5, <1>5a, <1>7, <1>8, Actual

LEMMA Activada ==
  ASSUME GInv, ~memoria.cruce, NEW x, VentanaBien(x), x.c.cmd = "activate", x.paso = "confirmar",
         VentanaFresca(x, arnes, lista, cerradas), VentanaCotejada(x, borrador, memoria.relevos),
         Activar_(x)
  PROVE  /\ TipoArnes(arnes') /\ Sana(lista') /\ cerradas' = cerradas /\ MemoriaBien(memoria')
         /\ memoria'.relevos = memoria.relevos /\ Cotejados(lista', memoria.relevos)
         /\ ~memoria'.cruce => Acuerdo(arnes', lista', cerradas', memoria'.guardadas)
<1> DEFINE i == CHOOSE i \in x.lista : i.id = x.c.id
           ficha == [id |-> i.id, def |-> i.def]
           k == [i EXCEPT !.estado = "active"]
           b == [arnes EXCEPT !.ficha = ficha]
<1>1. Sana(x.lista) /\ \E j \in x.lista : j.id = x.c.id /\ j.def # Ninguno
  BY DEF VentanaBien
<1>2. i \in x.lista /\ i.id = x.c.id
  BY <1>1
<1>3. /\ arnes' = IF arnes.estado = "IDLE" /\ arnes.tarea = Ninguno
                  THEN Aplicada(b, Transiciones[1], Ninguno) ELSE b
      /\ lista' = (x.lista \ {i}) \cup {k}
      /\ memoria' = [memoria EXCEPT !.cruce = @ \/ x.viejo]
      /\ cerradas' = cerradas
  BY DEF Activar_
<1>4. ficha.id = i.id /\ ficha.def = i.def /\ ficha = [id |-> i.id, def |-> i.def]
  OBVIOUS
<1> HIDE DEF i
<1>5. i \in Items
  BY <1>1, <1>2 DEF Sana
<1>5a. i.def # Ninguno
  BY <1>1, <1>2 DEF Sana
<1>6. /\ k \in Items /\ k.id = i.id /\ k.def = i.def /\ k.sha = i.sha /\ k.estado = "active"
  BY <1>5 DEF Items
<1>7. i.id \in Numeros /\ ficha \in Fichas
  BY <1>5, <1>5a DEF Items, Fichas
<1> HIDE DEF ficha, k
<1>8. Sana(lista')
  BY <1>1, <1>2, <1>3, <1>5, <1>6 DEF Sana
<1>8a. Cotejados(lista', memoria.relevos)
  BY <1>2, <1>3, <1>6 DEF VentanaCotejada, Cotejados
<1>9. b \in [estado : {arnes.estado}, tarea : {arnes.tarea}, ficha : {ficha}, ultima : {arnes.ultima},
             fallo : {arnes.fallo}, acepta : {arnes.acepta}]
  BY Actual DEF TipoArnes
<1> HIDE DEF b
<1>10. TipoArnes(b) /\ b.ficha = ficha
  BY <1>7, <1>9, Actual DEF TipoArnes
<1>11. LET y == Aplicada(b, Transiciones[1], Ninguno) IN
       TipoArnes(y) /\ y.estado = "NEW" /\ y.tarea = i.id /\ y.ficha = ficha
  BY <1>4, <1>7, <1>10, Ligada
<1>12. TipoArnes(arnes')
  BY <1>3, <1>10, <1>11
<1>13. /\ MemoriaBien(memoria') /\ memoria'.guardadas = memoria.guardadas
       /\ memoria'.relevos = memoria.relevos
       /\ ~memoria'.cruce => ~x.viejo
  <2>1. /\ memoria' = [memoria EXCEPT !.guardadas = @ \cup {}, !.cruce = @ \/ x.viejo]
        /\ {} \in SUBSET Numeros
    BY <1>3, Actual DEF MemoriaBien
  <2> QED BY <2>1, Actual, MemoriaTras
<1>14. ASSUME ~memoria'.cruce
       PROVE  Acuerdo(arnes', lista', cerradas', memoria'.guardadas)
  <2>1. x.lista = lista /\ arnes.estado = "IDLE"
    BY <1>13, <1>14 DEF VentanaFresca
  <2>2. Acuerdo(arnes, lista, cerradas, memoria.guardadas)
    BY Actual
  <2>3. \A j \in lista : j.estado = "pending"
    BY <2>1, <2>2 DEF Acuerdo, Coincide
  <2>4. arnes'.estado = "NEW" /\ arnes'.tarea = i.id /\ arnes'.ficha = ficha
    BY <1>3, <1>11, <2>1, <2>2 DEF Acuerdo
  <2>5. lista' = (lista \ {i}) \cup {k} /\ i \in lista
    BY <1>2, <1>3, <2>1
  <2>7. IdsDe(lista') = IdsDe(lista)
    BY <1>6, <2>5 DEF IdsDe
  <2>8. {j \in lista' : j.estado = "active"} = {k}
    BY <1>6, <2>3, <2>5
  <2>9. {j \in lista' : j.id = i.id /\ j.def = ficha.def} = {k}
    <3>1. \A j \in lista : j.id = i.id => j = i
      BY <2>5, Actual DEF Sana
    <3> QED BY <1>4, <1>6, <2>5, <3>1
  <2>10. i.id # Ninguno /\ ficha # Ninguno
    BY <1>7, GatesAssumption DEF Fichas
  <2>11. Coincide(arnes', lista')
    BY <1>4, <1>6, <2>4, <2>5, <2>8, <2>9, <2>10 DEF Coincide
  <2>12. Acuerdo(arnes', lista', cerradas, memoria.guardadas)
    BY <2>2, <2>4, <2>7, <2>10, <2>11 DEF Acuerdo
  <2> QED BY <1>3, <1>13, <2>12
<1> QED BY <1>3, <1>8, <1>8a, <1>12, <1>13, <1>14, Actual

LEMMA Aceptada ==
  ASSUME GInv, ~memoria.cruce, NEW x, VentanaBien(x), x.c.cmd = "accept",
         VentanaFresca(x, arnes, lista, cerradas), Aceptar_(x)
  PROVE  /\ TipoArnes(arnes') /\ lista' = lista /\ cerradas' = cerradas /\ MemoriaBien(memoria')
         /\ memoria'.relevos = memoria.relevos
         /\ ~memoria'.cruce => Acuerdo(arnes', lista', cerradas', memoria'.guardadas)
<1>1. lista' = lista /\ cerradas' = cerradas
  BY DEF Aceptar_
<1>2. CASE arnes.tarea = Ninguno
  <2>1. arnes' = arnes /\ memoria' = memoria
    BY <1>2 DEF Aceptar_
  <2> QED BY <1>1, <2>1, Actual
<1>3. CASE arnes.tarea # Ninguno
  <2> DEFINE d == [dec |-> x.c.dec, crit |-> x.c.crit]
             y == [x.arnes EXCEPT !.acepta = d, !.ficha = arnes.ficha]
  <2>1. arnes' = y /\ memoria' = [memoria EXCEPT !.cruce = @ \/ x.viejo]
    BY <1>3 DEF Aceptar_
  <2>2. TipoArnes(x.arnes) /\ x.arnes.estado = "VERIFYING"
    BY DEF VentanaBien
  <2>3. d \in Aceptaciones
    BY DEF VentanaBien, Aceptaciones
  <2> HIDE DEF d
  <2>4. y \in [estado : {x.arnes.estado}, tarea : {x.arnes.tarea}, ficha : {arnes.ficha},
               ultima : {x.arnes.ultima}, fallo : {x.arnes.fallo}, acepta : {d}]
    BY <2>2 DEF TipoArnes
  <2> HIDE DEF y
  <2>5. TipoArnes(y)
    BY <2>2, <2>3, <2>4, Actual DEF TipoArnes
  <2>6. /\ MemoriaBien(memoria') /\ memoria'.guardadas = memoria.guardadas
        /\ memoria'.relevos = memoria.relevos
        /\ ~memoria'.cruce => ~x.viejo
    <3>1. /\ memoria' = [memoria EXCEPT !.guardadas = @ \cup {}, !.cruce = @ \/ x.viejo]
          /\ {} \in SUBSET Numeros
      BY <2>1, Actual DEF MemoriaBien
    <3> QED BY <3>1, Actual, MemoriaTras
  <2>7. ASSUME ~memoria'.cruce
        PROVE  Acuerdo(arnes', lista', cerradas', memoria'.guardadas)
    <3>1. x.arnes = arnes
      BY <2>6, <2>7 DEF VentanaFresca
    <3>2. Acuerdo(arnes, lista, cerradas, memoria.guardadas)
      BY Actual
    <3>3. y.estado = arnes.estado /\ y.tarea = arnes.tarea /\ y.ficha = arnes.ficha
      BY <2>4, <3>1
    <3>4. arnes.estado = "VERIFYING"
      BY <2>2, <3>1
    <3>5. Coincide(y, lista)
      BY <3>2, <3>3 DEF Acuerdo, Coincide
    <3>6. Acuerdo(y, lista, cerradas, memoria.guardadas)
      BY <3>2, <3>3, <3>4, <3>5 DEF Acuerdo
    <3> QED BY <1>1, <2>1, <2>6, <3>6
  <2> QED BY <1>1, <2>1, <2>5, <2>6, <2>7, Actual
<1> QED BY <1>2, <1>3

LEMMA Decidida ==
  ASSUME GInv, ~memoria.cruce, memoria' = memoria,
         NEW ev \in {"human_approve", "human_reject", "human_resolve"}, NEW s, Decision(ev, s)
  PROVE  /\ TipoArnes(arnes') /\ Sana(lista') /\ cerradas' \subseteq Numeros
         /\ Cotejados(lista', memoria.relevos)
         /\ Acuerdo(arnes', lista', cerradas', memoria.guardadas)
         /\ lista' = lista => cerradas' = cerradas
<1> DEFINE ts == {t \in Tabla : t.ev = ev /\ t.de = arnes.estado /\ s \in {Ninguno, t.a}
                                /\ PuedeCerrar(arnes, t)}
<1>1. CASE ts = {}
  <2>1. UNCHANGED <<arnes, lista, cerradas>>
    BY <1>1 DEF Decision
  <2> QED BY <2>1, Actual
<1>2. CASE ts # {}
  <2>1. PICK t \in ts : Mover(t, Ninguno)
    BY <1>2 DEF Decision
  <2>2. Fila(t) /\ t.ev = ev /\ t.de = arnes.estado /\ PuedeCerrar(arnes, t)
    BY <2>1, Filas
  <2>3. t.de # "IDLE" /\ t.rec # "failure_evidence"
    BY <2>2, FilaPuerta
  <2>4. /\ TipoArnes(arnes') /\ Sana(lista') /\ cerradas' \subseteq Numeros
        /\ Acuerdo(arnes', lista', cerradas', memoria.guardadas)
        /\ lista' \subseteq lista /\ (lista' = lista => cerradas' = cerradas)
    BY <2>1, <2>2, <2>3, Actual, Movida
  <2>5. Cotejados(lista', memoria.relevos)
    BY <2>4, Actual DEF Cotejados
  <2> QED BY <2>4, <2>5
<1> QED BY <1>1, <1>2

LEMMA PasoConfirmar ==
  ASSUME GInv, ~memoria.cruce, NEW v \in Ventanas, Confirmar(v)
  PROVE  GInv'
<1> DEFINE x == ventana[v]
<1>1. /\ VentanaBien(x) /\ VentanaFresca(x, arnes, lista, cerradas) /\ x.paso = "confirmar"
      /\ VentanaCotejada(x, borrador, memoria.relevos)
  BY DEF Confirmar, EnPaso, GInv, GTipos, GAcuerdo, GCotejo
<1>2. x.c.cmd \in {"define", "activate", "gate", "accept", "resolve"}
  BY <1>1 DEF VentanaBien
<1>3. /\ x.c.cmd = "define" => Definir(x)
      /\ x.c.cmd = "activate" => Activar_(x)
      /\ x.c.cmd = "accept" => Aceptar_(x)
      /\ x.c.cmd = "gate" =>
           /\ memoria' = memoria
           /\ Decision(IF x.c.dec = "approve" THEN "human_approve" ELSE "human_reject", Ninguno)
      /\ x.c.cmd = "resolve" => memoria' = memoria /\ Decision("human_resolve", x.c.a)
  BY DEF Confirmar
<1>4. /\ ventana' = [w \in Ventanas |-> ventana'[w]]
      /\ \A w \in Ventanas : ventana'[w] = Ninguno \/ ventana'[w] = Envejecida(ventana[w])
      /\ Enfriar /\ borrador' = borrador
  BY DEF Confirmar
<1> HIDE DEF x
<1>5. /\ TipoArnes(arnes') /\ Sana(lista') /\ cerradas' \subseteq Numeros /\ MemoriaBien(memoria')
      /\ memoria'.relevos = memoria.relevos /\ Cotejados(lista', memoria.relevos)
      /\ ~memoria'.cruce => Acuerdo(arnes', lista', cerradas', memoria'.guardadas)
      /\ lista' = lista => cerradas' = cerradas
  <2>1. CASE x.c.cmd = "define"
    BY <1>1, <1>3, <2>1, Definida, Actual
  <2>2. CASE x.c.cmd = "activate"
    BY <1>1, <1>3, <2>2, Activada, Actual
  <2>3. CASE x.c.cmd = "accept"
    BY <1>1, <1>3, <2>3, Aceptada, Actual
  <2>4. CASE x.c.cmd = "gate"
    <3> DEFINE ev == IF x.c.dec = "approve" THEN "human_approve" ELSE "human_reject"
    <3>1. ev \in {"human_approve", "human_reject", "human_resolve"}
      OBVIOUS
    <3>2. memoria' = memoria /\ Decision(ev, Ninguno)
      BY <1>3, <2>4
    <3> HIDE DEF ev
    <3> QED BY <3>1, <3>2, Decidida, Actual
  <2>5. CASE x.c.cmd = "resolve"
    <3>1. memoria' = memoria /\ Decision("human_resolve", x.c.a)
      BY <1>3, <2>5
    <3> QED BY <3>1, Decidida, Actual
  <2> QED BY <1>2, <2>1, <2>2, <2>3, <2>4, <2>5
<1> QED BY <1>4, <1>5, Escritura

(* A step of the orchestrator.                                              *)
LEMMA DelOrquestador ==
  ASSUME GInv, ~memoria.cruce, UNCHANGED <<arnes, lista, cerradas, ventana>>,
         borrador' \in [Numeros -> Borradores \cup {Ninguno}],
         MemoriaBien(memoria'), ~memoria'.cruce, memoria'.guardadas = memoria.guardadas,
         OrqBien(orq'), orq'.fresca => OrqFresco(orq', arnes, lista, cerradas, borrador'),
         GCotejo'
  PROVE  GInv'
<1>1. GTipos'
  BY DEF GInv, GTipos
<1>2. GAcuerdo'
  <2>1. orq'.fresca => OrqFresco(orq', arnes', lista', cerradas', borrador')
    OBVIOUS
  <2>2. Acuerdo(arnes', lista', cerradas', memoria'.guardadas)
    BY Actual
  <2>3. \A v \in Ventanas : ventana'[v] # Ninguno => VentanaFresca(ventana'[v], arnes', lista', cerradas')
    BY DEF GInv, GAcuerdo
  <2> QED BY <2>1, <2>2, <2>3 DEF GAcuerdo
<1> QED BY <1>1, <1>2 DEF GInv

(* A step that changes nothing but the orchestrator.                        *)
LEMMA SoloOrquestador ==
  ASSUME GInv, ~memoria.cruce, UNCHANGED <<arnes, lista, cerradas, borrador, ventana, memoria>>,
         OrqBien(orq'), orq'.fresca => OrqFresco(orq', arnes, lista, cerradas, borrador)
  PROVE  GInv'
<1>1. borrador \in [Numeros -> Borradores \cup {Ninguno}]
  BY DEF GInv, GTipos
<1>2. GCotejo'
  BY DEF GInv, GCotejo
<1> QED BY <1>1, <1>2, Actual, DelOrquestador

LEMMA AlReposo ==
  ASSUME GInv, ~memoria.cruce, orq' = Reposo,
         UNCHANGED <<arnes, lista, cerradas, borrador, ventana, memoria>>
  PROVE  GInv'
<1>1. OrqBien(Reposo) /\ ~Reposo.fresca
  BY DEF OrqBien, Reposo
<1> QED BY <1>1, SoloOrquestador

LEMMA Cargas ==
  /\ \A tipo : Carga(tipo).tipo = tipo
  /\ \A L : CargaIdle(L).tipo = "idle"
              /\ CargaIdle(L).ids = IdsDe({i \in L : i.def # Ninguno /\ i.estado = "pending"})
  /\ \A a : /\ CargaBloqueo(a).tipo = "blocked"
            /\ CargaBloqueo(a).clase = classify_block(a) /\ CargaBloqueo(a).sugerido = Sugerido(a)
  /\ \A a : CargaAceptacion(a).tipo = "acceptance" /\ CargaAceptacion(a).humanos = human_criteria(a)
BY DEF Carga, CargaIdle, CargaBloqueo, CargaAceptacion

LEMMA PasoDetenerse ==
  ASSUME GInv, ~memoria.cruce, Detenerse
  PROVE  GInv'
<1>1. UNCHANGED <<arnes, lista, cerradas, borrador, ventana, memoria>>
  BY DEF Detenerse
<1>2. CASE orq' = [Reposo EXCEPT !.nodo = "describir"]
  <2>1. OrqBien(orq') /\ ~orq'.fresca
    BY <1>2 DEF OrqBien, Reposo
  <2> QED BY <1>1, <2>1, SoloOrquestador
<1>3. CASE /\ acceptance_pending
           /\ orq' = [Reposo EXCEPT !.nodo = "describir", !.aceptacion = TRUE, !.fresca = TRUE]
  <2>1. /\ OrqBien(orq') /\ orq'.nodo = "describir" /\ orq'.aceptacion
        /\ orq'.carga = Carga("idle")
    BY <1>3 DEF OrqBien, Reposo
  <2>2. orq'.carga.tipo = "idle"
    BY <2>1, Cargas
  <2>3. Pendiente_(arnes)
    BY <1>3 DEF acceptance_pending, Pendiente_
  <2>4. OrqFresco(orq', arnes, lista, cerradas, borrador)
    BY <2>1, <2>2, <2>3 DEF OrqFresco
  <2> QED BY <1>1, <2>1, <2>4, SoloOrquestador
<1> QED BY <1>2, <1>3 DEF Detenerse

LEMMA PasoPreparar ==
  ASSUME GInv, ~memoria.cruce, Preparar
  PROVE  GInv'
<1>1. UNCHANGED <<arnes, lista, cerradas, borrador, ventana, memoria>> /\ orq.nodo = "describir"
  BY DEF Preparar, EnNodo
<1>2. OrqBien(orq) /\ (orq.fresca => OrqFresco(orq, arnes, lista, cerradas, borrador))
  BY DEF GInv, GTipos, GAcuerdo
<1>3. CASE orq' = Reposo
  BY <1>1, <1>3, AlReposo
<1>4. CASE orq.aceptacion
  <2> DEFINE y == [orq EXCEPT !.nodo = "preguntar", !.fresca = @ \/ ~orq.aceptacion,
                              !.carga = describe_acceptance]
  <2>1. orq' = y
    BY <1>4 DEF Preparar
  <2>2. y \in [nodo : {"preguntar"}, aceptacion : BOOLEAN, carga : {describe_acceptance},
               sugerido : {orq.sugerido}, ordenes : {orq.ordenes}, fresca : {orq.fresca}]
    BY <1>2, <1>4 DEF OrqBien
  <2>3. describe_acceptance = CargaAceptacion(arnes)
    BY DEF describe_acceptance, CargaAceptacion
  <2> HIDE DEF y
  <2>4. OrqBien(y) /\ y.nodo = "preguntar" /\ y.carga = CargaAceptacion(arnes) /\ y.fresca = orq.fresca
    BY <1>2, <2>2, <2>3 DEF OrqBien
  <2>5. ASSUME y.fresca
        PROVE  OrqFresco(y, arnes, lista, cerradas, borrador)
    <3>1. Pendiente_(arnes)
      BY <1>1, <1>2, <2>4, <2>5 DEF OrqFresco
    <3>2. y.carga.tipo = "acceptance"
      BY <2>4, Cargas
    <3> QED BY <2>4, <3>1, <3>2 DEF OrqFresco
  <2> QED BY <1>1, <2>1, <2>4, <2>5, SoloOrquestador
<1>5. CASE ~orq.aceptacion /\ Rol[arnes.estado] = "human"
  <2> DEFINE y == [orq EXCEPT !.nodo = "preguntar", !.fresca = @ \/ ~orq.aceptacion,
                              !.carga = describe]
  <2>1. orq' = y
    BY <1>5 DEF Preparar
  <2>2. y \in [nodo : {"preguntar"}, aceptacion : BOOLEAN, carga : {describe},
               sugerido : {orq.sugerido}, ordenes : {orq.ordenes}, fresca : {TRUE}]
    BY <1>2, <1>5 DEF OrqBien
  <2> HIDE DEF y
  <2>3. OrqBien(y) /\ y.nodo = "preguntar" /\ y.carga = describe
    BY <1>2, <2>2 DEF OrqBien
  <2>4. arnes.estado \in {"IDLE", "WAITING_HUMAN_APPROVAL", "BLOCKED_HUMAN"}
    <3>1. arnes.estado \in Estados
      BY Actual DEF TipoArnes
    <3> QED BY <1>5, <3>1, Roles DEF DeHumano
  <2>5. OrqFresco(y, arnes, lista, cerradas, borrador)
    <3>1. CASE arnes.estado = "IDLE"
      <4>1. y.carga = CargaIdle(lista)
        BY <2>3, <3>1 DEF describe, CargaIdle, Activables
      <4>2. y.carga.tipo = "idle"
        BY <4>1, Cargas
      <4> QED BY <2>3, <3>1, <4>1, <4>2 DEF OrqFresco
    <3>2. CASE arnes.estado = "WAITING_HUMAN_APPROVAL"
      <4>1. y.carga = Carga("approval")
        BY <2>3, <3>2 DEF describe
      <4>2. y.carga.tipo = "approval"
        BY <4>1, Cargas
      <4> QED BY <2>3, <3>2, <4>1, <4>2 DEF OrqFresco
    <3>3. CASE arnes.estado = "BLOCKED_HUMAN"
      <4>1. y.carga = CargaBloqueo(arnes)
        BY <2>3, <3>3 DEF describe, CargaBloqueo
      <4>2. /\ y.carga.tipo = "blocked"
            /\ y.carga.clase = classify_block(arnes) /\ y.carga.sugerido = Sugerido(arnes)
        BY <4>1, Cargas
      <4> QED BY <2>3, <3>3, <4>1, <4>2 DEF OrqFresco
    <3> QED BY <2>4, <3>1, <3>2, <3>3
  <2> QED BY <1>1, <2>1, <2>3, <2>5, SoloOrquestador
<1> QED BY <1>3, <1>4, <1>5 DEF Preparar

LEMMA Compuestas ==
  ASSUME TipoArnes(arnes), Sana(lista), OrqFresco(orq, arnes, lista, cerradas, borrador),
         orq.nodo = "preguntar",
         NEW os \in commands(orq.carga), NEW c \in os
  PROVE  Orden_(c, os, arnes, lista, cerradas, borrador)
<1>0. \/ arnes.estado = "IDLE" /\ orq.carga = CargaIdle(lista)
      \/ arnes.estado = "WAITING_HUMAN_APPROVAL" /\ orq.carga = Carga("approval")
      \/ arnes.estado = "BLOCKED_HUMAN" /\ orq.carga = CargaBloqueo(arnes)
      \/ Pendiente_(arnes) /\ orq.carga = CargaAceptacion(arnes)
  BY DEF OrqFresco
<1>1. CASE arnes.estado = "IDLE" /\ orq.carga = CargaIdle(lista)
  <2>1. orq.carga.tipo = "idle" /\ orq.carga.ids = IdsDe({i \in lista : i.def # Ninguno /\ i.estado = "pending"})
    BY <1>1, Cargas
  <2>2. commands(orq.carga) = {{[cmd |-> "activate", id |-> i]} : i \in orq.carga.ids}
    BY <2>1 DEF commands
  <2>3. PICK n \in orq.carga.ids : c = [cmd |-> "activate", id |-> n]
    BY <2>2
  <2>4. \E i \in lista : i.id = n /\ i.def # Ninguno
    BY <2>1, <2>3 DEF IdsDe
  <2> QED BY <1>1, <2>3, <2>4 DEF Orden_
<1>2. CASE arnes.estado = "WAITING_HUMAN_APPROVAL" /\ orq.carga = Carga("approval")
  <2>1. orq.carga.tipo = "approval"
    BY <1>2, Cargas
  <2>2. commands(orq.carga) = {{[cmd |-> "gate", dec |-> "approve"]},
                               {[cmd |-> "gate", dec |-> "reject"]}, {}}
    BY <2>1 DEF commands
  <2>3. c.cmd = "gate"
    BY <2>2
  <2> QED BY <1>2, <2>3 DEF Orden_
<1>3. CASE arnes.estado = "BLOCKED_HUMAN" /\ orq.carga = CargaBloqueo(arnes)
  <2>1. orq.carga.tipo = "blocked"
    BY <1>3, Cargas
  <2>2. commands(orq.carga) = {{[cmd |-> "resolve", a |-> s]} : s \in Destinos} \cup {{}}
    BY <2>1 DEF commands
  <2>3. c.cmd = "resolve"
    BY <2>2
  <2> QED BY <1>3, <2>3 DEF Orden_
<1>4. CASE Pendiente_(arnes) /\ orq.carga = CargaAceptacion(arnes)
  <2> DEFINE h == human_criteria(arnes)
  <2>1. orq.carga.tipo = "acceptance" /\ orq.carga.humanos = h
    BY <1>4, Cargas
  <2>2. arnes.estado = "VERIFYING" /\ h # {}
    BY <1>4 DEF Pendiente_
  <2> HIDE DEF h
  <2>3. commands(orq.carga) = {{[cmd |-> "accept", dec |-> IF no = {} THEN "accept" ELSE "reject",
                                 crit |-> IF no = {} THEN h ELSE no]} : no \in SUBSET h}
    BY <2>1, <2>2 DEF commands
  <2>4. PICK no \in SUBSET h : c = [cmd |-> "accept", dec |-> IF no = {} THEN "accept" ELSE "reject",
                                    crit |-> IF no = {} THEN h ELSE no]
    BY <2>3
  <2>5. /\ c.cmd = "accept" /\ c.crit # {} /\ c.crit \subseteq h
        /\ c.dec = "accept" => h \subseteq c.crit
    BY <2>2, <2>4
  <2> QED BY <2>2, <2>5 DEF Orden_, h
<1> QED BY <1>0, <1>1, <1>2, <1>3, <1>4

LEMMA PasoResponder ==
  ASSUME GInv, ~memoria.cruce, Responder
  PROVE  GInv'
<1>1. UNCHANGED <<arnes, lista, cerradas, borrador, ventana, memoria>> /\ orq.nodo = "preguntar"
  BY DEF Responder, EnNodo
<1>2. OrqBien(orq) /\ (orq.fresca => OrqFresco(orq, arnes, lista, cerradas, borrador))
  BY DEF GInv, GTipos, GAcuerdo
<1>3. CASE orq' = Reposo
  BY <1>1, <1>3, AlReposo
<1>4. CASE orq.carga.tipo = "idle" /\ Al("proponer")
  <2> DEFINE y == [orq EXCEPT !.nodo = "proponer"]
  <2>1. orq' = y
    BY <1>4 DEF Al
  <2>2. y \in [nodo : {"proponer"}, aceptacion : BOOLEAN, carga : {orq.carga},
               sugerido : {orq.sugerido}, ordenes : {orq.ordenes}, fresca : {orq.fresca}]
    BY <1>2 DEF OrqBien
  <2> HIDE DEF y
  <2>3. OrqBien(y) /\ y.nodo = "proponer" /\ y.carga = orq.carga /\ y.fresca = orq.fresca
    BY <1>2, <2>2 DEF OrqBien
  <2>4. ASSUME y.fresca
        PROVE  OrqFresco(y, arnes, lista, cerradas, borrador)
    <3>1. arnes.estado = "IDLE"
      BY <1>1, <1>2, <1>4, <2>3, <2>4, Cargas DEF OrqFresco
    <3> QED BY <1>4, <2>3, <3>1 DEF OrqFresco
  <2> QED BY <1>1, <2>1, <2>3, <2>4, SoloOrquestador
<1>5. ASSUME NEW os \in commands(orq.carga), orq' = [orq EXCEPT !.nodo = "mostrar", !.ordenes = os]
      PROVE  GInv'
  <2> DEFINE y == [orq EXCEPT !.nodo = "mostrar", !.ordenes = os]
  <2>1. orq' = y
    BY <1>5
  <2>2. y \in [nodo : {"mostrar"}, aceptacion : BOOLEAN, carga : {orq.carga},
               sugerido : {orq.sugerido}, ordenes : {os}, fresca : {orq.fresca}]
    BY <1>2 DEF OrqBien
  <2> HIDE DEF y
  <2>3. /\ OrqBien(y) /\ y.nodo = "mostrar" /\ y.carga = orq.carga /\ y.fresca = orq.fresca
        /\ y.ordenes = os
    BY <1>2, <2>2 DEF OrqBien
  <2>4. ASSUME y.fresca
        PROVE  OrqFresco(y, arnes, lista, cerradas, borrador)
    <3>1. OrqFresco(orq, arnes, lista, cerradas, borrador)
      BY <1>2, <2>3, <2>4
    <3>2. \A c \in os : Orden_(c, os, arnes, lista, cerradas, borrador)
      BY <1>1, <3>1, Actual, Compuestas
    <3>3. y.carga.tipo = "blocked" =>
            /\ arnes.estado = "BLOCKED_HUMAN"
            /\ y.carga.clase = classify_block(arnes) /\ y.carga.sugerido = Sugerido(arnes)
      BY <2>3, <3>1 DEF OrqFresco
    <3> QED BY <2>3, <3>2, <3>3 DEF OrqFresco
  <2> QED BY <1>1, <2>1, <2>3, <2>4, SoloOrquestador
<1> QED BY <1>3, <1>4, <1>5 DEF Responder

LEMMA IdLibre ==
  ASSUME GInv, ~memoria.cruce
  PROVE  next_task_id \notin IdsDe(lista) \cup cerradas
<1> DEFINE S == existing_ids \cup {0}
<1>1. IdsDe(lista) \subseteq Numeros
  BY Actual DEF IdsDe, Sana, Items
<1>2. existing_ids \subseteq Numeros
  BY <1>1, Actual DEF existing_ids, TipoArnes, Fichas
<1>3. S \subseteq 0 .. MaxId /\ S # {} /\ MaxId \in Nat
  BY <1>2, GatesAssumption DEF Numeros
<1>4. IdsDe(lista) \cup cerradas \subseteq S
  BY DEF existing_ids
<1> HIDE DEF S
<1>5. Max(S) \in S /\ \A z \in S : Max(S) >= z
  BY <1>3, MaxEs
<1>6. Max(S) + 1 \notin S
  <2> DEFINE m == Max(S)
  <2>1. m \in S /\ \A z \in S : m >= z
    BY <1>5
  <2> HIDE DEF m
  <2>2. m \in Int
    BY <1>3, <2>1
  <2>3. ~(m >= m + 1)
    BY <2>2
  <2>4. m + 1 \notin S
    BY <2>1, <2>3
  <2> QED BY <2>4 DEF m
<1>7. next_task_id = Max(S) + 1
  BY DEF next_task_id, S
<1> QED BY <1>4, <1>6, <1>7

LEMMA PasoProponer ==
  ASSUME GInv, ~memoria.cruce, Proponer
  PROVE  GInv'
<1>1. UNCHANGED <<arnes, lista, cerradas, borrador, ventana, memoria>> /\ orq.nodo = "proponer"
  BY DEF Proponer, EnNodo
<1>2. OrqBien(orq) /\ (orq.fresca => OrqFresco(orq, arnes, lista, cerradas, borrador))
  BY DEF GInv, GTipos, GAcuerdo
<1> DEFINE y == [orq EXCEPT !.nodo = "entrevista", !.sugerido = next_task_id]
<1>3. orq' = y
  BY DEF Proponer
<1>4. y \in [nodo : {"entrevista"}, aceptacion : BOOLEAN, carga : {orq.carga},
             sugerido : {next_task_id}, ordenes : {orq.ordenes}, fresca : {orq.fresca}]
  BY <1>2 DEF OrqBien
<1> HIDE DEF y
<1>5. /\ OrqBien(y) /\ y.nodo = "entrevista" /\ y.carga = orq.carga /\ y.fresca = orq.fresca
      /\ y.sugerido = next_task_id
  BY <1>2, <1>4 DEF OrqBien
<1>6. ASSUME y.fresca
      PROVE  OrqFresco(y, arnes, lista, cerradas, borrador)
  <2>1. OrqFresco(orq, arnes, lista, cerradas, borrador)
    BY <1>2, <1>5, <1>6
  <2> QED BY <1>1, <1>5, <2>1, IdLibre DEF OrqFresco
<1> QED BY <1>1, <1>3, <1>5, <1>6, SoloOrquestador

(* A draft is written and its commands are shown.                           *)
LEMMA Escrito ==
  ASSUME GInv, ~memoria.cruce, orq.nodo = "entrevista",
         NEW id \in Numeros, id \notin existing_ids, NEW d \in Entrevistas,
         NEW n, n = memoria.borradores + 1,
         UNCHANGED <<arnes, lista, cerradas, ventana>>,
         borrador' = [borrador EXCEPT ![id] =
           [sha |-> n, def |-> [n |-> n, humanos |-> d.humanos, despliega |-> d.despliega]]],
         orq' = [orq EXCEPT !.nodo = "mostrar", !.carga = Carga("intake_done"),
                            !.ordenes = {[cmd |-> "define", id |-> id, sha |-> n],
                                         [cmd |-> "activate", id |-> id]}],
         memoria' = [memoria EXCEPT !.borradores = n,
                       !.defines = @ \cup {[cmd |-> "define", id |-> id, sha |-> n]},
                       !.relevos = @ \cup Relevados(id, n)]
  PROVE  GInv'
<1> DEFINE b == [sha |-> n, def |-> [n |-> n, humanos |-> d.humanos, despliega |-> d.despliega]]
           c == [cmd |-> "define", id |-> id, sha |-> n]
           e == [cmd |-> "activate", id |-> id]
           y == [orq EXCEPT !.nodo = "mostrar", !.carga = Carga("intake_done"), !.ordenes = {c, e}]
           R == memoria.relevos \cup Relevados(id, n)
           m == [memoria EXCEPT !.borradores = n, !.defines = @ \cup {c}, !.relevos = R]
<1>1. OrqBien(orq) /\ (orq.fresca => OrqFresco(orq, arnes, lista, cerradas, borrador))
  BY DEF GInv, GTipos, GAcuerdo
<1>2. n \in Nat \ {0}
  BY Actual DEF MemoriaBien
<1>3. d.humanos \in SUBSET Criterios /\ d.despliega \in BOOLEAN
  <2>1. CASE memoria.destino
    BY <2>1, GatesAssumption DEF Entrevistas
  <2>2. CASE ~memoria.destino
    BY <2>2 DEF Entrevistas
  <2> QED BY <2>1, <2>2
<1>4. b \in Borradores
  BY <1>2, <1>3 DEF Borradores, Definiciones
<1>5. b.sha = n /\ b # Ninguno
  BY <1>4, GatesAssumption DEF Borradores
<1>6. borrador' = [borrador EXCEPT ![id] = b] /\ orq' = y /\ memoria' = m
  OBVIOUS
<1>6a. /\ memoria.relevos \subseteq R
       /\ \A v \in ConHuella(id) : <<ventana[v].c.sha, n>> \in R
  BY DEF Relevados
<1>7. c \in Defines /\ c.cmd = "define" /\ c.id = id /\ c.sha = n
  BY <1>2 DEF Defines
<1>8. e.cmd = "activate" /\ e.id = id
  OBVIOUS
<1> HIDE DEF b, c, e, R
<1>9. borrador \in [Numeros -> Borradores \cup {Ninguno}]
  BY DEF GInv, GTipos
<1>10. /\ borrador' \in [Numeros -> Borradores \cup {Ninguno}] /\ borrador'[id] = b
       /\ \A k \in Numeros : k # id => borrador'[k] = borrador[k]
  BY <1>4, <1>6, <1>9
<1>11. m \in [destino : BOOLEAN, borradores : {n}, defines : {memoria.defines \cup {c}},
              guardadas : {memoria.guardadas}, relevos : {R}, cruce : {memoria.cruce}]
  BY Actual DEF MemoriaBien
<1>12. y \in [nodo : {"mostrar"}, aceptacion : BOOLEAN, carga : {Carga("intake_done")},
              sugerido : {orq.sugerido}, ordenes : {{c, e}}, fresca : {orq.fresca}]
  BY <1>1 DEF OrqBien
<1> HIDE DEF m, y
<1>13. /\ MemoriaBien(m) /\ m.guardadas = memoria.guardadas /\ m.cruce = memoria.cruce
       /\ m.relevos = R
  BY <1>2, <1>7, <1>11, Actual DEF MemoriaBien
<1>14. /\ OrqBien(y) /\ y.nodo = "mostrar" /\ y.fresca = orq.fresca /\ y.ordenes = {c, e}
       /\ y.carga = Carga("intake_done")
  BY <1>1, <1>12 DEF OrqBien
<1>15. ASSUME y.fresca
       PROVE  OrqFresco(y, arnes, lista, cerradas, borrador')
  <2>1. arnes.estado = "IDLE"
    BY <1>1, <1>14, <1>15 DEF OrqFresco
  <2>2. id \notin IdsDe(lista) \cup cerradas
    BY DEF existing_ids
  <2>3. Orden_(c, {c, e}, arnes, lista, cerradas, borrador')
    BY <1>2, <1>5, <1>7, <1>10, <2>1, <2>2 DEF Orden_
  <2>4. Orden_(e, {c, e}, arnes, lista, cerradas, borrador')
    BY <1>7, <1>8 DEF Orden_
  <2>5. y.carga.tipo = "intake_done"
    BY <1>14, Cargas
  <2> QED BY <1>14, <2>3, <2>4, <2>5 DEF OrqFresco
<1>16. ASSUME NEW v \in Ventanas, ventana[v] # Ninguno
       PROVE  VentanaCotejada(ventana[v], borrador', R)
  <2> DEFINE x == ventana[v]
  <2>1. VentanaBien(x) /\ VentanaCotejada(x, borrador, memoria.relevos)
    BY <1>16 DEF GInv, GTipos, GCotejo
  <2>2. x.paso = "borrador" /\ x.c.id = id => <<x.c.sha, n>> \in R
    BY <1>6a, <1>16 DEF ConHuella
  <2> HIDE DEF x
  <2>3. Cotejados(x.lista, R)
    BY <1>6a, <2>1 DEF VentanaCotejada, Cotejados, Cotejado
  <2>4. ASSUME x.c.cmd = "define", x.paso = "borrador"
        PROVE  borrador'[x.c.id] # Ninguno /\ Cotejado(x.c.sha, borrador'[x.c.id].sha, R)
    <3>1. CASE x.c.id = id
      BY <1>5, <1>10, <2>2, <2>4, <3>1 DEF Cotejado
    <3>2. CASE x.c.id # id
      <4>1. x.c.id \in Numeros
        BY <2>1, <2>4 DEF VentanaBien
      <4>2. borrador'[x.c.id] = borrador[x.c.id]
        BY <1>10, <3>2, <4>1
      <4> QED BY <1>6a, <2>1, <2>4, <4>2 DEF VentanaCotejada, Cotejado
    <3> QED BY <3>1, <3>2
  <2>5. x.c.cmd = "define" /\ x.paso # "borrador" => Cotejado(x.c.sha, x.def.n, R)
    BY <1>6a, <2>1 DEF VentanaCotejada, Cotejado
  <2>6. VentanaCotejada(x, borrador', R)
    BY <2>3, <2>4, <2>5 DEF VentanaCotejada
  <2> QED BY <2>6 DEF x
<1>17. Cotejados(lista, R)
  BY <1>6a, Actual DEF Cotejados, Cotejado
<1>18. GCotejo'
  <2>1. memoria'.relevos = R /\ lista' = lista /\ ventana' = ventana
    BY <1>6, <1>13
  <2> QED BY <2>1, <1>16, <1>17 DEF GCotejo
<1> QED BY <1>6, <1>10, <1>13, <1>14, <1>15, <1>18, DelOrquestador

LEMMA PasoEntrevistar ==
  ASSUME GInv, ~memoria.cruce, Entrevistar
  PROVE  GInv'
<1>1. UNCHANGED <<arnes, lista, cerradas, ventana>> /\ orq.nodo = "entrevista"
  BY DEF Entrevistar, EnNodo
<1>2. OrqBien(orq) /\ (orq.fresca => OrqFresco(orq, arnes, lista, cerradas, borrador))
  BY DEF GInv, GTipos, GAcuerdo
<1>3. CASE orq' = Reposo /\ UNCHANGED <<borrador, memoria>>
  BY <1>1, <1>3, AlReposo
<1>4. ASSUME orq' = [orq EXCEPT !.nodo = "mostrar", !.ordenes = {}], UNCHANGED <<borrador, memoria>>
      PROVE  GInv'
  <2> DEFINE y == [orq EXCEPT !.nodo = "mostrar", !.ordenes = {}]
  <2>1. y \in [nodo : {"mostrar"}, aceptacion : BOOLEAN, carga : {orq.carga},
               sugerido : {orq.sugerido}, ordenes : {{}}, fresca : {orq.fresca}]
    BY <1>2 DEF OrqBien
  <2>2. orq' = y
    BY <1>4
  <2> HIDE DEF y
  <2>3. OrqBien(y) /\ y.nodo = "mostrar" /\ y.carga = orq.carga /\ y.fresca = orq.fresca /\ y.ordenes = {}
    BY <1>2, <2>1 DEF OrqBien
  <2>4. ASSUME y.fresca
        PROVE  OrqFresco(y, arnes, lista, cerradas, borrador)
    BY <1>2, <2>3, <2>4 DEF OrqFresco
  <2> QED BY <1>1, <1>4, <2>2, <2>3, <2>4, SoloOrquestador
<1>5. CASE ~(orq' = Reposo /\ UNCHANGED <<borrador, memoria>>)
  <2>1. PICK id \in Numeros :
          IF id \in existing_ids
          THEN /\ orq' = [orq EXCEPT !.nodo = "mostrar", !.ordenes = {}]
               /\ UNCHANGED <<borrador, memoria>>
          ELSE \E d \in Entrevistas :
            LET n == memoria.borradores + 1 IN
            /\ n <= MaxBorradores[memoria.destino]
            /\ borrador' = [borrador EXCEPT ![id] =
                 [sha |-> n, def |-> [n |-> n, humanos |-> d.humanos, despliega |-> d.despliega]]]
            /\ orq' = [orq EXCEPT !.nodo = "mostrar", !.carga = Carga("intake_done"),
                                  !.ordenes = {[cmd |-> "define", id |-> id, sha |-> n],
                                               [cmd |-> "activate", id |-> id]}]
            /\ memoria' = [memoria EXCEPT !.borradores = n,
                             !.defines = @ \cup {[cmd |-> "define", id |-> id, sha |-> n]},
                             !.relevos = @ \cup Relevados(id, n)]
    BY <1>5 DEF Entrevistar
  <2>2. CASE id \in existing_ids
    BY <1>4, <2>1, <2>2
  <2>3. CASE id \notin existing_ids
    <3>1. PICK d \in Entrevistas :
            LET n == memoria.borradores + 1 IN
            /\ borrador' = [borrador EXCEPT ![id] =
                 [sha |-> n, def |-> [n |-> n, humanos |-> d.humanos, despliega |-> d.despliega]]]
            /\ orq' = [orq EXCEPT !.nodo = "mostrar", !.carga = Carga("intake_done"),
                                  !.ordenes = {[cmd |-> "define", id |-> id, sha |-> n],
                                               [cmd |-> "activate", id |-> id]}]
            /\ memoria' = [memoria EXCEPT !.borradores = n,
                             !.defines = @ \cup {[cmd |-> "define", id |-> id, sha |-> n]},
                             !.relevos = @ \cup Relevados(id, n)]
      BY <2>1, <2>3
    <3> DEFINE n == memoria.borradores + 1
    <3>2. /\ borrador' = [borrador EXCEPT ![id] =
               [sha |-> n, def |-> [n |-> n, humanos |-> d.humanos, despliega |-> d.despliega]]]
          /\ orq' = [orq EXCEPT !.nodo = "mostrar", !.carga = Carga("intake_done"),
                                !.ordenes = {[cmd |-> "define", id |-> id, sha |-> n],
                                             [cmd |-> "activate", id |-> id]}]
          /\ memoria' = [memoria EXCEPT !.borradores = n,
                           !.defines = @ \cup {[cmd |-> "define", id |-> id, sha |-> n]},
                           !.relevos = @ \cup Relevados(id, n)]
      BY <3>1
    <3>3. n = memoria.borradores + 1
      OBVIOUS
    <3> HIDE DEF n
    <3> QED BY <1>1, <2>3, <3>2, <3>3, Escrito
  <2> QED BY <2>2, <2>3
<1> QED BY <1>3, <1>5

LEMMA PasoReanudar ==
  ASSUME GInv, ~memoria.cruce, Reanudar
  PROVE  GInv'
BY AlReposo DEF Reanudar

(* A step of one window that reads, or that ends.                           *)
LEMMA SoloVentana ==
  ASSUME GInv, ~memoria.cruce, UNCHANGED <<arnes, lista, cerradas, borrador, orq, memoria>>,
         NEW v \in Ventanas, NEW x, ventana' = [ventana EXCEPT ![v] = x],
         x # Ninguno => /\ VentanaBien(x) /\ VentanaFresca(x, arnes, lista, cerradas)
                        /\ VentanaCotejada(x, borrador, memoria.relevos)
  PROVE  GInv'
<1>1. ventana = [w \in Ventanas |-> ventana[w]]
  BY DEF GInv, GTipos
<1>2. /\ ventana' = [w \in Ventanas |-> ventana'[w]]
      /\ \A w \in Ventanas : ventana'[w] = IF w = v THEN x ELSE ventana[w]
  BY <1>1
<1>3. \A w \in Ventanas : ventana'[w] # Ninguno => VentanaBien(ventana'[w])
  BY <1>2 DEF GInv, GTipos
<1>4. \A w \in Ventanas : ventana'[w] # Ninguno => VentanaFresca(ventana'[w], arnes, lista, cerradas)
  BY <1>2 DEF GInv, GAcuerdo
<1>5. \A w \in Ventanas :
        ventana'[w] # Ninguno => VentanaCotejada(ventana'[w], borrador, memoria.relevos)
  BY <1>2 DEF GInv, GCotejo
<1>6. GTipos'
  BY <1>2, <1>3 DEF GInv, GTipos
<1>7. GAcuerdo'
  BY <1>4 DEF GInv, GAcuerdo
<1>8. GCotejo'
  BY <1>5 DEF GInv, GCotejo
<1> QED BY <1>6, <1>7, <1>8 DEF GInv

LEMMA PasoTeclear ==
  ASSUME GInv, ~memoria.cruce, NEW v \in Ventanas, Teclear(v)
  PROVE  GInv'
<1>1. UNCHANGED <<arnes, lista, cerradas, borrador, orq, memoria>>
  BY DEF Teclear
<1>2. PICK c \in Ordenes :
        /\ EstadoRequerido(c) /\ (c.cmd = "define" => MismoBorrador(c))
        /\ ventana' = [ventana EXCEPT ![v] =
             [c |-> c, viejo |-> FALSE, lista |-> {}, def |-> Ninguno,
              paso |-> CASE c.cmd = "define" -> "borrador"
                         [] c.cmd \in {"activate", "accept"} -> "archivos"
                         [] OTHER -> "confirmar",
              arnes |-> IF c.cmd = "accept" THEN arnes ELSE Ninguno]]
  BY DEF Teclear
<1> DEFINE p == CASE c.cmd = "define" -> "borrador"
                  [] c.cmd \in {"activate", "accept"} -> "archivos"
                  [] OTHER -> "confirmar"
           a == IF c.cmd = "accept" THEN arnes ELSE Ninguno
           x == [c |-> c, viejo |-> FALSE, lista |-> {}, def |-> Ninguno, paso |-> p, arnes |-> a]
<1>3. ventana' = [ventana EXCEPT ![v] = x]
  BY <1>2
<1>4. /\ p \in {"borrador", "archivos", "confirmar"}
      /\ p = "borrador" <=> c.cmd = "define"
      /\ p = "confirmar" => c.cmd \notin {"define", "activate"}
      /\ c.cmd = "accept" => a = arnes
  OBVIOUS
<1> HIDE DEF p, a
<1>5. /\ x.c = c /\ x.viejo = FALSE /\ x.lista = {} /\ x.paso = p /\ x.arnes = a
      /\ x \in [c : {x.c}, paso : {"borrador", "archivos", "confirmar"}, viejo : BOOLEAN,
               lista : {x.lista}, def : {x.def}, arnes : {x.arnes}]
  BY <1>4
<1> HIDE DEF x
<1>6. /\ c.cmd \in {"define", "activate", "gate", "accept", "resolve"}
      /\ c.cmd = "define" => c \in memoria.defines
      /\ c.cmd = "accept" => c.dec \in {"accept", "reject"} /\ c.crit \subseteq Criterios
  BY Actual DEF Ordenes, MemoriaBien, Defines
<1>7. c.cmd = "define" => c.id \in Numeros /\ c.sha \in Nat \ {0}
  BY <1>6, Actual DEF MemoriaBien, Defines
<1>8. /\ c.cmd = "activate" => arnes.estado = "IDLE"
      /\ c.cmd = "accept" => arnes.estado = "VERIFYING"
  BY <1>2 DEF EstadoRequerido
<1>9. VentanaBien(x)
  <2>1. Sana(x.lista)
    BY <1>5 DEF Sana
  <2> QED BY <1>4, <1>5, <1>6, <1>7, <1>8, <2>1, Actual DEF VentanaBien
<1>10. VentanaFresca(x, arnes, lista, cerradas)
  BY <1>4, <1>5, <1>8 DEF VentanaFresca
<1>11. VentanaCotejada(x, borrador, memoria.relevos)
  <2>1. c.cmd = "define" => borrador[c.id] # Ninguno /\ borrador[c.id].sha = c.sha
    BY <1>2 DEF MismoBorrador
  <2>2. Cotejados(x.lista, memoria.relevos)
    BY <1>5 DEF Cotejados
  <2> QED BY <1>4, <1>5, <2>1, <2>2 DEF VentanaCotejada, Cotejado
<1> QED BY <1>1, <1>3, <1>9, <1>10, <1>11, SoloVentana

LEMMA PasoLeerBorrador ==
  ASSUME GInv, ~memoria.cruce, NEW v \in Ventanas, LeerBorrador(v)
  PROVE  GInv'
<1> DEFINE x == ventana[v]
           d == borrador[x.c.id].def
           y == [x EXCEPT !.paso = "archivos", !.def = d]
<1>1. /\ UNCHANGED <<arnes, lista, cerradas, borrador, orq, memoria>>
      /\ x # Ninguno /\ x.paso = "borrador"
  BY DEF LeerBorrador, EnPaso
<1>2. /\ VentanaBien(x) /\ VentanaFresca(x, arnes, lista, cerradas)
      /\ VentanaCotejada(x, borrador, memoria.relevos)
  BY <1>1 DEF GInv, GTipos, GAcuerdo, GCotejo
<1>3. ventana' = [ventana EXCEPT ![v] = y]
  <2>1. ventana = [w \in Ventanas |-> ventana[w]]
    BY DEF GInv, GTipos
  <2>2. ventana' = [ventana EXCEPT ![v].paso = "archivos", ![v].def = borrador[ventana[v].c.id].def]
    BY DEF LeerBorrador
  <2> QED BY <2>1, <2>2
<1> HIDE DEF x
<1>4. x.c.cmd = "define" /\ x.c.id \in Numeros
  BY <1>1, <1>2 DEF VentanaBien
<1>5. borrador[x.c.id] # Ninguno /\ Cotejado(x.c.sha, borrador[x.c.id].sha, memoria.relevos)
  BY <1>1, <1>2, <1>4 DEF VentanaCotejada
<1>6. borrador[x.c.id] \in Borradores
  BY <1>4, <1>5 DEF GInv, GTipos
<1>7. d \in Definiciones /\ Cotejado(x.c.sha, d.n, memoria.relevos)
  BY <1>5, <1>6 DEF Borradores
<1> HIDE DEF d
<1>8. y \in [c : {x.c}, paso : {"archivos"}, viejo : {x.viejo}, lista : {x.lista}, def : {d},
             arnes : {x.arnes}]
  BY <1>2 DEF VentanaBien
<1> HIDE DEF y
<1>9. /\ y.c = x.c /\ y.paso = "archivos" /\ y.viejo = x.viejo /\ y.lista = x.lista /\ y.def = d
      /\ y.arnes = x.arnes
      /\ y \in [c : {y.c}, paso : {"borrador", "archivos", "confirmar"}, viejo : {x.viejo},
               lista : {y.lista}, def : {y.def}, arnes : {y.arnes}]
  BY <1>8
<1>10. VentanaBien(y)
  BY <1>2, <1>4, <1>7, <1>9 DEF VentanaBien
<1>11. VentanaFresca(y, arnes, lista, cerradas)
  BY <1>4, <1>9 DEF VentanaFresca
<1>12. VentanaCotejada(y, borrador, memoria.relevos)
  BY <1>2, <1>7, <1>9 DEF VentanaCotejada
<1> QED BY <1>1, <1>3, <1>10, <1>11, <1>12, SoloVentana

LEMMA PasoLeerArchivos ==
  ASSUME GInv, ~memoria.cruce, NEW v \in Ventanas, LeerArchivos(v)
  PROVE  GInv'
<1> DEFINE x == ventana[v]
           l == IF x.c.cmd = "accept" THEN {} ELSE lista
           y == [x EXCEPT !.paso = "confirmar", !.lista = l]
<1>1. /\ UNCHANGED <<arnes, lista, cerradas, borrador, orq, memoria>>
      /\ x # Ninguno /\ x.paso = "archivos"
  BY DEF LeerArchivos, EnPaso
<1>2. /\ VentanaBien(x) /\ VentanaFresca(x, arnes, lista, cerradas)
      /\ VentanaCotejada(x, borrador, memoria.relevos)
  BY <1>1 DEF GInv, GTipos, GAcuerdo, GCotejo
<1>3. CASE ~ArchivosAdmiten(x.c)
  <2>1. ventana' = [ventana EXCEPT ![v] = Ninguno]
    BY <1>3 DEF LeerArchivos
  <2> QED BY <1>1, <2>1, SoloVentana
<1>4. CASE ArchivosAdmiten(x.c)
  <2>1. ventana' = [ventana EXCEPT ![v] = y]
    <3>1. ventana = [w \in Ventanas |-> ventana[w]]
      BY DEF GInv, GTipos
    <3>2. ventana' = [ventana EXCEPT ![v].paso = "confirmar",
                        ![v].lista = IF ventana[v].c.cmd = "accept" THEN {} ELSE lista]
      BY <1>4 DEF LeerArchivos
    <3> QED BY <3>1, <3>2
  <2> HIDE DEF x
  <2>2. /\ Sana(l) /\ Cotejados(l, memoria.relevos)
        /\ x.c.cmd \in {"define", "activate"} => l = lista
    BY Actual DEF Sana, Cotejados
  <2> HIDE DEF l
  <2>3. y \in [c : {x.c}, paso : {"confirmar"}, viejo : {x.viejo}, lista : {l}, def : {x.def},
               arnes : {x.arnes}]
    BY <1>2 DEF VentanaBien
  <2> HIDE DEF y
  <2>4. /\ y.c = x.c /\ y.paso = "confirmar" /\ y.viejo = x.viejo /\ y.lista = l /\ y.def = x.def
        /\ y.arnes = x.arnes
        /\ y \in [c : {y.c}, paso : {"borrador", "archivos", "confirmar"}, viejo : {x.viejo},
                 lista : {y.lista}, def : {y.def}, arnes : {y.arnes}]
    BY <2>3
  <2>5. /\ x.c.cmd = "define" => x.c.id \notin IdsDe(lista) /\ x.c.id \notin cerradas
        /\ x.c.cmd = "activate" => \E i \in lista : i.id = x.c.id /\ i.def # Ninguno
    BY <1>4 DEF ArchivosAdmiten
  <2>6. VentanaBien(y)
    BY <1>1, <1>2, <2>2, <2>4, <2>5 DEF VentanaBien
  <2>7. VentanaFresca(y, arnes, lista, cerradas)
    BY <1>2, <2>2, <2>4, <2>5 DEF VentanaFresca
  <2>8. VentanaCotejada(y, borrador, memoria.relevos)
    BY <1>1, <1>2, <2>2, <2>4 DEF VentanaCotejada
  <2> QED BY <1>1, <2>1, <2>6, <2>7, <2>8, SoloVentana
<1> QED BY <1>3, <1>4

LEMMA PasoDesistir ==
  ASSUME GInv, ~memoria.cruce, NEW v \in Ventanas, Desistir(v)
  PROVE  GInv'
<1>1. /\ UNCHANGED <<arnes, lista, cerradas, borrador, orq, memoria>>
      /\ ventana' = [ventana EXCEPT ![v] = Ninguno]
  BY DEF Desistir
<1> QED BY <1>1, SoloVentana

LEMMA GatesInicio == InitGates => GInv
<1> SUFFICES ASSUME InitGates PROVE GInv
  OBVIOUS
<1>1. PICK destino \in BOOLEAN :
        /\ lista = {[id |-> 1, estado |-> "pending", sha |-> 0,
                     def |-> [n |-> 0, humanos |-> IF destino THEN Criterios ELSE {},
                              despliega |-> destino]],
                    [id |-> 2, estado |-> "pending", sha |-> 0, def |-> Ninguno]}
        /\ memoria = [destino |-> destino, borradores |-> 0, defines |-> {}, guardadas |-> {},
                      relevos |-> {}, cruce |-> FALSE]
  BY DEF InitGates
<1> DEFINE d == [n |-> 0, humanos |-> IF destino THEN Criterios ELSE {}, despliega |-> destino]
           i == [id |-> 1, estado |-> "pending", sha |-> 0, def |-> d]
           j == [id |-> 2, estado |-> "pending", sha |-> 0, def |-> Ninguno]
<1>2. d \in Definiciones
  BY DEF Definiciones
<1>3. lista = {i, j}
  BY <1>1
<1> HIDE DEF d
<1>4. 1 \in Numeros /\ 2 \in Numeros
  BY GatesAssumption DEF Numeros
<1>5. i \in Items /\ j \in Items /\ i.id # j.id /\ i.sha = 0 /\ j.sha = 0
      /\ i.estado = "pending" /\ j.estado = "pending"
  BY <1>2, <1>4 DEF Items
<1> HIDE DEF i, j
<1>6. Sana(lista)
  BY <1>3, <1>5 DEF Sana
<1>7. /\ arnes = ArnesVacio /\ cerradas = {} /\ borrador = [n \in Numeros |-> Ninguno]
      /\ orq = Reposo /\ ventana = [v \in Ventanas |-> Ninguno]
  BY DEF InitGates
<1>8. MemoriaBien(memoria) /\ memoria.guardadas = {}
  BY <1>1 DEF MemoriaBien
<1>9. OrqBien(orq) /\ ~orq.fresca
  BY <1>7 DEF OrqBien, Reposo
<1>10. GTipos
  BY <1>6, <1>7, <1>8, <1>9, VacioTipo DEF GTipos
<1>11. Coincide(arnes, lista)
  BY <1>3, <1>5, <1>7 DEF Coincide, ArnesVacio
<1>12. Acuerdo(arnes, lista, cerradas, memoria.guardadas)
  BY <1>7, <1>8, <1>11, VacioTipo DEF Acuerdo
<1>13. GAcuerdo
  BY <1>7, <1>9, <1>12 DEF GAcuerdo
<1>14. GCotejo
  BY <1>3, <1>5, <1>7 DEF GCotejo, Cotejados
<1> QED BY <1>10, <1>13, <1>14 DEF GInv

LEMMA GatesPaso == GInv /\ [NextGates]_varsGates => GInv'
<1> SUFFICES ASSUME GInv, [NextGates]_varsGates PROVE GInv'
  OBVIOUS
<1>1. CASE UNCHANGED varsGates
  <2>1. UNCHANGED <<arnes, lista, cerradas, borrador, orq, ventana, memoria>>
    BY <1>1 DEF varsGates
  <2>2. GTipos'
    BY <2>1 DEF GInv, GTipos
  <2>3. GAcuerdo'
    BY <2>1 DEF GInv, GAcuerdo
  <2>4. GCotejo'
    BY <2>1 DEF GInv, GCotejo
  <2> QED BY <2>2, <2>3, <2>4 DEF GInv
<1>2. CASE NextGates
  <2>1. ~memoria.cruce
    BY <1>2 DEF NextGates
  <2>2. ASSUME NEW t \in Tabla, Progresar(t) PROVE GInv'
    BY <2>1, <2>2, PasoProgresar
  <2>3. CASE Detenerse BY <2>1, <2>3, PasoDetenerse
  <2>4. CASE Preparar BY <2>1, <2>4, PasoPreparar
  <2>5. CASE Responder BY <2>1, <2>5, PasoResponder
  <2>6. CASE Proponer BY <2>1, <2>6, PasoProponer
  <2>7. CASE Entrevistar BY <2>1, <2>7, PasoEntrevistar
  <2>8. CASE Reanudar BY <2>1, <2>8, PasoReanudar
  <2>9. ASSUME NEW v \in Ventanas, Teclear(v) PROVE GInv'
    BY <2>1, <2>9, PasoTeclear
  <2>10. ASSUME NEW v \in Ventanas, Confirmar(v) PROVE GInv'
    BY <2>1, <2>10, PasoConfirmar
  <2>11. ASSUME NEW v \in Ventanas, Desistir(v) PROVE GInv'
    BY <2>1, <2>11, PasoDesistir
  <2>12. ASSUME NEW v \in Ventanas, LeerBorrador(v) PROVE GInv'
    BY <2>1, <2>12, PasoLeerBorrador
  <2>13. ASSUME NEW v \in Ventanas, LeerArchivos(v) PROVE GInv'
    BY <2>1, <2>13, PasoLeerArchivos
  <2> QED BY <1>2, <2>2, <2>3, <2>4, <2>5, <2>6, <2>7, <2>8, <2>9, <2>10, <2>11, <2>12, <2>13
      DEF NextGates
<1> QED BY <1>1, <1>2

(* At every step of the harness at its gates: until a command saves over     *)
(* what it had not read, the state, the current task, the backlog and the   *)
(* finished tasks agree, and each window holds what it read or is marked    *)
(* old; what the orchestrator asks is of the state there is, as long as     *)
(* nothing was written since; and every draft that a define goes on with is *)
(* the one whose hash it checked, or was put there between the two reads.   *)
(* The reads of a command are steps of their own; what it writes after the  *)
(* confirmation is one step.                                                *)
THEOREM PuertasInvariante == SpecGates => []GInv
BY GatesInicio, GatesPaso, PTL DEF SpecGates

LEMMA GatesFieles ==
  ASSUME GInv
  PROVE  PuertasFieles
<1>1. TipoArnes(arnes) /\ Sana(lista)
  BY DEF GInv, GTipos
<1>2. orq.fresca => /\ ~memoria.cruce /\ OrqFresco(orq, arnes, lista, cerradas, borrador)
                    /\ Acuerdo(arnes, lista, cerradas, memoria.guardadas)
  BY DEF GInv, GAcuerdo
<1>3. OrdenesAdmisibles
  <2> SUFFICES ASSUME orq.fresca
               PROVE  /\ orq.nodo = "mostrar" => \A c \in orq.ordenes :
                           /\ \/ Admisible(c)
                              \/ \E d \in orq.ordenes : c.cmd = "activate" /\ d.cmd = "define" /\ d.id = c.id
                           /\ c.cmd = "accept" /\ c.dec = "accept" => human_criteria(arnes) \subseteq c.crit
                      /\ orq.nodo = "entrevista" => orq.sugerido \notin IdsDe(lista) \cup cerradas
    BY DEF OrdenesAdmisibles
  <2>1. ASSUME orq.nodo = "mostrar", NEW c \in orq.ordenes
        PROVE  /\ \/ Admisible(c)
                  \/ \E d \in orq.ordenes : c.cmd = "activate" /\ d.cmd = "define" /\ d.id = c.id
               /\ c.cmd = "accept" /\ c.dec = "accept" => human_criteria(arnes) \subseteq c.crit
    <3>1. Orden_(c, orq.ordenes, arnes, lista, cerradas, borrador)
      BY <1>2, <2>1 DEF OrqFresco
    <3>2. arnes.estado = "IDLE" => arnes.tarea = Ninguno
      BY <1>2 DEF Acuerdo
    <3>3. CASE /\ c.cmd = "define" /\ arnes.estado = "IDLE"
               /\ borrador[c.id] # Ninguno /\ borrador[c.id].sha = c.sha
               /\ c.id \notin IdsDe(lista) \cup cerradas
      BY <3>3 DEF Admisible, EstadoRequerido, ArchivosAdmiten, MismoBorrador
    <3>4. CASE /\ c.cmd = "activate"
               /\ \/ arnes.estado = "IDLE" /\ \E i \in lista : i.id = c.id /\ i.def # Ninguno
                  \/ \E d \in orq.ordenes : d.cmd = "define" /\ d.id = c.id
      BY <3>2, <3>4 DEF Admisible, EstadoRequerido, ArchivosAdmiten
    <3>5. CASE c.cmd = "gate" /\ arnes.estado = "WAITING_HUMAN_APPROVAL"
      BY <3>5 DEF Admisible, EstadoRequerido, ArchivosAdmiten
    <3>6. CASE /\ c.cmd = "accept" /\ arnes.estado = "VERIFYING" /\ c.crit # {}
               /\ c.crit \subseteq human_criteria(arnes)
               /\ c.dec = "accept" => human_criteria(arnes) \subseteq c.crit
      BY <3>6 DEF Admisible, EstadoRequerido, ArchivosAdmiten
    <3>7. CASE c.cmd = "resolve" /\ arnes.estado = "BLOCKED_HUMAN"
      BY <3>7 DEF Admisible, EstadoRequerido, ArchivosAdmiten
    <3> QED BY <3>1, <3>3, <3>4, <3>5, <3>6, <3>7 DEF Orden_
  <2>2. orq.nodo = "entrevista" => orq.sugerido \notin IdsDe(lista) \cup cerradas
    BY <1>2 DEF OrqFresco
  <2> QED BY <2>1, <2>2
<1>4. ClaseVeraz
  <2> SUFFICES ASSUME orq.fresca, orq.carga.tipo = "blocked"
               PROVE  /\ orq.carga.clase # "unknown"
                      /\ orq.carga.clase \in Fallos <=> arnes.ultima.rec = "failure_evidence"
                      /\ orq.carga.sugerido \in Destinos \cup {Ninguno}
    BY DEF ClaseVeraz
  <2>1. /\ arnes.estado = "BLOCKED_HUMAN"
        /\ orq.carga.clase = classify_block(arnes) /\ orq.carga.sugerido = Sugerido(arnes)
    BY <1>2 DEF OrqFresco
  <2>2. Bloqueo(arnes.ultima) /\ (arnes.ultima.rec = "failure_evidence" => arnes.fallo \in Fallos)
    BY <1>2, <2>1 DEF Acuerdo
  <2> QED BY <2>1, <2>2, ClaseEs, SugeridoEs
<1>5. BacklogIntegro
  <2>1. /\ \A i \in lista : i.sha # 0 => i.def.n = i.sha \/ <<i.sha, i.def.n>> \in memoria.relevos
        /\ \A i, j \in lista : i.id = j.id => i = j
    BY <1>1 DEF Sana, GInv, GCotejo, Cotejados, Cotejado
  <2>2. ASSUME ~memoria.cruce
        PROVE  Acuerdo(arnes, lista, cerradas, memoria.guardadas)
    BY <2>2 DEF GInv, GAcuerdo
  <2> QED BY <2>1, <2>2 DEF BacklogIntegro, Acuerdo, Coincide
<1> QED BY <1>3, <1>4, <1>5 DEF PuertasFieles

(* For any criteria, interviews, number of windows, drafts and tasks: the    *)
(* commands that the orchestrator composes are those that approve.py lets   *)
(* in while nothing has changed, a block is explained by what blocked the   *)
(* task, and a task of the backlog is the draft whose hash define checked   *)
(* or the one that replaced it before define read it, is there once, and is  *)
(* not lost until a command saves over what it had not read.                *)
THEOREM PuertasSiempreFieles == SpecGates => []PuertasFieles
<1>1. GInv => PuertasFieles
  BY GatesFieles
<1> QED BY <1>1, PuertasInvariante, PTL
================================================================================
