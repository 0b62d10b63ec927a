---------------------------- MODULE PromocionEB ----------------------------
(***************************************************************************)
(* The promotion of a release in Elastic Beanstalk: the GitHub workflow    *)
(* that starts the pipeline and waits for it, and the two promoters the    *)
(* pipeline may run, promote_domain_baseline.py ("base") and               *)
(* promote_eb_candidate.py ("candidata").  The pipeline is QUEUED, so one  *)
(* promoter runs at a time; an operator with the console is not queued.    *)
(*                                                                         *)
(* Every AWS call is one step: it may fail, be accepted and lose its       *)
(* answer, and the process may die between two of them.                    *)
(***************************************************************************)
EXTENDS Naturals

CONSTANTS
  Nada,              \* no value
  Promotores,        \* the promoters the pipeline may be set up to run
  MaxCorridas,       \* bound: executions of the pipeline
  MaxAjenos,         \* bound: updates an operator makes by hand
  MaxSaltos,         \* bound: changes of health without a deployment
  VISIBILIDAD,       \* visibility_attempts of the wait (6 in the code)
  OBSERVACIONES      \* max_attempts of the wait (90 in the code)

ASSUME BoundsPromocion ==
  /\ Promotores \subseteq {"base", "candidata"}
  /\ {MaxCorridas, MaxAjenos, MaxSaltos, VISIBILIDAD, OBSERVACIONES} \subseteq Nat

VARIABLES
  entorno,   \* the environment: version, domain contract, contents, state, health
  versiones, \* the application versions: Nada or [estado, origen]
  claves,    \* what the approved key of each version holds in S3
  corrida,   \* the promoter that runs, or Nada
  github,    \* the run of the workflow and the execution it started
  cuenta     \* how often the bounded things happened

varsPromocion == <<entorno, versiones, claves, corrida, github, cuenta>>

-----------------------------------------------------------------------------
(* Elastic Beanstalk *)

Contrato(v) == IF v = "fuente" THEN "legado" ELSE "tpi"

Sana(v) == entorno.version = v /\ entorno.estado = "Ready" /\ entorno.sana

(* What describe-environments tells a promoter: the version the environment *)
(* is Ready, Green and Ok on, if any. *)
SanaEn == IF entorno.estado = "Ready" /\ entorno.sana THEN entorno.version ELSE "ninguna"

RollbackUsable == versiones["fuente"] # Nada /\ versiones["fuente"].estado # "FAILED"

DeLaClaveAprobada(v) == versiones[v].origen = "clave"

Contenido(v) == IF DeLaClaveAprobada(v) THEN claves[v] ELSE "otro"

(* update-environment takes the version and the domain variables in one     *)
(* call; it is refused while another update runs or without the version.    *)
EBAcepta(v) == entorno.estado = "Ready" /\ versiones[v] # Nada

ActualizarEntorno(v, contrato) ==
  entorno' = [entorno EXCEPT
    !.estado = "Updating",
    !.destino = [version |-> v, contrato |-> contrato, contenido |-> Contenido(v)]]

(* A deployment ends: the environment runs the new version, well or badly,  *)
(* or was left on the old one. *)
TerminarDespliegue ==
  /\ entorno.estado = "Updating"
  /\ \/ \E sana \in BOOLEAN :
          entorno' = [version |-> entorno.destino.version, contrato |-> entorno.destino.contrato,
                      contenido |-> entorno.destino.contenido,
                      estado |-> "Ready", sana |-> sana, destino |-> Nada]
     \/ entorno' = [entorno EXCEPT !.estado = "Ready", !.sana = FALSE, !.destino = Nada]
  /\ UNCHANGED <<versiones, claves, corrida, github, cuenta>>

CambiarSalud ==
  /\ cuenta.saltos < MaxSaltos /\ entorno.estado = "Ready"
  /\ entorno' = [entorno EXCEPT !.sana = ~@]
  /\ cuenta' = [cuenta EXCEPT !.saltos = @ + 1]
  /\ UNCHANGED <<versiones, claves, corrida, github>>

(* EB takes in the bundle of a version just created, or finds it bad. *)
ProcesarVersion(q) ==
  /\ versiones[q] # Nada /\ versiones[q].estado = "PROCESSING"
  /\ \E estado \in {"UNPROCESSED", "FAILED"} :
       versiones' = [versiones EXCEPT ![q].estado = estado]
  /\ UNCHANGED <<entorno, claves, corrida, github, cuenta>>

(* The rollback of the runbook: an operator puts a version back and leaves  *)
(* the variables as they are. *)
ActualizarAMano ==
  /\ cuenta.ajenos < MaxAjenos
  /\ \E v \in {"fuente", "candidata"} : EBAcepta(v) /\ ActualizarEntorno(v, entorno.contrato)
  /\ cuenta' = [cuenta EXCEPT !.ajenos = @ + 1]
  /\ corrida' = IF corrida = Nada THEN Nada ELSE [corrida EXCEPT !.intruso = TRUE]
  /\ UNCHANGED <<versiones, claves, github>>

(* The source version is deleted, by the retention of versions or by hand. *)
BorrarFuente ==
  /\ versiones["fuente"] # Nada /\ entorno.version # "fuente" /\ entorno.estado = "Ready"
  /\ versiones' = [versiones EXCEPT !["fuente"] = Nada]
  /\ UNCHANGED <<entorno, claves, corrida, github, cuenta>>
-----------------------------------------------------------------------------
(* One promoter *)

Nueva(q, deGithub) ==
  [quien |-> q, paso |-> "mirar", visto |-> "ninguna", aceptada |-> FALSE,
   intruso |-> FALSE, deGithub |-> deGithub]

En(paso) == corrida # Nada /\ corrida.paso = paso

Pasar(paso) == corrida' = [corrida EXCEPT !.paso = paso]

SiNoFalla(condicion, paso) == Pasar(IF condicion THEN paso ELSE "fallo")

(* The end of the process is the end of the execution of the pipeline. *)
Acabar(estado) ==
  /\ corrida' = Nada
  /\ github' = IF corrida.deGithub THEN [github EXCEPT !.ejecucion = estado] ELSE github

MirarEntorno ==
  /\ En("mirar")
  /\ corrida' = [corrida EXCEPT
       !.visto = SanaEn,
       !.paso = IF corrida.quien = "candidata" THEN "rollback"
                ELSE IF SanaEn = "fuente" THEN "objeto" ELSE "fallo"]
  /\ UNCHANGED <<entorno, versiones, claves, github, cuenta>>

VerificarObjeto ==
  /\ En("objeto")
  /\ SiNoFalla(claves["base"] = "aprobado", "asegurar")
  /\ UNCHANGED <<entorno, versiones, claves, github, cuenta>>

(* The version to go back to is checked before and after the update. *)
VerificarRollback ==
  /\ \/ /\ En("rollback")
        /\ IF corrida.quien = "base" THEN SiNoFalla(RollbackUsable, "promover")
           ELSE SiNoFalla(RollbackUsable /\ corrida.visto \in {"fuente", "candidata"}, "asegurar")
     \/ En("rollback2") /\ SiNoFalla(RollbackUsable, "final")
  /\ UNCHANGED <<entorno, versiones, claves, github, cuenta>>

AsegurarVersion ==
  /\ En("asegurar")
  /\ Pasar(IF versiones[corrida.quien] # Nada THEN "verificar"
           ELSE IF corrida.quien = "candidata" THEN "materializar" ELSE "crear")
  /\ UNCHANGED <<entorno, versiones, claves, github, cuenta>>

(* The bundle goes up under its checksum, and the checksum is read back. *)
MaterializarBundle ==
  /\ En("materializar")
  /\ claves' = [claves EXCEPT !["candidata"] = "aprobado"]
  /\ \E paso \in {"crear", "fallo"} : Pasar(paso)
  /\ UNCHANGED <<entorno, versiones, github, cuenta>>

CrearVersion ==
  /\ En("crear")
  /\ versiones' = [versiones EXCEPT ![corrida.quien] = [estado |-> "PROCESSING", origen |-> "clave"]]
  /\ \E paso \in {"esperarVersion", "fallo"} : Pasar(paso)
  /\ UNCHANGED <<entorno, claves, github, cuenta>>

EsperarVersion ==
  /\ En("esperarVersion")
  /\ versiones[corrida.quien].estado # "PROCESSING"
  /\ SiNoFalla(versiones[corrida.quien].estado # "FAILED", "verificar")
  /\ UNCHANGED <<entorno, versiones, claves, github, cuenta>>

(* Mutant: a version that exists is taken for the approved one. *)
VersionSinComprobar(q) == versiones[q].estado # "FAILED" /\ DeLaClaveAprobada(q)

VersionBuena(q) ==
  /\ versiones[q].estado # "FAILED"
  /\ DeLaClaveAprobada(q)
  /\ q = "candidata" => claves["candidata"] = "aprobado"

VerificarVersion ==
  /\ En("verificar")
  /\ SiNoFalla(VersionBuena(corrida.quien),
       IF corrida.quien = "base" THEN "rollback"
       ELSE IF corrida.visto = "candidata" THEN "rollback2" ELSE "promover")
  /\ UNCHANGED <<entorno, versiones, claves, github, cuenta>>

(* environment_update_accepted is set only once the answer arrived. *)
Promover ==
  /\ En("promover") /\ EBAcepta(corrida.quien)
  /\ ActualizarEntorno(corrida.quien, Contrato(corrida.quien))
  /\ \E respuesta \in BOOLEAN :
       corrida' = [corrida EXCEPT !.aceptada = respuesta,
                                  !.paso = IF respuesta THEN "esperar" ELSE "fallo"]
  /\ UNCHANGED <<versiones, claves, github, cuenta>>

EsperarEntorno ==
  /\ En("esperar") /\ Sana(corrida.quien)
  /\ Pasar("rollback2")
  /\ UNCHANGED <<entorno, versiones, claves, github, cuenta>>

ExigirFinal ==
  /\ En("final")
  /\ IF Sana(corrida.quien) THEN Acabar("Succeeded") ELSE Pasar("fallo") /\ UNCHANGED github
  /\ UNCHANGED <<entorno, versiones, claves, cuenta>>

(* An error of AWS, an update refused, a wait that ran out: an exception. *)
Fallar ==
  /\ corrida # Nada /\ corrida.paso \notin {"fallo", "deshacer", "esperarRollback"}
  /\ Pasar("fallo")
  /\ UNCHANGED <<entorno, versiones, claves, github, cuenta>>

(* Mutant: the rollback without the look at environment_update_accepted. *)
DecidirRollbackSiempre ==
  /\ En("fallo")
  /\ IF SanaEn \notin {"fuente", corrida.quien}
       THEN Pasar("deshacer") /\ UNCHANGED github
       ELSE Acabar("Failed")
  /\ UNCHANGED <<entorno, versiones, claves, cuenta>>

(* _rollback_if_environment_is_degraded *)
DecidirRollback ==
  /\ En("fallo")
  /\ IF corrida.aceptada /\ SanaEn \notin {"fuente", corrida.quien}
       THEN Pasar("deshacer") /\ UNCHANGED github
       ELSE Acabar("Failed")
  /\ UNCHANGED <<entorno, versiones, claves, cuenta>>

Deshacer ==
  /\ En("deshacer")
  /\ IF EBAcepta("fuente")
       THEN /\ ActualizarEntorno("fuente", "legado")
            /\ Pasar("esperarRollback") /\ UNCHANGED github
       ELSE Acabar("Failed") /\ UNCHANGED entorno
  /\ UNCHANGED <<versiones, claves, cuenta>>

(* The wait for the source version ends healthy or runs out: failed. *)
AcabarRollback ==
  /\ En("esperarRollback")
  /\ Acabar("Failed")
  /\ UNCHANGED <<entorno, versiones, claves, cuenta>>

(* The build dies, or somebody stops the execution. *)
Morir ==
  /\ corrida # Nada
  /\ \E estado \in {"Failed", "Stopped"} : Acabar(estado)
  /\ UNCHANGED <<entorno, versiones, claves, cuenta>>
-----------------------------------------------------------------------------
(* The workflow and the queue of the pipeline *)

PreflightBueno ==
  /\ SanaEn \in {"fuente", "candidata"}
  /\ RollbackUsable
  /\ \/ versiones["candidata"] = Nada
     \/ versiones["candidata"].estado # "FAILED" /\ DeLaClaveAprobada("candidata")

Preflight ==
  /\ github.paso = "preflight"
  /\ github' = [github EXCEPT !.paso = IF PreflightBueno THEN "arrancar" ELSE "roja"]
  /\ UNCHANGED <<entorno, versiones, claves, corrida, cuenta>>

(* start-pipeline-execution: without the answer its id is not known. *)
ArrancarPipeline ==
  /\ github.paso = "arrancar"
  /\ \E paso \in {"esperar", "roja"} :
       github' = [github EXCEPT !.paso = paso, !.ejecucion = "EnCola"]
  /\ UNCHANGED <<entorno, versiones, claves, corrida, cuenta>>

(* The queue: the execution of the workflow, or one started by hand. *)
SacarDeLaCola(q) ==
  /\ corrida = Nada /\ cuenta.corridas < MaxCorridas
  /\ cuenta' = [cuenta EXCEPT !.corridas = @ + 1]
  /\ \/ /\ github.ejecucion = "EnCola"
        /\ corrida' = Nueva(q, TRUE)
        /\ github' = [github EXCEPT !.ejecucion = "InProgress"]
     \/ corrida' = Nueva(q, FALSE) /\ UNCHANGED github
  /\ UNCHANGED <<entorno, versiones, claves>>

Intentos == github.ocultas + github.vistas

(* The counts of the wait end with it. *)
Dejar(paso) == [github EXCEPT !.paso = paso, !.ocultas = 0, !.vistas = 0]

(* wait_for_execution: one poll.  The id may not be visible at first; once  *)
(* seen, not finding it is an error. *)
ObservarOculta ==
  /\ github.paso = "esperar" /\ Intentos < OBSERVACIONES
  /\ github' = IF github.vistas > 0 \/ github.ocultas = VISIBILIDAD
                 THEN Dejar("roja")
                 ELSE [github EXCEPT !.ocultas = @ + 1]
  /\ UNCHANGED <<entorno, versiones, claves, corrida, cuenta>>

ObservarEjecucion ==
  /\ github.paso = "esperar" /\ Intentos < OBSERVACIONES
  /\ github' = CASE github.ejecucion = "Succeeded" -> Dejar("postflight")
                 [] github.ejecucion \in {"Failed", "Stopped"} -> Dejar("roja")
                 [] OTHER -> [github EXCEPT !.vistas = @ + 1]
  /\ UNCHANGED <<entorno, versiones, claves, corrida, cuenta>>

(* Mutant: the wait that runs out is taken for a success. *)
EsperaConfiada ==
  /\ github.paso = "esperar" /\ Intentos = OBSERVACIONES
  /\ github' = Dejar("postflight")
  /\ UNCHANGED <<entorno, versiones, claves, corrida, cuenta>>

EsperaAgotada ==
  /\ github.paso = "esperar" /\ Intentos = OBSERVACIONES
  /\ github' = Dejar("roja")
  /\ UNCHANGED <<entorno, versiones, claves, corrida, cuenta>>

(* The environment, the TLS of both names and the events, all readable. *)
Postflight ==
  /\ github.paso = "postflight"
  /\ \E paso \in IF Sana("candidata") THEN {"verde", "roja"} ELSE {"roja"} :
       github' = [github EXCEPT !.paso = paso]
  /\ UNCHANGED <<entorno, versiones, claves, corrida, cuenta>>
-----------------------------------------------------------------------------
(* The source version deployed, well or not, or an earlier promotion done;  *)
(* the versions and the keys as any earlier attempt left them. *)
EntornoEn(v) ==
  [version |-> v, contrato |-> Contrato(v),
   contenido |-> IF v = "fuente" THEN "otro" ELSE "aprobado",
   estado |-> "Ready", sana |-> TRUE, destino |-> Nada]

VersionDe(origen) == [estado |-> "PROCESSED", origen |-> origen]

InitPromocion ==
  /\ \E v \in {"fuente", "base", "candidata"} : entorno = EntornoEn(v)
  /\ \E f \in [{"base", "candidata"} -> {Nada, VersionDe("clave"), VersionDe("otro")}] :
       versiones = [v \in {"fuente", "base", "candidata"} |->
                      IF v = "fuente" THEN VersionDe("otro") ELSE f[v]]
  /\ claves \in [{"base", "candidata"} -> {Nada, "aprobado", "otro"}]
  /\ \A v \in {"base", "candidata"} :
       /\ entorno.version = v => versiones[v] = VersionDe("clave") /\ claves[v] = "aprobado"
       /\ versiones[v] = VersionDe("clave") => claves[v] # Nada
  /\ corrida = Nada
  /\ github = [paso |-> "preflight", ejecucion |-> "ninguna", ocultas |-> 0, vistas |-> 0]
  /\ cuenta = [corridas |-> 0, ajenos |-> 0, saltos |-> 0]

Aws ==
  \/ TerminarDespliegue \/ CambiarSalud \/ ActualizarAMano \/ BorrarFuente
  \/ \E q \in {"base", "candidata"} : ProcesarVersion(q)

Promotor ==
  \/ MirarEntorno \/ VerificarObjeto \/ VerificarRollback \/ AsegurarVersion
  \/ MaterializarBundle \/ CrearVersion \/ EsperarVersion \/ VerificarVersion
  \/ Promover \/ EsperarEntorno \/ ExigirFinal
  \/ Fallar \/ DecidirRollback \/ Deshacer \/ AcabarRollback \/ Morir

Flujo ==
  \/ Preflight \/ ArrancarPipeline
  \/ ObservarOculta \/ ObservarEjecucion \/ EsperaAgotada \/ Postflight
  \/ \E q \in Promotores : SacarDeLaCola(q)

NextPromocion == Aws \/ Promotor \/ Flujo

SpecPromocion == InitPromocion /\ [][NextPromocion]_varsPromocion
-----------------------------------------------------------------------------
(* Whatever fails, is lost or is retried, the environment never runs the    *)
(* target with a bundle that is not the approved one, and, as long as no    *)
(* operator wrote, no version runs with the domain contract of another.     *)
(* Both hold for what is being deployed too. *)
EntornoAprobado ==
  \A e \in {entorno, entorno.destino} \ {Nada} :
    /\ e.version # "fuente" /\ cuenta.ajenos = 0 => e.contenido = "aprobado"
    /\ cuenta.ajenos = 0 => e.contrato = Contrato(e.version)

(* An update of a promoter is accepted only over what that promoter was     *)
(* entitled to replace: the promotion over the source version it saw        *)
(* healthy, the rollback over its own target, or the source it came from,   *)
(* after its own promotion was accepted.  The exception is an operator who  *)
(* wrote while the promoter ran. *)
SinPisar ==
  [][entorno.estado = "Ready" /\ entorno'.estado = "Updating" /\ cuenta'.ajenos = cuenta.ajenos
       /\ ~corrida.intruso
     => IF entorno'.destino.version = "fuente"
          THEN corrida.aceptada /\ entorno.version \in {corrida.quien, "fuente"}
          ELSE corrida.visto = "fuente" /\ entorno.version = "fuente"]_varsPromocion

(* A green workflow tells the truth: the execution it started ended well    *)
(* and the environment is healthy, at that moment, on the approved          *)
(* candidate under the TPI domain. *)
VerdeVeraz ==
  [][github.paso # "verde" /\ github'.paso = "verde"
     => /\ github.ejecucion = "Succeeded"
        /\ Sana("candidata")
        /\ cuenta.ajenos = 0 => entorno.contrato = "tpi" /\ entorno.contenido = "aprobado"]_varsPromocion

=============================================================================
