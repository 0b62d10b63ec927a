---------------------------- MODULE Piezas_proofs ----------------------------
(***************************************************************************)
(* Theorems about the pieces that stand alone: the promotion of a release, *)
(* the bucket of the attachments, the data of DEV, the week of the agenda  *)
(* and the simulator.  They share no state; each has its own               *)
(* specification and its own invariant.                                    *)
(***************************************************************************)
EXTENDS PromocionEB, InfraAdjuntos, DatosDev, AgendaCalendar, Simulador,
        FiniteSetTheorems, TLAPS

-----------------------------------------------------------------------------
(* Promotion: types *)

VersionesEB == {"fuente", "base", "candidata"}

Contenidos == {"aprobado", "otro", Nada}

Destinos == [version : VersionesEB, contrato : {"legado", "tpi"}, contenido : Contenidos]

Pasos ==
  {"mirar", "objeto", "rollback", "rollback2", "asegurar", "materializar", "crear",
   "esperarVersion", "verificar", "promover", "esperar", "final", "fallo", "deshacer",
   "esperarRollback"}

Corridas ==
  [quien : {"base", "candidata"}, paso : Pasos, visto : VersionesEB \cup {"ninguna"},
   aceptada : BOOLEAN, intruso : BOOLEAN, deGithub : BOOLEAN]

TipoEntorno ==
  /\ entorno \in [version : VersionesEB, contrato : {"legado", "tpi"}, contenido : Contenidos,
                  estado : {"Ready", "Updating"}, sana : BOOLEAN, destino : {Nada} \cup Destinos]
  /\ entorno.estado = "Ready" => entorno.destino = Nada
  /\ entorno.estado = "Updating" => entorno.destino \in Destinos

TipoVersiones ==
  /\ versiones \in [VersionesEB -> {Nada} \cup
                      [estado : {"PROCESSING", "PROCESSED", "UNPROCESSED", "FAILED"},
                       origen : {"clave", "otro"}]]
  /\ versiones["fuente"] # Nada => versiones["fuente"].origen = "otro"
  /\ claves \in [{"base", "candidata"} -> Contenidos]

TipoFlujo ==
  /\ corrida \in {Nada} \cup Corridas
  /\ github \in [paso : {"preflight", "arrancar", "esperar", "postflight", "verde", "roja"},
                 ejecucion : {"ninguna", "EnCola", "InProgress", "Succeeded", "Failed", "Stopped"},
                 ocultas : Nat, vistas : Nat]
  /\ cuenta \in [corridas : Nat, ajenos : Nat, saltos : Nat]

TiposPromocion == TipoEntorno /\ TipoVersiones /\ TipoFlujo

(* What a version that runs, or is being deployed, must be while no         *)
(* operator wrote. *)
Bueno(e) ==
  cuenta.ajenos = 0 =>
    /\ e.version # "fuente" => e.contenido = "aprobado"
    /\ e.contrato = Contrato(e.version)

Aprobados ==
  /\ Bueno(entorno)
  /\ entorno.estado = "Updating" => Bueno(entorno.destino)

(* What a promoter has checked by the time it is at each of its steps. *)
AntesDePromover ==
  {"objeto", "rollback", "asegurar", "materializar", "crear", "esperarVersion", "verificar",
   "promover"}

Comprobado ==
  corrida # Nada =>
    /\ corrida.quien = "base"
         /\ corrida.paso \in {"asegurar", "materializar", "crear", "esperarVersion", "verificar",
                            "rollback"}
       => claves["base"] = "aprobado"
    /\ \/ corrida.quien = "base" /\ corrida.paso = "rollback"
       \/ corrida.paso = "promover"
       => Contenido(corrida.quien) = "aprobado"

(* What it saw at the start still stands when nobody else wrote. *)
Derecho ==
  corrida # Nada =>
    /\ corrida.quien = "base" /\ corrida.paso \in AntesDePromover => corrida.visto = "fuente"
    /\ corrida.quien = "candidata" /\ corrida.paso \in AntesDePromover \ {"rollback"}
       => corrida.visto \in {"fuente", "candidata"}
    /\ corrida.paso = "promover" => corrida.visto = "fuente"
    /\ ~corrida.intruso /\ corrida.visto = "fuente" /\ corrida.paso \in AntesDePromover
       => entorno.estado = "Ready" /\ entorno.version = "fuente"
    /\ ~corrida.intruso /\ corrida.aceptada
       => /\ entorno.version \in {corrida.quien, "fuente"}
          /\ entorno.estado = "Updating" => entorno.destino.version \in {corrida.quien, "fuente"}
    /\ corrida.paso = "deshacer" => corrida.aceptada

(* The workflow knows how far the execution it started is. *)
Seguida ==
  /\ corrida # Nada /\ corrida.deGithub => github.ejecucion = "InProgress"
  /\ github.paso \in {"preflight", "arrancar"} => github.ejecucion = "ninguna"
  /\ github.paso = "postflight" => github.ejecucion = "Succeeded"

InvPromocion == TiposPromocion /\ Aprobados /\ Comprobado /\ Derecho /\ Seguida

(* Promotion: the types hold at every step *)

LEMMA PasoTipoEntorno ==
  TiposPromocion /\ [NextPromocion]_varsPromocion => TipoEntorno'
<1> SUFFICES ASSUME TiposPromocion, [NextPromocion]_varsPromocion PROVE TipoEntorno'
  OBVIOUS
<1> USE DEF TiposPromocion, TipoEntorno, Destinos
<1>1. ASSUME NEW v \in VersionesEB, NEW c \in {"legado", "tpi"}, EBAcepta(v),
             ActualizarEntorno(v, c)
      PROVE  TipoEntorno'
  <2>1. Contenido(v) \in Contenidos
    BY <1>1 DEF EBAcepta, Contenido, DeLaClaveAprobada, TipoVersiones, VersionesEB, Contenidos
  <2>2. [version |-> v, contrato |-> c, contenido |-> Contenido(v)] \in Destinos
    BY <2>1
  <2> QED BY <1>1, <2>2 DEF ActualizarEntorno
<1>2. CASE TerminarDespliegue
  <2>1. entorno.destino \in Destinos
    BY <1>2 DEF TerminarDespliegue
  <2>2. ASSUME NEW sana \in BOOLEAN,
               entorno' = [version |-> entorno.destino.version,
                           contrato |-> entorno.destino.contrato,
                           contenido |-> entorno.destino.contenido,
                           estado |-> "Ready", sana |-> sana, destino |-> Nada]
        PROVE  TipoEntorno'
    BY <2>1, <2>2
  <2>3. CASE entorno' = [entorno EXCEPT !.estado = "Ready", !.sana = FALSE, !.destino = Nada]
    BY <2>3
  <2> QED BY <1>2, <2>2, <2>3 DEF TerminarDespliegue
<1>3. CASE CambiarSalud
  BY <1>3 DEF CambiarSalud
<1>4. CASE ActualizarAMano
  BY <1>1, <1>4 DEF ActualizarAMano, VersionesEB
<1>5. CASE Promover
  BY <1>1, <1>5 DEF Promover, En, TipoFlujo, Corridas, Contrato, VersionesEB
<1>6. CASE Deshacer
  BY <1>1, <1>6 DEF Deshacer, VersionesEB
<1>7. CASE UNCHANGED entorno
  BY <1>7
<1> QED
  BY <1>2, <1>3, <1>4, <1>5, <1>6, <1>7
     DEF NextPromocion, Aws, Promotor, Flujo, varsPromocion, BorrarFuente, ProcesarVersion,
         MirarEntorno, VerificarObjeto, VerificarRollback, AsegurarVersion, MaterializarBundle,
         CrearVersion, EsperarVersion, VerificarVersion, EsperarEntorno, ExigirFinal, Fallar,
         DecidirRollback, AcabarRollback, Morir, Preflight, ArrancarPipeline, ObservarOculta,
         ObservarEjecucion, EsperaAgotada, Postflight, SacarDeLaCola

LEMMA PasoTipoVersiones ==
  TiposPromocion /\ [NextPromocion]_varsPromocion => TipoVersiones'
<1> SUFFICES ASSUME TiposPromocion, [NextPromocion]_varsPromocion PROVE TipoVersiones'
  OBVIOUS
<1> USE DEF TiposPromocion, TipoVersiones, VersionesEB
<1>1. CASE BorrarFuente
  BY <1>1 DEF BorrarFuente
<1>2. CASE \E q \in {"base", "candidata"} : ProcesarVersion(q)
  BY <1>2 DEF ProcesarVersion
<1>3. CASE MaterializarBundle
  BY <1>3 DEF MaterializarBundle, Contenidos
<1>4. CASE CrearVersion
  BY <1>4 DEF CrearVersion, En, TipoFlujo, Corridas
<1>5. CASE UNCHANGED <<versiones, claves>>
  BY <1>5
<1> QED
  BY <1>1, <1>2, <1>3, <1>4, <1>5
     DEF NextPromocion, Aws, Promotor, Flujo, varsPromocion, TerminarDespliegue, CambiarSalud,
         ActualizarAMano, MirarEntorno, VerificarObjeto, VerificarRollback, AsegurarVersion,
         EsperarVersion, VerificarVersion, Promover, EsperarEntorno, ExigirFinal, Fallar,
         DecidirRollback, Deshacer, AcabarRollback, Morir, Preflight, ArrancarPipeline,
         ObservarOculta, ObservarEjecucion, EsperaAgotada, Postflight, SacarDeLaCola

LEMMA PasoTipoFlujo ==
  TiposPromocion /\ [NextPromocion]_varsPromocion => TipoFlujo'
<1> SUFFICES ASSUME TiposPromocion, [NextPromocion]_varsPromocion PROVE TipoFlujo'
  OBVIOUS
<1> USE BoundsPromocion DEF TiposPromocion, TipoFlujo, Corridas, Pasos, VersionesEB
<1>1. CASE Aws
  <2>1. CASE CambiarSalud
    BY <2>1 DEF CambiarSalud
  <2>2. CASE ActualizarAMano
    <3>1. cuenta' \in [corridas : Nat, ajenos : Nat, saltos : Nat]
      BY <2>2 DEF ActualizarAMano
    <3>2. corrida' \in {Nada} \cup Corridas
      BY <2>2 DEF ActualizarAMano
    <3> QED BY <2>2, <3>1, <3>2 DEF ActualizarAMano
  <2>3. CASE UNCHANGED <<corrida, github, cuenta>>
    BY <2>3
  <2> QED BY <1>1, <2>1, <2>2, <2>3 DEF Aws, TerminarDespliegue, BorrarFuente, ProcesarVersion
<1>2. CASE Promotor
  <2>1. ASSUME NEW paso \in Pasos, corrida # Nada, Pasar(paso) PROVE corrida' \in Corridas
    BY <2>1 DEF Pasar
  <2>2. ASSUME NEW estado \in {"Succeeded", "Failed", "Stopped"}, Acabar(estado),
               UNCHANGED cuenta
        PROVE  TipoFlujo'
    BY <2>2 DEF Acabar
  <2>3. CASE MirarEntorno
    BY <1>2, <2>3 DEF MirarEntorno, En, SanaEn, TipoEntorno
  <2>4. CASE VerificarObjeto \/ VerificarRollback \/ AsegurarVersion \/ MaterializarBundle
             \/ CrearVersion \/ EsperarVersion \/ VerificarVersion \/ EsperarEntorno \/ Fallar
    BY <2>1, <2>4 DEF VerificarObjeto, VerificarRollback, AsegurarVersion, MaterializarBundle,
         CrearVersion, EsperarVersion, VerificarVersion, EsperarEntorno, Fallar, En, SiNoFalla
  <2>5. CASE Promover
    BY <2>5 DEF Promover, En
  <2>6. CASE ExigirFinal \/ DecidirRollback \/ Deshacer \/ AcabarRollback \/ Morir
    BY <2>1, <2>2, <2>6 DEF ExigirFinal, DecidirRollback, Deshacer, AcabarRollback, Morir, En
  <2> QED BY <1>2, <2>3, <2>4, <2>5, <2>6 DEF Promotor
<1>3. CASE Flujo
  <2>1. CASE Preflight \/ ArrancarPipeline \/ Postflight
    BY <2>1 DEF Preflight, ArrancarPipeline, Postflight
  <2>2. CASE ObservarOculta \/ ObservarEjecucion \/ EsperaAgotada
    <3>1. \A paso \in {"postflight", "roja"} :
            Dejar(paso) \in [paso : {"preflight", "arrancar", "esperar", "postflight", "verde", "roja"},
                             ejecucion : {"ninguna", "EnCola", "InProgress", "Succeeded", "Failed",
                                          "Stopped"},
                             ocultas : Nat, vistas : Nat]
      BY DEF Dejar
    <3>2. CASE ObservarOculta
      BY <3>1, <3>2 DEF ObservarOculta
    <3>3. CASE ObservarEjecucion
      BY <3>1, <3>3 DEF ObservarEjecucion
    <3>4. CASE EsperaAgotada
      BY <3>1, <3>4 DEF EsperaAgotada
    <3> QED BY <2>2, <3>2, <3>3, <3>4
  <2>3. ASSUME NEW q \in Promotores, SacarDeLaCola(q) PROVE TipoFlujo'
    <3>1. corrida' \in Corridas
      <4>1. q \in {"base", "candidata"}
        OBVIOUS
      <4>2. Nueva(q, TRUE) \in Corridas /\ Nueva(q, FALSE) \in Corridas
        BY <4>1 DEF Nueva
      <4> QED BY <2>3, <4>2 DEF SacarDeLaCola, Nueva
    <3>2. cuenta' \in [corridas : Nat, ajenos : Nat, saltos : Nat]
      BY <2>3 DEF SacarDeLaCola
    <3> QED BY <2>3, <3>1, <3>2 DEF SacarDeLaCola
  <2> QED BY <1>3, <2>1, <2>2, <2>3 DEF Flujo
<1>4. CASE UNCHANGED varsPromocion
  BY <1>4 DEF varsPromocion
<1> QED BY <1>1, <1>2, <1>3, <1>4 DEF NextPromocion

LEMMA PasoTiposPromocion ==
  TiposPromocion /\ [NextPromocion]_varsPromocion => TiposPromocion'
BY PasoTipoEntorno, PasoTipoVersiones, PasoTipoFlujo DEF TiposPromocion

(* Promotion: each conjunct of the invariant *)

(* A promoter deploys what it checked, with the variables of its version;   *)
(* an operator who writes is counted.                                       *)
LEMMA PasoAprobados ==
  InvPromocion /\ [NextPromocion]_varsPromocion => Aprobados'
<1> SUFFICES ASSUME InvPromocion, [NextPromocion]_varsPromocion PROVE Aprobados'
  OBVIOUS
<1> USE DEF InvPromocion, TiposPromocion, TipoEntorno, TipoFlujo, Aprobados, Bueno
<1>1. CASE TerminarDespliegue
  <2>1. Bueno(entorno) /\ Bueno(entorno.destino) /\ entorno.destino \in Destinos
    BY <1>1 DEF TerminarDespliegue
  <2>2. CASE entorno' = [entorno EXCEPT !.estado = "Ready", !.sana = FALSE, !.destino = Nada]
    BY <1>1, <2>1, <2>2 DEF TerminarDespliegue
  <2>3. ASSUME NEW sana \in BOOLEAN,
               entorno' = [version |-> entorno.destino.version,
                           contrato |-> entorno.destino.contrato,
                           contenido |-> entorno.destino.contenido,
                           estado |-> "Ready", sana |-> sana, destino |-> Nada]
        PROVE  Aprobados'
    BY <1>1, <2>1, <2>3 DEF TerminarDespliegue
  <2> QED BY <1>1, <2>2, <2>3 DEF TerminarDespliegue
<1>2. CASE CambiarSalud
  BY <1>2 DEF CambiarSalud
<1>3. CASE ActualizarAMano
  BY <1>3 DEF ActualizarAMano
<1>4. CASE Promover
  BY <1>4 DEF Promover, En, EBAcepta, ActualizarEntorno, Comprobado
<1>5. CASE Deshacer
  <2>1. CASE UNCHANGED entorno
    BY <1>5, <2>1 DEF Deshacer
  <2>2. CASE ActualizarEntorno("fuente", "legado")
    BY <1>5, <2>2 DEF Deshacer, ActualizarEntorno, Contrato
  <2> QED BY <1>5, <2>1, <2>2 DEF Deshacer
<1>6. CASE UNCHANGED entorno /\ cuenta'.ajenos = cuenta.ajenos
  BY <1>6
<1> QED
  BY <1>1, <1>2, <1>3, <1>4, <1>5, <1>6
     DEF NextPromocion, Aws, Promotor, Flujo, varsPromocion, BorrarFuente, ProcesarVersion,
         MirarEntorno, VerificarObjeto, VerificarRollback, AsegurarVersion, MaterializarBundle,
         CrearVersion, EsperarVersion, VerificarVersion, EsperarEntorno, ExigirFinal, Fallar,
         DecidirRollback, AcabarRollback, Morir, Preflight, ArrancarPipeline, ObservarOculta,
         ObservarEjecucion, EsperaAgotada, Postflight, SacarDeLaCola

(* The approved object and the origin of a version outlive the promoter     *)
(* that checked them: nobody deletes them nor writes over them.             *)
LEMMA PasoComprobado ==
  InvPromocion /\ [NextPromocion]_varsPromocion => Comprobado'
<1> SUFFICES ASSUME InvPromocion, [NextPromocion]_varsPromocion PROVE Comprobado'
  OBVIOUS
<1> USE DEF InvPromocion, TiposPromocion, TipoVersiones, TipoFlujo, Corridas, VersionesEB,
            Comprobado, Contenido, DeLaClaveAprobada
<1>1. CASE MirarEntorno
  BY <1>1 DEF MirarEntorno, En
<1>2. CASE VerificarObjeto \/ VerificarRollback \/ AsegurarVersion
  BY <1>2 DEF VerificarObjeto, VerificarRollback, AsegurarVersion, En, SiNoFalla, Pasar
<1>3. CASE MaterializarBundle
  <2>1. corrida' = [corrida EXCEPT !.paso = "crear"] \/ corrida' = [corrida EXCEPT !.paso = "fallo"]
    BY <1>3 DEF MaterializarBundle, Pasar
  <2> QED BY <1>3, <2>1 DEF MaterializarBundle, En
<1>4. CASE CrearVersion
  BY <1>4 DEF CrearVersion, En, Pasar
<1>5. CASE EsperarVersion \/ VerificarVersion
  BY <1>5 DEF EsperarVersion, VerificarVersion, VersionBuena, En, SiNoFalla, Pasar
<1>6. CASE Promover \/ EsperarEntorno \/ Fallar
  BY <1>6 DEF Promover, EsperarEntorno, Fallar, En, Pasar
<1>7. CASE ExigirFinal \/ DecidirRollback \/ Deshacer \/ AcabarRollback \/ Morir
  BY <1>7 DEF ExigirFinal, DecidirRollback, Deshacer, AcabarRollback, Morir, En, Pasar, Acabar
<1>8. CASE \E q \in {"base", "candidata"} : ProcesarVersion(q)
  BY <1>8 DEF ProcesarVersion
<1>9. CASE BorrarFuente
  BY <1>9 DEF BorrarFuente
<1>10. CASE ActualizarAMano
  BY <1>10 DEF ActualizarAMano
<1>11. CASE \E q \in Promotores : SacarDeLaCola(q)
  BY <1>11 DEF SacarDeLaCola, Nueva
<1>12. CASE UNCHANGED <<versiones, claves, corrida>>
  BY <1>12
<1> QED
  BY <1>1, <1>2, <1>3, <1>4, <1>5, <1>6, <1>7, <1>8, <1>9, <1>10, <1>11, <1>12
     DEF NextPromocion, Aws, Promotor, Flujo, varsPromocion, TerminarDespliegue, CambiarSalud,
         Preflight, ArrancarPipeline, ObservarOculta, ObservarEjecucion, EsperaAgotada, Postflight

(* Between what a promoter saw and its update only an operator writes; and  *)
(* what its accepted update leaves is its target or the source version.     *)
LEMMA PasoDerecho ==
  InvPromocion /\ [NextPromocion]_varsPromocion => Derecho'
<1> SUFFICES ASSUME InvPromocion, [NextPromocion]_varsPromocion PROVE Derecho'
  OBVIOUS
<1> USE DEF InvPromocion, TiposPromocion, TipoEntorno, TipoFlujo, Corridas, Derecho, AntesDePromover
<1>1. CASE TerminarDespliegue
  <2>1. CASE entorno' = [entorno EXCEPT !.estado = "Ready", !.sana = FALSE, !.destino = Nada]
    BY <1>1, <2>1 DEF TerminarDespliegue
  <2>2. ASSUME NEW sana \in BOOLEAN,
               entorno' = [version |-> entorno.destino.version,
                           contrato |-> entorno.destino.contrato,
                           contenido |-> entorno.destino.contenido,
                           estado |-> "Ready", sana |-> sana, destino |-> Nada]
        PROVE  Derecho'
    BY <1>1, <2>2 DEF TerminarDespliegue
  <2> QED BY <1>1, <2>1, <2>2 DEF TerminarDespliegue
<1>2. CASE CambiarSalud
  BY <1>2 DEF CambiarSalud
<1>3. CASE ActualizarAMano
  BY <1>3 DEF ActualizarAMano
<1>4. CASE MirarEntorno
  BY <1>4 DEF MirarEntorno, En, SanaEn
<1>5. CASE VerificarObjeto \/ VerificarRollback \/ AsegurarVersion \/ MaterializarBundle
  BY <1>5 DEF VerificarObjeto, VerificarRollback, AsegurarVersion, MaterializarBundle, En,
              SiNoFalla, Pasar
<1>6. CASE CrearVersion \/ EsperarVersion \/ VerificarVersion \/ EsperarEntorno \/ Fallar
  BY <1>6 DEF CrearVersion, EsperarVersion, VerificarVersion, EsperarEntorno, Fallar, En,
              SiNoFalla, Pasar
<1>7. CASE Promover
  BY <1>7 DEF Promover, En, EBAcepta, ActualizarEntorno
<1>8. CASE Deshacer
  <2>1. CASE Acabar("Failed")
    BY <1>8, <2>1 DEF Acabar
  <2>2. CASE ActualizarEntorno("fuente", "legado") /\ Pasar("esperarRollback")
    BY <1>8, <2>2 DEF Deshacer, En, ActualizarEntorno, Pasar
  <2> QED BY <1>8, <2>1, <2>2 DEF Deshacer
<1>9. CASE ExigirFinal \/ DecidirRollback \/ AcabarRollback \/ Morir
  BY <1>9 DEF ExigirFinal, DecidirRollback, AcabarRollback, Morir, En, Pasar, Acabar
<1>10. CASE \E q \in Promotores : SacarDeLaCola(q)
  BY <1>10 DEF SacarDeLaCola, Nueva
<1>11. CASE UNCHANGED <<entorno, corrida>>
  BY <1>11
<1> QED
  BY <1>1, <1>2, <1>3, <1>4, <1>5, <1>6, <1>7, <1>8, <1>9, <1>10, <1>11
     DEF NextPromocion, Aws, Promotor, Flujo, varsPromocion, BorrarFuente, ProcesarVersion,
         Preflight, ArrancarPipeline, ObservarOculta, ObservarEjecucion, EsperaAgotada, Postflight

(* The end of an execution is told only to the workflow that started it.    *)
LEMMA PasoSeguida ==
  InvPromocion /\ [NextPromocion]_varsPromocion => Seguida'
<1> SUFFICES ASSUME InvPromocion, [NextPromocion]_varsPromocion PROVE Seguida'
  OBVIOUS
<1> USE DEF InvPromocion, TiposPromocion, TipoFlujo, Corridas, Seguida
<1>1. CASE MirarEntorno \/ VerificarObjeto \/ VerificarRollback \/ AsegurarVersion
           \/ MaterializarBundle \/ CrearVersion \/ EsperarVersion \/ VerificarVersion
           \/ Promover \/ EsperarEntorno \/ Fallar
  BY <1>1 DEF MirarEntorno, VerificarObjeto, VerificarRollback, AsegurarVersion,
       MaterializarBundle, CrearVersion, EsperarVersion, VerificarVersion, Promover,
       EsperarEntorno, Fallar, En, SiNoFalla, Pasar
<1>2. CASE ExigirFinal \/ DecidirRollback \/ Deshacer \/ AcabarRollback \/ Morir
  BY <1>2 DEF ExigirFinal, DecidirRollback, Deshacer, AcabarRollback, Morir, En, Pasar, Acabar
<1>3. CASE ActualizarAMano
  BY <1>3 DEF ActualizarAMano
<1>4. CASE Preflight \/ ArrancarPipeline \/ Postflight
  BY <1>4 DEF Preflight, ArrancarPipeline, Postflight
<1>5. CASE ObservarOculta \/ ObservarEjecucion \/ EsperaAgotada
  BY <1>5 DEF ObservarOculta, ObservarEjecucion, EsperaAgotada, Dejar
<1>6. CASE \E q \in Promotores : SacarDeLaCola(q)
  BY <1>6 DEF SacarDeLaCola, Nueva
<1>7. CASE UNCHANGED <<corrida, github>>
  BY <1>7
<1> QED
  BY <1>1, <1>2, <1>3, <1>4, <1>5, <1>6, <1>7
     DEF NextPromocion, Aws, Promotor, Flujo, varsPromocion, TerminarDespliegue, CambiarSalud,
         BorrarFuente, ProcesarVersion

LEMMA InicioPromocion == InitPromocion => InvPromocion
BY DEF InitPromocion, EntornoEn, VersionDe, Contrato, InvPromocion, TiposPromocion, TipoEntorno,
       TipoVersiones, TipoFlujo, VersionesEB, Contenidos, Aprobados, Bueno, Comprobado, Derecho,
       Seguida

LEMMA PasoPromocion == InvPromocion /\ [NextPromocion]_varsPromocion => InvPromocion'
BY PasoTiposPromocion, PasoAprobados, PasoComprobado, PasoDerecho, PasoSeguida DEF InvPromocion

(* What holds between any two calls of a promotion: what a promoter has     *)
(* checked, what it is entitled to replace and what the workflow knows.     *)
THEOREM PromocionInvariante == SpecPromocion => []InvPromocion
BY InicioPromocion, PasoPromocion, PTL DEF SpecPromocion

(* Only the approved release runs, with its own domain contract, for any    *)
(* number of executions, failures and retries, unless an operator writes.   *)
THEOREM PromocionEntornoAprobado == SpecPromocion => []EntornoAprobado
<1>1. InvPromocion => EntornoAprobado
  BY DEF InvPromocion, TiposPromocion, TipoEntorno, Aprobados, Bueno, EntornoAprobado
<1> QED BY <1>1, PromocionInvariante, PTL

(* An update of a promoter replaces only what that promoter may replace.    *)
THEOREM PromocionSinPisar == SpecPromocion => SinPisar
<1> DEFINE Justo ==
      entorno.estado = "Ready" /\ entorno'.estado = "Updating" /\ cuenta'.ajenos = cuenta.ajenos
        /\ ~corrida.intruso
      => IF entorno'.destino.version = "fuente"
           THEN corrida.aceptada /\ entorno.version \in {corrida.quien, "fuente"}
           ELSE corrida.visto = "fuente" /\ entorno.version = "fuente"
<1>1. InvPromocion /\ [NextPromocion]_varsPromocion => [Justo]_varsPromocion
  <2> SUFFICES ASSUME InvPromocion, NextPromocion, entorno.estado = "Ready",
                      entorno'.estado = "Updating", cuenta'.ajenos = cuenta.ajenos,
                      ~corrida.intruso
               PROVE  Justo
    OBVIOUS
  <2> USE DEF InvPromocion, TiposPromocion, TipoEntorno, TipoFlujo, Corridas, Derecho
  <2>1. CASE Promover
    BY <2>1 DEF Promover, En, ActualizarEntorno, AntesDePromover
  <2>2. CASE Deshacer
    <3>1. CASE UNCHANGED entorno
      BY <3>1
    <3>2. CASE ActualizarEntorno("fuente", "legado")
      BY <2>2, <3>2 DEF Deshacer, En, ActualizarEntorno
    <3> QED BY <2>2, <3>1, <3>2 DEF Deshacer
  <2>3. ~TerminarDespliegue /\ ~CambiarSalud /\ ~ActualizarAMano
    BY DEF TerminarDespliegue, CambiarSalud, ActualizarAMano
  <2> QED
    BY <2>1, <2>2, <2>3
       DEF NextPromocion, Aws, Promotor, Flujo, BorrarFuente, ProcesarVersion, MirarEntorno,
           VerificarObjeto, VerificarRollback, AsegurarVersion, MaterializarBundle, CrearVersion,
           EsperarVersion, VerificarVersion, EsperarEntorno, ExigirFinal, Fallar,
           DecidirRollback, AcabarRollback, Morir, Preflight, ArrancarPipeline, ObservarOculta,
           ObservarEjecucion, EsperaAgotada, Postflight, SacarDeLaCola
<1> QED BY <1>1, PromocionInvariante, PTL DEF SpecPromocion, SinPisar

(* A workflow turns green only on the approved candidate, healthy then.     *)
THEOREM PromocionVerdeVeraz == SpecPromocion => VerdeVeraz
<1> DEFINE Veraz ==
      github.paso # "verde" /\ github'.paso = "verde"
      => /\ github.ejecucion = "Succeeded"
         /\ Sana("candidata")
         /\ cuenta.ajenos = 0 => entorno.contrato = "tpi" /\ entorno.contenido = "aprobado"
<1>1. InvPromocion /\ [NextPromocion]_varsPromocion => [Veraz]_varsPromocion
  <2> SUFFICES ASSUME InvPromocion, NextPromocion, github.paso # "verde", github'.paso = "verde"
               PROVE  Veraz
    OBVIOUS
  <2> USE DEF InvPromocion, TiposPromocion, TipoFlujo
  <2>1. Postflight
    BY DEF NextPromocion, Aws, Promotor, Flujo, BorrarFuente, ProcesarVersion, TerminarDespliegue,
           CambiarSalud, ActualizarAMano, MirarEntorno, VerificarObjeto, VerificarRollback,
           AsegurarVersion, MaterializarBundle, CrearVersion, EsperarVersion, VerificarVersion,
           Promover, EsperarEntorno, ExigirFinal, Fallar, DecidirRollback, Deshacer,
           AcabarRollback, Morir, Acabar, Preflight, ArrancarPipeline, ObservarOculta,
           ObservarEjecucion, EsperaAgotada, Dejar, SacarDeLaCola
  <2>2. Sana("candidata")
    BY <2>1 DEF Postflight
  <2> QED BY <2>1, <2>2 DEF Postflight, Seguida, Aprobados, Bueno, Sana, Contrato
<1> QED BY <1>1, PromocionInvariante, PTL DEF SpecPromocion, VerdeVeraz

-----------------------------------------------------------------------------
(* The bucket of the attachments: types *)

AjustesBucket == [ajustes : BOOLEAN, politica : {"falta", "otra", "esperada"}, versionado : BOOLEAN]

PermisosDeGuardDuty == [confianza : BOOLEAN, permisos : BOOLEAN]

Escaneos == {"ausente", "sin_plan", "sin_escanear", "sin_amenazas", "amenaza"}

DeAplicar ==
  {"bucket", "ajustes", "rol", "permisos_del_rol", "permiso_de_la_app", "politica", "plan",
   "crear_plan", "esperar_plan"}

DeRevertir ==
  {"listar", "borrar_plan", "quitar_permiso", "quitar_politica", "vaciar", "borrar_rol"}

PasosInfra ==
  {"bucket", "ajustes", "rol", "permisos_del_rol", "permiso_de_la_app", "politica", "plan",
   "crear_plan", "esperar_plan", "probar", "leer", "probar_eicar", "esperar_escaneo",
   "permiso_final", "listar", "borrar_plan", "quitar_permiso", "quitar_politica", "vaciar",
   "borrar_rol"}

Ordenes ==
  [paso : PasosInfra, listado : BOOLEAN, recreado : BOOLEAN,
   intentos : Nat, planAjeno : BOOLEAN, falla : BOOLEAN]

TipoRecursos ==
  /\ bucket \in {NoHay} \cup AjustesBucket
  /\ rolGD \in {NoHay} \cup PermisosDeGuardDuty
  /\ permiso \in {"falta", "otro", "esperado"}
  /\ plan \in {NoHay} \cup [estado : {"PENDING", "ACTIVE", "ERROR"}, conforme : BOOLEAN]
  /\ objetos \in [Objetos -> Escaneos]

TipoOrden ==
  /\ orden \in {NoHay} \cup Ordenes
  /\ hist \in [ordenes : Nat, recreado : Nat, aplicado : BOOLEAN, pasa : BOOLEAN,
               tarde : SUBSET Adjuntos, perdidos : SUBSET Adjuntos]

TiposInfra == TipoRecursos /\ TipoOrden

(* How far apply has come. *)
AplicadoHasta ==
  orden # NoHay =>
    /\ orden.paso \in DeAplicar \ {"bucket"} => bucket # NoHay
    /\ orden.paso \in DeAplicar \ {"bucket", "ajustes"} => bucket.ajustes /\ ~bucket.versionado
    /\ orden.paso \in DeAplicar \ {"bucket", "ajustes", "rol"} => rolGD # NoHay /\ rolGD.confianza
    /\ orden.paso \in {"permiso_de_la_app", "politica", "plan", "crear_plan", "esperar_plan"}
       => rolGD.permisos
    /\ orden.paso \in {"politica", "plan", "crear_plan", "esperar_plan"}
       => permiso = "esperado" \/ orden.recreado
    /\ orden.paso \in {"plan", "crear_plan", "esperar_plan"} => bucket.politica = "esperada"
    /\ orden.paso = "esperar_plan" /\ plan # NoHay => plan.conforme \/ orden.planAjeno

(* What verify has seen. *)
VerificadoHasta ==
  orden # NoHay =>
    /\ orden.paso \in {"leer", "probar_eicar", "esperar_escaneo"}
         /\ objetos["limpio"] = "sin_amenazas" => PlanActivo
    /\ orden.paso = "permiso_final" /\ ~orden.falla => PlanActivo /\ bucket.politica = "esperada"

(* How far a rollback has come, and which attachments it can meet. *)
RevertidoHasta ==
  /\ orden # NoHay =>
       /\ orden.paso \in DeRevertir \ {"listar"} => orden.listado
       /\ orden.listado => Reales \subseteq hist.tarde
       /\ orden.paso \in {"quitar_politica", "vaciar"} => bucket # NoHay /\ permiso = "falta"
  /\ bucket = NoHay => Reales = {}

InvInfra == TiposInfra /\ AplicadoHasta /\ VerificadoHasta /\ RevertidoHasta /\ BucketSeguro

(* The bucket of the attachments: the types hold at every step *)

LEMMA PasoTipoRecursos ==
  InvInfra /\ [NextInfra]_varsInfra => TipoRecursos'
<1> SUFFICES ASSUME InvInfra, [NextInfra]_varsInfra PROVE TipoRecursos'
  OBVIOUS
<1> USE DEF InvInfra, TiposInfra, TipoRecursos, AjustesBucket, PermisosDeGuardDuty
<1>0. Subido \in Escaneos
  BY DEF Subido, Escaneos
<1>1. CASE Mundo
  BY <1>0, <1>1 DEF Mundo, SubirAdjunto, Escanear, PlanCambia, RecrearEntorno, Escaneos
<1>2. CASE Aplicar
  <2>1. CASE AplicarBucket
    BY <2>1 DEF AplicarBucket
  <2>2. CASE AplicarAjustes
    BY <2>2 DEF AplicarAjustes, EnPaso, AplicadoHasta, DeAplicar
  <2>3. CASE AplicarPolitica
    BY <2>3 DEF AplicarPolitica, EnPaso, AplicadoHasta, DeAplicar
  <2>4. CASE AplicarRol
    BY <2>4 DEF AplicarRol
  <2>5. CASE AplicarPermisosDelRol
    BY <2>5 DEF AplicarPermisosDelRol, EnPaso, AplicadoHasta, DeAplicar
  <2>6. CASE AplicarPermisoApp
    BY <2>6 DEF AplicarPermisoApp
  <2>7. CASE CrearPlan
    <3>1. /\ plan' = [estado |-> "PENDING", conforme |-> TRUE] \/ plan' = plan
          /\ UNCHANGED <<bucket, rolGD, permiso, objetos>>
      BY <2>7, Zenon DEF CrearPlan
    <3>2. plan' \in {NoHay} \cup [estado : {"PENDING", "ACTIVE", "ERROR"}, conforme : BOOLEAN]
      <4>1. [estado |-> "PENDING", conforme |-> TRUE]
              \in [estado : {"PENDING", "ACTIVE", "ERROR"}, conforme : BOOLEAN]
        OBVIOUS
      <4> QED BY <3>1, <4>1, Zenon
    <3> QED BY <3>1, <3>2, Zenon
  <2>8. CASE UNCHANGED recursos
    BY <2>8 DEF recursos
  <2> QED
    BY <1>2, <2>1, <2>5, <2>2, <2>3, <2>4, <2>6, <2>7, <2>8 DEF Aplicar, BuscarPlan, EsperarPlan
<1>3. CASE Verificar \/ Abortar
  <2>1. objetos' \in [Objetos -> Escaneos]
    BY <1>0, <1>3 DEF Verificar, Abortar, SubirLimpio, LeerSinEscanear, SubirEicar,
         EsperarEscaneo, SimularPermiso, recursos, Escaneos
  <2> QED
    BY <1>3, <2>1 DEF Verificar, Abortar, SubirLimpio, LeerSinEscanear, SubirEicar,
         EsperarEscaneo, SimularPermiso, recursos
<1>4. CASE Revertir
  <2>1. CASE QuitarPolitica \/ BorrarBucket
    BY <2>1 DEF QuitarPolitica, BorrarBucket, EnPaso, RevertidoHasta
  <2>2. CASE BorrarRol
    BY <2>2 DEF BorrarRol
  <2>3. CASE BorrarPlan \/ QuitarPermiso \/ ListarAdjuntos \/ \E o \in Objetos : VaciarBucket(o)
    BY <2>3 DEF BorrarPlan, QuitarPermiso, ListarAdjuntos, VaciarBucket, recursos, Escaneos
  <2> QED BY <1>4, <2>1, <2>2, <2>3 DEF Revertir
<1>5. CASE UNCHANGED recursos
  BY <1>5 DEF recursos
<1> QED BY <1>1, <1>2, <1>3, <1>4, <1>5 DEF NextInfra, Empezar, varsInfra, recursos

LEMMA PasoTipoOrden ==
  TiposInfra /\ [NextInfra]_varsInfra => TipoOrden'
<1> SUFFICES ASSUME TiposInfra, [NextInfra]_varsInfra PROVE TipoOrden'
  OBVIOUS
<1> USE DEF TiposInfra, TipoOrden
<1>1. ASSUME orden # NoHay, NEW paso \in PasosInfra, Ir(paso) PROVE orden' \in Ordenes
  BY <1>1 DEF Ir, Ordenes
<1>2. ASSUME FinDeOrden PROVE orden' = NoHay
  BY <1>2 DEF FinDeOrden
<1> USE DEF PasosInfra
<1>3. CASE Mundo
  <2>1. ASSUME NEW o \in Adjuntos, SubirAdjunto(o) PROVE TipoOrden'
    BY <2>1 DEF SubirAdjunto
  <2>2. CASE RecrearEntorno
    <3>1. hist' \in [ordenes : Nat, recreado : Nat, aplicado : BOOLEAN, pasa : BOOLEAN,
                     tarde : SUBSET Adjuntos, perdidos : SUBSET Adjuntos]
      BY <2>2 DEF RecrearEntorno
    <3>2. orden' \in {NoHay} \cup Ordenes
      BY <2>2 DEF RecrearEntorno, Ordenes
    <3> QED BY <3>1, <3>2
  <2>3. CASE UNCHANGED <<orden, hist>>
    BY <2>3
  <2> QED BY <1>3, <2>1, <2>2, <2>3 DEF Mundo, Escanear, PlanCambia
<1>4. CASE Empezar
  <2>1. hist.ordenes + 1 \in Nat
    OBVIOUS
  <2>2. PICK n \in Nat : hist' = [hist EXCEPT !.ordenes = n, !.pasa = FALSE]
    BY <1>4, <2>1, Zenon DEF Empezar
  <2>3. PICK paso \in {"bucket", "probar", "listar"} :
          orden' = [paso |-> paso, listado |-> FALSE, recreado |-> FALSE, intentos |-> 0,
                    planAjeno |-> FALSE, falla |-> FALSE]
    BY <1>4, Zenon DEF Empezar
  <2>4. orden' \in Ordenes
    BY <2>3 DEF Ordenes
  <2> QED BY <2>2, <2>4
<1>5. CASE Abortar
  BY <1>2, <1>5 DEF Abortar
<1>6. CASE Aplicar
  <2>1. CASE AplicarBucket \/ AplicarAjustes \/ AplicarRol \/ AplicarPermisosDelRol
             \/ AplicarPolitica
    BY <1>1, <1>2, <2>1 DEF AplicarBucket, AplicarAjustes, AplicarRol, AplicarPermisosDelRol,
         AplicarPolitica, EnPaso
  <2>2. CASE AplicarPermisoApp
    BY <1>1, <2>2 DEF AplicarPermisoApp, EnPaso
  <2>3. CASE BuscarPlan
    BY <2>3 DEF BuscarPlan, EnPaso, Ordenes
  <2>4. CASE CrearPlan
    <3>1. CASE orden' = [orden EXCEPT !.intentos = @ + 1]
      <4>1. orden \in Ordenes /\ UNCHANGED hist
        BY <2>4, Zenon DEF CrearPlan, EnPaso
      <4>2. orden.intentos + 1 \in Nat
        BY <4>1 DEF Ordenes
      <4>3. PICK n \in Nat : orden' = [orden EXCEPT !.intentos = n]
        BY <3>1, <4>2, Zenon
      <4> QED BY <4>1, <4>3 DEF Ordenes
    <3>2. CASE Ir("esperar_plan") \/ FinDeOrden
      BY <1>1, <1>2, <2>4, <3>2 DEF CrearPlan, EnPaso
    <3> QED BY <2>4, <3>1, <3>2 DEF CrearPlan
  <2>5. CASE EsperarPlan
    BY <1>2, <2>5 DEF EsperarPlan
  <2> QED BY <1>6, <2>1, <2>2, <2>3, <2>4, <2>5 DEF Aplicar
<1>7. CASE Verificar
  <2>1. CASE SubirLimpio \/ SubirEicar
    BY <1>1, <2>1 DEF SubirLimpio, SubirEicar, EnPaso
  <2>2. CASE LeerSinEscanear
    BY <2>2 DEF LeerSinEscanear, EnPaso, Ordenes
  <2>3. CASE EsperarEscaneo
    BY <2>3 DEF EsperarEscaneo, EnPaso, Ordenes
  <2>4. CASE SimularPermiso
    BY <1>2, <2>4 DEF SimularPermiso
  <2> QED BY <1>7, <2>1, <2>2, <2>3, <2>4 DEF Verificar
<1>8. CASE Revertir
  <2>1. CASE ListarAdjuntos
    BY <2>1 DEF ListarAdjuntos, EnPaso, Ordenes
  <2>2. CASE BorrarPlan \/ QuitarPermiso \/ QuitarPolitica
    BY <1>1, <2>2 DEF BorrarPlan, QuitarPermiso, QuitarPolitica, EnPaso
  <2>3. ASSUME NEW o \in Objetos, VaciarBucket(o) PROVE TipoOrden'
    BY <2>3 DEF VaciarBucket
  <2>4. CASE BorrarBucket
    BY <1>1, <2>4 DEF BorrarBucket, EnPaso
  <2>5. CASE BorrarRol
    BY <1>2, <2>5 DEF BorrarRol
  <2> QED BY <1>8, <2>1, <2>2, <2>3, <2>4, <2>5 DEF Revertir
<1>9. CASE UNCHANGED varsInfra
  BY <1>9 DEF varsInfra
<1> QED BY <1>3, <1>4, <1>5, <1>6, <1>7, <1>8, <1>9 DEF NextInfra

(* The bucket of the attachments: each conjunct of the invariant *)

(* The field of the command that a step of it changes. *)
LEMMA CampoDeOrden ==
  ASSUME TipoOrden, orden # NoHay, NEW paso \in PasosInfra, Ir(paso)
  PROVE  /\ orden' \in Ordenes /\ orden'.paso = paso
         /\ orden'.listado = orden.listado /\ orden'.recreado = orden.recreado
         /\ orden'.planAjeno = orden.planAjeno /\ orden'.falla = orden.falla
BY DEF TipoOrden, Ordenes, Ir

(* The field of the bucket that a step changes. *)
LEMMA CampoDelBucket ==
  ASSUME TipoRecursos, bucket # NoHay, NEW p \in {"falta", "otra", "esperada"}
  PROVE  /\ bucket' = [bucket EXCEPT !.politica = p]
            => /\ bucket' # NoHay /\ bucket'.politica = p
               /\ bucket'.ajustes = bucket.ajustes /\ bucket'.versionado = bucket.versionado
         /\ bucket' = [bucket EXCEPT !.ajustes = TRUE]
            => /\ bucket' # NoHay /\ bucket'.ajustes
               /\ bucket'.politica = bucket.politica /\ bucket'.versionado = bucket.versionado
<1>1. bucket \in AjustesBucket
  BY DEF TipoRecursos
<1>2. NoHay \notin AjustesBucket
  BY BoundsInfra, Zenon DEF AjustesBucket
<1>3. ASSUME bucket' = [bucket EXCEPT !.politica = p]
      PROVE  /\ bucket' \in AjustesBucket /\ bucket'.politica = p
             /\ bucket'.ajustes = bucket.ajustes /\ bucket'.versionado = bucket.versionado
  BY <1>1, <1>3 DEF AjustesBucket
<1>4. ASSUME bucket' = [bucket EXCEPT !.ajustes = TRUE]
      PROVE  /\ bucket' \in AjustesBucket /\ bucket'.ajustes
             /\ bucket'.politica = bucket.politica /\ bucket'.versionado = bucket.versionado
  BY <1>1, <1>4 DEF AjustesBucket
<1> QED BY <1>2, <1>3, <1>4, Zenon

(* What apply has put in place stays until it ends: one command at a time,  *)
(* and only the environment takes something away, the permission.           *)
LEMMA PasoAplicado ==
  InvInfra /\ [NextInfra]_varsInfra => AplicadoHasta'
<1> SUFFICES ASSUME InvInfra, [NextInfra]_varsInfra PROVE AplicadoHasta'
  OBVIOUS
<1>0. TipoRecursos /\ TipoOrden /\ AplicadoHasta
  BY DEF InvInfra, TiposInfra
<1>a. orden # NoHay => orden \in Ordenes
  BY <1>0 DEF TipoOrden
<1>1. CASE Mundo
  BY <1>0, <1>a, <1>1
     DEF Mundo, SubirAdjunto, Escanear, PlanCambia, RecrearEntorno, AplicadoHasta, DeAplicar,
         Ordenes, TipoRecursos
<1>2. CASE Empezar
  BY <1>2 DEF Empezar, AplicadoHasta, DeAplicar
<1>3. ASSUME FinDeOrden PROVE AplicadoHasta'
  BY <1>3 DEF FinDeOrden, AplicadoHasta
<1>4. ASSUME orden # NoHay, NEW paso \in PasosInfra \ DeAplicar, Ir(paso) PROVE AplicadoHasta'
  BY <1>0, <1>4, CampoDeOrden DEF AplicadoHasta, DeAplicar
<1>5. CASE AplicarBucket
  <2>1. bucket' # NoHay
    <3>1. [ajustes |-> FALSE, politica |-> "falta", versionado |-> FALSE] \in AjustesBucket
      BY DEF AjustesBucket
    <3> QED BY <1>5, <3>1, BoundsInfra, Zenon DEF AplicarBucket, AjustesBucket
  <2>2. orden'.paso = "ajustes"
    BY <1>0, <1>5, CampoDeOrden DEF AplicarBucket, EnPaso, PasosInfra
  <2> QED BY <2>1, <2>2 DEF AplicadoHasta, DeAplicar
<1>6. CASE AplicarAjustes
  <2>1. bucket # NoHay /\ bucket \in AjustesBucket
    BY <1>0, <1>6 DEF AplicarAjustes, EnPaso, AplicadoHasta, DeAplicar, TipoRecursos
  <2>2. bucket' # NoHay /\ bucket'.ajustes /\ bucket'.versionado = bucket.versionado
    BY <1>0, <1>6, <2>1, CampoDelBucket DEF AplicarAjustes
  <2>3. CASE ~bucket.versionado /\ Ir("rol")
    <3>1. orden'.paso = "rol"
      BY <1>0, <1>6, <2>3, CampoDeOrden DEF AplicarAjustes, EnPaso, PasosInfra
    <3> QED BY <2>2, <2>3, <3>1 DEF AplicadoHasta, DeAplicar
  <2> QED BY <1>3, <1>6, <2>3, Zenon DEF AplicarAjustes
<1>7. CASE AplicarRol
  <2>1. rolGD' # NoHay /\ rolGD'.confianza /\ UNCHANGED bucket
    <3>1. PICK b \in BOOLEAN : rolGD' = [confianza |-> TRUE, permisos |-> b]
      BY <1>7, Zenon DEF AplicarRol
    <3>2. rolGD' \in PermisosDeGuardDuty /\ rolGD'.confianza
      BY <3>1 DEF PermisosDeGuardDuty
    <3> QED BY <1>7, <3>2, BoundsInfra, Zenon DEF AplicarRol, PermisosDeGuardDuty
  <2>2. orden'.paso = "permisos_del_rol"
    BY <1>0, <1>7, CampoDeOrden DEF AplicarRol, EnPaso, PasosInfra
  <2>3. orden # NoHay /\ orden.paso = "rol"
    BY <1>7 DEF AplicarRol, EnPaso
  <2> QED BY <1>0, <2>1, <2>2, <2>3 DEF AplicadoHasta, DeAplicar
<1>8. CASE AplicarPermisosDelRol
  <2>1. orden # NoHay /\ orden.paso = "permisos_del_rol" /\ rolGD # NoHay
    BY <1>0, <1>8 DEF AplicarPermisosDelRol, EnPaso, AplicadoHasta, DeAplicar
  <2>2. rolGD' # NoHay /\ rolGD'.permisos /\ rolGD'.confianza = rolGD.confianza /\ UNCHANGED bucket
    BY <1>0, <1>8, <2>1, BoundsInfra DEF AplicarPermisosDelRol, TipoRecursos, PermisosDeGuardDuty
  <2>3. orden'.paso = "permiso_de_la_app"
    BY <1>0, <1>8, <2>1, CampoDeOrden DEF AplicarPermisosDelRol, PasosInfra
  <2> QED BY <1>0, <2>1, <2>2, <2>3 DEF AplicadoHasta, DeAplicar
<1>9. CASE AplicarPermisoApp
  <2>1. orden # NoHay /\ orden.paso = "permiso_de_la_app"
    BY <1>9 DEF AplicarPermisoApp, EnPaso
  <2>2. orden'.paso = "politica" /\ permiso' = "esperado" /\ UNCHANGED <<bucket, rolGD>>
    BY <1>0, <1>9, <2>1, CampoDeOrden DEF AplicarPermisoApp, PasosInfra
  <2> QED BY <1>0, <2>1, <2>2 DEF AplicadoHasta, DeAplicar
<1>10. CASE AplicarPolitica
  <2>1. orden # NoHay /\ orden.paso = "politica" /\ bucket # NoHay
    BY <1>0, <1>10 DEF AplicarPolitica, EnPaso, AplicadoHasta, DeAplicar
  <2>2. /\ bucket' # NoHay /\ bucket'.politica = "esperada"
        /\ bucket'.ajustes = bucket.ajustes /\ bucket'.versionado = bucket.versionado
    BY <1>0, <1>10, <2>1, CampoDelBucket DEF AplicarPolitica
  <2>3. /\ orden'.paso = "plan" /\ orden'.recreado = orden.recreado
        /\ UNCHANGED <<rolGD, permiso>>
    BY <1>0, <1>10, <2>1, CampoDeOrden DEF AplicarPolitica, PasosInfra
  <2> QED BY <1>0, <2>1, <2>2, <2>3 DEF AplicadoHasta, DeAplicar
<1>11. CASE BuscarPlan
  <2>1. /\ orden # NoHay /\ orden.paso = "plan"
        /\ UNCHANGED <<bucket, rolGD, permiso, plan>>
    BY <1>11 DEF BuscarPlan, EnPaso, recursos
  <2>2. /\ orden'.paso = IF plan = NoHay THEN "crear_plan" ELSE "esperar_plan"
        /\ orden'.recreado = orden.recreado /\ orden'.planAjeno = (plan # NoHay)
    BY <1>a, <1>11, <2>1 DEF BuscarPlan, Ordenes
  <2> QED BY <1>0, <2>1, <2>2 DEF AplicadoHasta, DeAplicar
<1>12. CASE CrearPlan
  <2>1. orden # NoHay /\ orden.paso = "crear_plan" /\ UNCHANGED <<bucket, rolGD, permiso>>
    BY <1>12 DEF CrearPlan, EnPaso
  <2>2. CASE plan' = [estado |-> "PENDING", conforme |-> TRUE] /\ Ir("esperar_plan")
    <3>1. orden'.paso = "esperar_plan" /\ orden'.recreado = orden.recreado
      BY <1>0, <2>1, <2>2, CampoDeOrden DEF PasosInfra
    <3>2. plan'.conforme
      BY <2>2
    <3> QED BY <1>0, <2>1, <3>1, <3>2 DEF AplicadoHasta, DeAplicar
  <2>3. CASE orden' = [orden EXCEPT !.intentos = @ + 1] /\ UNCHANGED plan
    <3>1. orden'.paso = "crear_plan" /\ orden'.recreado = orden.recreado
      BY <1>a, <2>1, <2>3 DEF Ordenes
    <3> QED BY <1>0, <2>1, <3>1 DEF AplicadoHasta, DeAplicar
  <2> QED BY <1>3, <1>12, <2>2, <2>3, Zenon DEF CrearPlan
<1>13. CASE Verificar \/ Revertir
  <2>1. CASE SubirLimpio \/ SubirEicar
    BY <1>4, <2>1 DEF SubirLimpio, SubirEicar, EnPaso, PasosInfra, DeAplicar
  <2>2. CASE LeerSinEscanear
    BY <1>a, <2>2 DEF LeerSinEscanear, EnPaso, Ordenes, AplicadoHasta, DeAplicar
  <2>3. CASE EsperarEscaneo
    BY <1>a, <2>3 DEF EsperarEscaneo, EnPaso, Ordenes, AplicadoHasta, DeAplicar
  <2>4. CASE ListarAdjuntos
    BY <1>a, <2>4 DEF ListarAdjuntos, EnPaso, Ordenes, AplicadoHasta, DeAplicar
  <2>5. CASE BorrarPlan \/ QuitarPermiso \/ QuitarPolitica \/ BorrarBucket
    BY <1>4, <2>5
       DEF BorrarPlan, QuitarPermiso, QuitarPolitica, BorrarBucket, EnPaso, PasosInfra, DeAplicar
  <2>6. ASSUME NEW o \in Objetos, VaciarBucket(o) PROVE AplicadoHasta'
    BY <2>6 DEF VaciarBucket, EnPaso, AplicadoHasta, DeAplicar
  <2>7. CASE BorrarRol
    <3>1. CASE UNCHANGED orden
      BY <2>7, <3>1 DEF BorrarRol, EnPaso, AplicadoHasta, DeAplicar
    <3> QED BY <1>3, <2>7, <3>1, Zenon DEF BorrarRol
  <2> QED
    BY <1>3, <1>13, <2>1, <2>2, <2>3, <2>4, <2>5, <2>6, <2>7, Zenon
       DEF Verificar, Revertir, SimularPermiso
<1>14. CASE UNCHANGED varsInfra
  BY <1>0, <1>14 DEF varsInfra, AplicadoHasta
<1> QED
  BY <1>1, <1>2, <1>3, <1>5, <1>6, <1>7, <1>8, <1>9, <1>10, <1>11, <1>12, <1>13, <1>14, Zenon
     DEF NextInfra, Aplicar, Abortar, EsperarPlan

(* An object without threads was scanned after its upload, so the plan was  *)
(* active, and an active plan goes away with a rollback only.               *)
LEMMA PasoVerificado ==
  InvInfra /\ [NextInfra]_varsInfra => VerificadoHasta'
<1> SUFFICES ASSUME InvInfra, [NextInfra]_varsInfra PROVE VerificadoHasta'
  OBVIOUS
<1> USE DEF InvInfra, TiposInfra, TipoRecursos, TipoOrden, Ordenes, VerificadoHasta,
            PlanActivo
<1>1. CASE Mundo
  <2>1. ASSUME NEW o \in Adjuntos, SubirAdjunto(o) PROVE VerificadoHasta'
    BY <2>1 DEF SubirAdjunto, Subido
  <2>2. ASSUME NEW o \in Objetos, Escanear(o) PROVE VerificadoHasta'
    BY <2>2 DEF Escanear
  <2>3. CASE PlanCambia \/ RecrearEntorno
    BY <2>3 DEF PlanCambia, RecrearEntorno
  <2> QED BY <1>1, <2>1, <2>2, <2>3 DEF Mundo
<1>2. CASE Empezar
  BY <1>2 DEF Empezar
<1>3. CASE Abortar
  BY <1>3 DEF Abortar, FinDeOrden
<1>4. CASE Aplicar
  <2>1. CASE AplicarBucket \/ AplicarAjustes \/ AplicarRol \/ AplicarPermisosDelRol
             \/ AplicarPermisoApp \/ AplicarPolitica
    BY <2>1 DEF AplicarBucket, AplicarAjustes, AplicarRol, AplicarPermisosDelRol,
         AplicarPermisoApp, AplicarPolitica, EnPaso, Ir, FinDeOrden
  <2>2. CASE BuscarPlan \/ CrearPlan \/ EsperarPlan
    BY <2>2 DEF BuscarPlan, CrearPlan, EsperarPlan, EnPaso, Ir, FinDeOrden
  <2> QED BY <1>4, <2>1, <2>2 DEF Aplicar
<1>5. CASE SubirLimpio
  BY <1>5 DEF SubirLimpio, Subido, Objetos, Pruebas, EnPaso, Ir
<1>6. CASE LeerSinEscanear \/ SubirEicar
  BY <1>6 DEF LeerSinEscanear, SubirEicar, recursos, Objetos, Pruebas, EnPaso, Ir
<1>7. CASE EsperarEscaneo
  BY <1>7 DEF EsperarEscaneo, EnPaso
<1>8. CASE SimularPermiso
  BY <1>8 DEF SimularPermiso, FinDeOrden
<1>9. CASE Revertir
  BY <1>9 DEF Revertir, ListarAdjuntos, BorrarPlan, QuitarPermiso, QuitarPolitica, VaciarBucket,
              BorrarBucket, BorrarRol, EnPaso, Ir, FinDeOrden
<1>10. CASE UNCHANGED varsInfra
  BY <1>10 DEF varsInfra
<1> QED
  BY <1>1, <1>2, <1>3, <1>4, <1>5, <1>6, <1>7, <1>8, <1>9, <1>10 DEF NextInfra, Verificar

(* Apply, verify and the end of a command take no attachment away, nor the  *)
(* bucket, and do not enter the second half of a rollback.                  *)
LEMMA NadaDeshace ==
  ASSUME InvInfra, Aplicar \/ Verificar \/ Abortar
  PROVE  /\ Reales' = Reales /\ hist'.tarde = hist.tarde
         /\ bucket' = NoHay => bucket = NoHay
         /\ \/ orden' = NoHay
            \/ /\ orden # NoHay /\ orden'.listado = orden.listado
               /\ orden'.paso \notin DeRevertir \ {"listar"}
<1>0. TipoRecursos /\ TipoOrden /\ AplicadoHasta
  BY DEF InvInfra, TiposInfra
<1>a. orden # NoHay => orden \in Ordenes
  BY <1>0 DEF TipoOrden
<1>1. Reales' = Reales
  <2>1. CASE Aplicar \/ UNCHANGED objetos
    BY <2>1
       DEF Aplicar, AplicarBucket, AplicarAjustes, AplicarRol, AplicarPermisosDelRol,
           AplicarPermisoApp, AplicarPolitica, BuscarPlan, CrearPlan, EsperarPlan, recursos, Reales
  <2>2. CASE \/ objetos' = [objetos EXCEPT !["limpio"] = Subido]
             \/ objetos' = [objetos EXCEPT !["eicar"] = Subido]
             \/ objetos' = [o \in Objetos |-> IF o \in Pruebas THEN "ausente" ELSE objetos[o]]
    BY <1>0, <2>2, BoundsInfra DEF Reales, Pruebas, Objetos, TipoRecursos
  <2> QED
    BY <2>1, <2>2, Zenon
       DEF Verificar, SubirLimpio, LeerSinEscanear, SubirEicar, EsperarEscaneo, SimularPermiso,
           Abortar, recursos
<1>2. hist'.tarde = hist.tarde
  BY <1>0
     DEF Aplicar, AplicarBucket, AplicarAjustes, AplicarRol, AplicarPermisosDelRol, AplicarPermisoApp,
         AplicarPolitica, BuscarPlan, CrearPlan, EsperarPlan, Verificar, SubirLimpio,
         LeerSinEscanear, SubirEicar, EsperarEscaneo, SimularPermiso, Abortar, TipoOrden
<1>3. bucket' = NoHay => bucket = NoHay
  BY <1>0, CampoDelBucket, BoundsInfra, Zenon
     DEF Aplicar, AplicarBucket, AplicarAjustes, AplicarRol, AplicarPermisosDelRol, AplicarPermisoApp,
         AplicarPolitica, BuscarPlan, CrearPlan, EsperarPlan, Verificar, SubirLimpio, LeerSinEscanear,
         SubirEicar, EsperarEscaneo, SimularPermiso, Abortar, recursos
<1>4. \/ orden' = NoHay
      \/ /\ orden # NoHay /\ orden'.listado = orden.listado
         /\ orden'.paso \notin DeRevertir \ {"listar"}
  <2>1. ASSUME orden # NoHay, NEW paso \in PasosInfra \ DeRevertir, Ir(paso)
        PROVE  orden'.listado = orden.listado /\ orden'.paso \notin DeRevertir \ {"listar"}
    BY <1>0, <2>1, CampoDeOrden
  <2>2. CASE AplicarBucket \/ AplicarAjustes \/ AplicarRol \/ AplicarPermisosDelRol
             \/ AplicarPermisoApp \/ AplicarPolitica \/ SubirLimpio \/ SubirEicar
    BY <2>1, <2>2
       DEF AplicarBucket, AplicarAjustes, AplicarRol, AplicarPermisosDelRol, AplicarPermisoApp,
           AplicarPolitica, SubirLimpio, SubirEicar, EnPaso, FinDeOrden, PasosInfra, DeRevertir
  <2>3. CASE BuscarPlan
    BY <1>a, <2>3 DEF BuscarPlan, EnPaso, Ordenes, DeRevertir
  <2>4. CASE CrearPlan
    <3>1. CASE orden' = [orden EXCEPT !.intentos = @ + 1]
      BY <1>a, <2>4, <3>1 DEF CrearPlan, EnPaso, Ordenes, DeRevertir
    <3> QED
      BY <2>1, <2>4, <3>1 DEF CrearPlan, EnPaso, FinDeOrden, PasosInfra, DeRevertir
  <2>5. CASE LeerSinEscanear
    BY <1>a, <2>5 DEF LeerSinEscanear, EnPaso, Ordenes, DeRevertir
  <2>6. CASE EsperarEscaneo
    BY <1>a, <2>6 DEF EsperarEscaneo, EnPaso, Ordenes, DeRevertir
  <2> QED
    BY <2>2, <2>3, <2>4, <2>5, <2>6, Zenon
       DEF Aplicar, Verificar, Abortar, EsperarPlan, SimularPermiso, FinDeOrden
<1> QED BY <1>1, <1>2, <1>3, <1>4

(* Past its look at the bucket a rollback meets only attachments that came  *)
(* later, and once it took the permission nobody gives it back.             *)
LEMMA PasoRevertido ==
  InvInfra /\ [NextInfra]_varsInfra => RevertidoHasta'
<1> SUFFICES ASSUME InvInfra, [NextInfra]_varsInfra PROVE RevertidoHasta'
  OBVIOUS
<1>0. TipoRecursos /\ TipoOrden /\ RevertidoHasta /\ Adjuntos \subseteq Objetos
  BY DEF InvInfra, TiposInfra, Objetos
<1>a. orden # NoHay => orden \in Ordenes
  BY <1>0 DEF TipoOrden
<1>1. CASE Mundo
  <2>1. ASSUME NEW o \in Adjuntos, SubirAdjunto(o) PROVE RevertidoHasta'
    <3>1. Reales' \subseteq Reales \cup {o} /\ UNCHANGED <<bucket, permiso, orden>> /\ bucket # NoHay
      BY <1>0, <2>1 DEF SubirAdjunto, Reales, TipoRecursos
    <3>2. hist.tarde \subseteq hist'.tarde /\ (orden # NoHay /\ orden.listado => o \in hist'.tarde)
      BY <1>0, <2>1 DEF SubirAdjunto, TipoOrden
    <3> QED BY <1>0, <3>1, <3>2 DEF RevertidoHasta
  <2>2. ASSUME NEW o \in Objetos, Escanear(o) PROVE RevertidoHasta'
    BY <1>0, <2>2 DEF Escanear, RevertidoHasta, Reales, TipoRecursos
  <2>3. CASE PlanCambia
    BY <1>0, <2>3 DEF PlanCambia, RevertidoHasta, Reales
  <2>4. CASE RecrearEntorno
    <3>1. UNCHANGED <<bucket, Reales>> /\ permiso' = "falta" /\ hist'.tarde = hist.tarde
      BY <1>0, <2>4 DEF RecrearEntorno, TipoOrden, Reales
    <3>2. \/ orden' = NoHay
          \/ orden # NoHay /\ orden'.paso = orden.paso /\ orden'.listado = orden.listado
      BY <1>a, <2>4 DEF RecrearEntorno, Ordenes
    <3> QED BY <1>0, <3>1, <3>2 DEF RevertidoHasta
  <2> QED BY <1>1, <2>1, <2>2, <2>3, <2>4 DEF Mundo
<1>2. CASE Empezar
  <2>1. /\ orden'.paso \in {"bucket", "probar", "listar"} /\ ~orden'.listado
        /\ UNCHANGED <<bucket, Reales>>
    BY <1>2 DEF Empezar, recursos, Reales
  <2> QED BY <1>0, <2>1 DEF RevertidoHasta, DeRevertir
<1>3. CASE Aplicar \/ Verificar \/ Abortar
  BY <1>0, <1>3, NadaDeshace DEF RevertidoHasta, DeRevertir
<1>4. CASE Revertir
  <2>1. CASE ListarAdjuntos
    <3>1. UNCHANGED <<bucket, permiso, Reales, hist>> /\ orden # NoHay
      BY <2>1 DEF ListarAdjuntos, EnPaso, recursos, Reales
    <3>2. \/ orden' = NoHay
          \/ orden'.paso = "borrar_plan" /\ (bucket # NoHay => Reales = {})
      BY <1>a, <2>1, <3>1 DEF ListarAdjuntos, Ordenes
    <3>3. orden' # NoHay => orden'.listado
      BY <1>a, <2>1, <3>1 DEF ListarAdjuntos, Ordenes
    <3> QED BY <1>0, <3>1, <3>2, <3>3 DEF RevertidoHasta, DeRevertir
  <2>2. ASSUME NEW paso \in PasosInfra, Ir(paso), UNCHANGED hist,
               Reales' = Reales, bucket' = NoHay => bucket = NoHay,
               orden # NoHay /\ orden.paso \in DeRevertir \ {"listar"},
               paso \in {"quitar_politica", "vaciar"} => bucket' # NoHay /\ permiso' = "falta"
        PROVE  RevertidoHasta'
    <3>1. orden'.paso = paso /\ orden'.listado = orden.listado
      BY <1>0, <2>2, CampoDeOrden
    <3> QED BY <1>0, <2>2, <3>1 DEF RevertidoHasta
  <2>3. CASE BorrarPlan \/ QuitarPermiso
    <3>1. UNCHANGED <<bucket, Reales, hist>> /\ orden # NoHay /\ orden.paso \in DeRevertir \ {"listar"}
      BY <2>3 DEF BorrarPlan, QuitarPermiso, EnPaso, DeRevertir, Reales
    <3>2. CASE BorrarPlan
      BY <2>2, <3>1, <3>2 DEF BorrarPlan, PasosInfra
    <3>3. CASE QuitarPermiso
      BY <2>2, <3>1, <3>3 DEF QuitarPermiso, PasosInfra
    <3> QED BY <2>3, <3>2, <3>3
  <2>4. CASE QuitarPolitica
    <3>1. /\ UNCHANGED <<permiso, Reales, hist>>
          /\ orden # NoHay /\ orden.paso = "quitar_politica" /\ Ir("vaciar")
      BY <2>4 DEF QuitarPolitica, EnPaso, Reales
    <3>2. bucket # NoHay /\ permiso = "falta"
      BY <1>0, <3>1 DEF RevertidoHasta
    <3>3. bucket' # NoHay
      BY <1>0, <2>4, <3>2, CampoDelBucket DEF QuitarPolitica
    <3> QED BY <2>2, <3>1, <3>2, <3>3 DEF PasosInfra, DeRevertir
  <2>5. CASE BorrarBucket
    <3>1. /\ Reales' = {} /\ orden # NoHay /\ orden.paso = "vaciar" /\ Ir("borrar_rol")
          /\ hist'.tarde = hist.tarde
      BY <1>0, <2>5 DEF BorrarBucket, EnPaso, Reales, TipoOrden
    <3>2. orden'.paso = "borrar_rol" /\ orden'.listado = orden.listado
      BY <1>0, <3>1, CampoDeOrden DEF PasosInfra
    <3> QED BY <1>0, <3>1, <3>2 DEF RevertidoHasta, DeRevertir
  <2>6. CASE BorrarRol
    BY <1>0, <2>6 DEF BorrarRol, FinDeOrden, RevertidoHasta, Reales
  <2>7. ASSUME NEW o \in Objetos, VaciarBucket(o) PROVE RevertidoHasta'
    <3>1. Reales' \subseteq Reales /\ UNCHANGED <<bucket, permiso, orden>> /\ hist'.tarde = hist.tarde
      BY <1>0, <2>7 DEF VaciarBucket, Reales, TipoRecursos, TipoOrden
    <3> QED BY <1>0, <3>1 DEF RevertidoHasta
  <2> QED BY <1>4, <2>1, <2>3, <2>4, <2>5, <2>6, <2>7, Zenon DEF Revertir
<1>5. CASE UNCHANGED varsInfra
  BY <1>0, <1>5 DEF varsInfra, RevertidoHasta, Reales
<1> QED BY <1>1, <1>2, <1>3, <1>4, <1>5, Zenon DEF NextInfra

(* Apply gives the permission over a bucket with its policy, or the promise *)
(* ends; a rollback takes the permission before the policy.                 *)
LEMMA PasoBucketSeguro ==
  InvInfra /\ [NextInfra]_varsInfra => BucketSeguro'
<1> SUFFICES ASSUME InvInfra, [NextInfra]_varsInfra PROVE BucketSeguro'
  OBVIOUS
<1> USE DEF InvInfra, TiposInfra, TipoRecursos, TipoOrden, Ordenes, BucketSeguro
<1>1. CASE Mundo
  BY <1>1 DEF Mundo, SubirAdjunto, Escanear, PlanCambia, RecrearEntorno
<1>2. CASE Empezar \/ Abortar
  BY <1>2 DEF Empezar, Abortar, recursos
<1>3. CASE Aplicar
  <2>1. CASE AplicarBucket
    BY <2>1 DEF AplicarBucket
  <2>2. CASE AplicarAjustes \/ AplicarPolitica
    <3>1. bucket # NoHay /\ UNCHANGED <<permiso, hist>>
      BY <2>2 DEF AplicarAjustes, AplicarPolitica, EnPaso, AplicadoHasta, DeAplicar
    <3>2. bucket' # NoHay /\ (bucket.politica = "esperada" => bucket'.politica = "esperada")
      BY <2>2, <3>1, CampoDelBucket, Zenon
         DEF AplicarAjustes, AplicarPolitica, InvInfra, TiposInfra
    <3> QED BY <3>1, <3>2
  <2>3. CASE AplicarPermisoApp
    BY <2>3 DEF AplicarPermisoApp, EnPaso, AplicadoHasta, DeAplicar
  <2>4. CASE EsperarPlan
    BY <2>4 DEF EsperarPlan, EnPaso, recursos, AplicadoHasta, DeAplicar
  <2>5. CASE UNCHANGED <<bucket, permiso, hist>>
    BY <2>5
  <2> QED
    BY <1>3, <2>1, <2>2, <2>3, <2>4, <2>5
       DEF Aplicar, AplicarRol, AplicarPermisosDelRol, BuscarPlan, CrearPlan, recursos
<1>4. CASE Verificar
  BY <1>4 DEF Verificar, SubirLimpio, LeerSinEscanear, SubirEicar, EsperarEscaneo,
              SimularPermiso, recursos
<1>5. CASE Revertir
  <2>1. CASE QuitarPolitica \/ BorrarBucket
    BY <2>1 DEF QuitarPolitica, BorrarBucket, EnPaso, RevertidoHasta
  <2>2. ASSUME NEW o \in Objetos, VaciarBucket(o) PROVE BucketSeguro'
    BY <2>2 DEF VaciarBucket, EnPaso, RevertidoHasta, DeRevertir, Reales
  <2>3. CASE ListarAdjuntos \/ BorrarPlan \/ QuitarPermiso \/ BorrarRol
    BY <2>3 DEF ListarAdjuntos, BorrarPlan, QuitarPermiso, BorrarRol, recursos
  <2> QED BY <1>5, <2>1, <2>2, <2>3 DEF Revertir
<1>6. CASE UNCHANGED varsInfra
  BY <1>6 DEF varsInfra
<1> QED BY <1>1, <1>2, <1>3, <1>4, <1>5, <1>6 DEF NextInfra

LEMMA InicioInfra == InitInfra => InvInfra
BY DEF InitInfra, InvInfra, TiposInfra, TipoRecursos, TipoOrden, AjustesBucket,
       PermisosDeGuardDuty, Escaneos, AplicadoHasta, VerificadoHasta, RevertidoHasta, Reales,
       Objetos, BucketSeguro

LEMMA PasoInfra == InvInfra /\ [NextInfra]_varsInfra => InvInfra'
BY PasoTipoRecursos, PasoTipoOrden, PasoAplicado, PasoVerificado, PasoRevertido, PasoBucketSeguro
   DEF InvInfra, TiposInfra

(* What holds between any two calls of apply, verify and rollback.          *)
THEOREM InfraInvariante == SpecInfra => []InvInfra
BY InicioInfra, PasoInfra, PTL DEF SpecInfra

(* The bucket keeps both promises whatever command dies, and the commands   *)
(* that end well tell the truth, for any number of commands and attachments. *)
THEOREM InfraEsSegura == SpecInfra => InfraSegura
<1> DEFINE Veraz ==
      /\ orden # NoHay /\ orden.paso = "esperar_plan" /\ orden' = NoHay /\ PlanActivo
            /\ UNCHANGED permiso /\ hist'.aplicado
          => inspect \subseteq Si(orden.recreado, "permiso_de_la_app") \cup Si(orden.planAjeno, "plan")
      /\ hist'.pasa /\ ~hist.pasa => PlanActivo /\ bucket.politica = "esperada"
<1>1. InvInfra => BucketSeguro
  BY DEF InvInfra
<1>2. InvInfra /\ [NextInfra]_varsInfra => [Veraz]_varsInfra
  <2> SUFFICES ASSUME InvInfra, NextInfra PROVE Veraz
    OBVIOUS
  <2> USE DEF InvInfra, TiposInfra, TipoRecursos, TipoOrden, Ordenes
  <2>1. ASSUME orden # NoHay, orden.paso = "esperar_plan", PlanActivo
        PROVE  inspect \subseteq Si(orden.recreado, "permiso_de_la_app") \cup Si(orden.planAjeno, "plan")
    <3>1. FaltasDelBucket = {}
      BY <2>1 DEF FaltasDelBucket, Si, AplicadoHasta, DeAplicar, AjustesBucket
    <3>2. FaltasDeRoles \subseteq Si(orden.recreado, "permiso_de_la_app")
      BY <2>1 DEF FaltasDeRoles, Si, AplicadoHasta, DeAplicar, PermisosDeGuardDuty
    <3>3. FaltaPlan \subseteq Si(orden.planAjeno, "plan")
      BY <2>1 DEF FaltaPlan, Si, AplicadoHasta, PlanActivo
    <3> QED BY <3>1, <3>2, <3>3 DEF inspect
  <2>2. ASSUME hist'.pasa, ~hist.pasa PROVE PlanActivo /\ bucket.politica = "esperada"
    <3>1. SimularPermiso
      BY <2>2
         DEF NextInfra, Empezar, Abortar, Mundo, SubirAdjunto, Escanear, PlanCambia,
             RecrearEntorno, Aplicar, AplicarBucket, AplicarAjustes, AplicarRol,
             AplicarPermisosDelRol, AplicarPermisoApp, AplicarPolitica, BuscarPlan, CrearPlan,
             EsperarPlan, Verificar, SubirLimpio, LeerSinEscanear, SubirEicar, EsperarEscaneo,
             Revertir, ListarAdjuntos, BorrarPlan, QuitarPermiso, QuitarPolitica, VaciarBucket,
             BorrarBucket, BorrarRol
    <3> QED BY <2>2, <3>1 DEF SimularPermiso, EnPaso, VerificadoHasta
  <2> QED BY <2>1, <2>2
<1> QED BY <1>1, <1>2, InfraInvariante, PTL DEF SpecInfra, InfraSegura, OrdenesVeraces

-----------------------------------------------------------------------------
(* The data of DEV: types *)

Nombrados == Coordinadores \cup {Socio, Otro, "asesora"}

FilasLead == [estado : {"nuevo", "asignado"}, asesor : Nombrados \cup {Nadie}, marca : BOOLEAN]

FilasAsesor == [rol : {"asesor", "socio"}, atiende : BOOLEAN]

Usuarios ==
  [usuario : Coordinadores \cup {Socio, Otro}, rol : {"ceo", "cto", "coordinator"},
   asesor : Coordinadores \cup {Nadie}]

Planes == {Nadie} \cup [Sembrados -> FilasLead] \cup SUBSET Usuarios

PasosDeReinicio == {"mirar", "personas", "s3", "confirmada"}

Comandos ==
  [que : {"libre", "reinicio", "asesores", "socios", "agregar", "quitar"},
   paso : {"libre", "confirmar"} \cup PasosDeReinicio,
   visto : SUBSET (Leads \cup Nombrados), version : Nat, asesores : SUBSET Nombrados,
   plan : Planes, borrados : SUBSET Leads]

TiposDatos ==
  /\ lead \in [Leads -> {Nadie} \cup FilasLead]
  /\ archivos \subseteq Leads /\ subiendo \subseteq Leads
  /\ secreto \in [usuarios : SUBSET Usuarios, version : Nat]
  /\ asesores \in [Nombrados -> {Nadie} \cup FilasAsesor]
  /\ comando \in [Terminales -> Comandos]
  /\ pasado \in [comandos : Nat, cruce : BOOLEAN, roto : BOOLEAN, tarde : SUBSET Leads,
                 ingresos : {0, 1}]

SinSembrar == \A s \in Sembrados : lead[s] = Nadie

(* Before the one reset that commits: the old lead is there, and whoever    *)
(* has a file or uploads one. *)
AntesDelReinicio ==
  /\ SinSembrar =>
       /\ lead[Viejo] # Nadie
       /\ \A l \in archivos \cup subiendo : lead[l] # Nadie
  /\ pasado.ingresos = 0 => lead[Nuevo] = Nadie /\ Nuevo \notin subiendo

(* One reset at a time.  It has seen every file, but for the late ones, and *)
(* the leads of the files it has seen are there until it commits. *)
ReinicioUnico ==
  /\ \A t, o \in Terminales : EnReinicio(t) /\ EnReinicio(o) => t = o
  /\ \A t \in Terminales :
       /\ comando[t].paso \in PasosDeReinicio => EnReinicio(t)
       /\ comando[t].borrados # {} => comando[t].paso \in {"personas", "s3", "confirmada"}
       /\ EnReinicio(t) =>
            /\ SinSembrar
            /\ archivos \subseteq comando[t].visto \cup pasado.tarde
            /\ \A l \in comando[t].visto : l \in Leads /\ lead[l] # Nadie

(* What a reset knows past its DELETE. *)
ReinicioHasta ==
  \A t \in Terminales :
    /\ comando[t].paso \in {"personas", "s3", "confirmada"} =>
         /\ comando[t].visto \subseteq comando[t].borrados
         /\ Viejo \in comando[t].borrados
         /\ \A l \in comando[t].borrados : lead[l] # Nadie
    /\ comando[t].paso = "confirmada" => comando[t].visto = {}
    /\ comando[t].paso \in {"s3", "confirmada"} => comando[t].plan \in PlanesDeLeads(comando[t].asesores)

(* A lead with a mark, or about to get it, has its file, but for the reset  *)
(* that is at the bucket or the one that broke off there. *)
MarcaConArchivo ==
  \A l \in Leads : lead[l] # Nadie /\ (lead[l].marca \/ l \in subiendo) =>
    \/ l \in archivos \/ pasado.roto
    \/ \E t \in Terminales : comando[t].paso \in {"s3", "confirmada"} /\ l \in comando[t].borrados

ArchivoConMarca ==
  \A l \in archivos :
    \/ lead[l] # Nadie /\ lead[l].marca
    \/ l \in subiendo \cup pasado.tarde \/ pasado.roto

SembradosJuntos ==
  \A s \in Sembrados : lead[s] # Nadie =>
    /\ lead[Viejo] = Nadie /\ \A r \in Sembrados : lead[r] # Nadie
    /\ lead[s].estado = "nuevo" <=> lead[s].asesor = Nadie

(* The coordinators among some users can be served. *)
ConAsesor(us) ==
  \A x \in us : x.rol = "coordinator" => x.asesor = x.usuario /\ asesores[x.asesor] # Nadie

(* A version that was read and is still the last one is kept, but for the   *)
(* coordinators. *)
SecretoLeido ==
  \A t \in Terminales : comando[t].que \in {"agregar", "quitar"} =>
    /\ comando[t].plan \in SUBSET Usuarios
    /\ ConAsesor(comando[t].plan) /\ Socio \in Nombres(comando[t].plan)
    /\ comando[t].version <= secreto.version
    /\ comando[t].version = secreto.version =>
         \A x \in secreto.usuarios \ comando[t].plan : x.usuario \in Coordinadores

SecretoCoherente == ConAsesor(secreto.usuarios) /\ Socio \in Nombres(secreto.usuarios)

ReinicioCoherente ==
  /\ AntesDelReinicio /\ ReinicioUnico /\ ReinicioHasta
  /\ MarcaConArchivo /\ ArchivoConMarca /\ SembradosJuntos

InvDatos == TiposDatos /\ ReinicioCoherente /\ SecretoLeido /\ SecretoCoherente

(* A console puts a command: the others keep theirs.                        *)
LEMMA PonerComando ==
  ASSUME TiposDatos, NEW t \in Terminales, NEW c, Poner(t, c)
  PROVE  /\ comando'[t] = c
         /\ \A o \in Terminales \ {t} : comando'[o] = comando[o]
         /\ c \in Comandos => comando' \in [Terminales -> Comandos]
BY DEF TiposDatos, Poner

LEMMA LibreBien ==
  /\ Libre \in Comandos /\ Libre.que = "libre" /\ Libre.paso = "libre" /\ Libre.borrados = {}
  /\ Libre.plan = Nadie /\ Libre.version = 0 /\ Libre.asesores = {} /\ Libre.visto = {}
BY DEF Libre, Comandos, Planes

(* The plans of a reset give an advisor to whoever is not nuevo.            *)
LEMMA PlanDeLeads ==
  ASSUME NEW as \in SUBSET Nombrados, NEW p \in PlanesDeLeads(as)
  PROVE  /\ p \in [Sembrados -> FilasLead] /\ Sembrados # {}
         /\ \A s \in Sembrados : /\ p[s] # Nadie /\ ~p[s].marca
                                 /\ p[s].estado = "nuevo" <=> p[s].asesor = Nadie
<1>1. \A a \in Nombrados : a # Nadie
  BY ConsolasAssumption DEF Nombrados
<1>2. Nadie \notin FilasLead
  BY ConsolasAssumption DEF FilasLead, Nombrados
<1> DEFINE Buena(x) == x \in FilasLead /\ ~x.marca /\ (x.estado = "nuevo" <=> x.asesor = Nadie)
<1>3. Buena(FilaLead("nuevo", Nadie))
  BY DEF FilaLead, FilasLead
<1>4. ASSUME NEW a \in as PROVE Buena(FilaLead("asignado", a))
  BY <1>1 DEF FilaLead, FilasLead
<1>5. \A x \in {FilaLead("nuevo", Nadie)} \cup {FilaLead("asignado", a) : a \in as} : Buena(x)
  BY <1>3, <1>4, Zenon
<1>6. p \in [Sembrados -> {FilaLead("nuevo", Nadie)} \cup {FilaLead("asignado", a) : a \in as}]
      /\ Sembrados # {}
  BY DEF PlanesDeLeads
<1> HIDE DEF Buena
<1>7. p \in [Sembrados -> FilasLead]
  BY <1>5, <1>6 DEF Buena
<1>8. \A s \in Sembrados : Buena(p[s])
  BY <1>5, <1>6
<1> QED BY <1>2, <1>6, <1>7, <1>8 DEF Buena

(* What the editions of the secret keep.                                    *)
LEMMA EdicionesDelSecreto ==
  ASSUME TiposDatos
  PROVE  /\ AgregarUsuarios(secreto.usuarios, {EntradaUsuario(k) : k \in Coordinadores})
              \in SUBSET Usuarios
         /\ QuitarUsuarios(secreto.usuarios) \in SUBSET Usuarios
BY DEF TiposDatos, AgregarUsuarios, EntradaUsuario, Usuario, QuitarUsuarios, Usuarios, Nombres

(* A step of a command that is no reset, or that ends one which has not     *)
(* come to the bucket.                                                      *)
SinReinicio ==
  /\ UNCHANGED <<lead, archivos, subiendo>>
  /\ pasado'.tarde = pasado.tarde /\ pasado'.roto = pasado.roto
  /\ pasado'.ingresos = pasado.ingresos
  /\ \/ UNCHANGED comando
     \/ \E t \in Terminales :
          /\ comando[t].paso \notin {"s3", "confirmada"}
          /\ comando'[t].que # "reinicio" /\ comando'[t].paso \notin PasosDeReinicio
          /\ comando'[t].borrados = {}
          /\ \A o \in Terminales \ {t} : comando'[o] = comando[o]

(* A step that leaves the secret alone and takes no advisor away.           *)
SinSecreto ==
  /\ UNCHANGED secreto
  /\ \A n \in Nombrados : asesores[n] # Nadie => asesores'[n] # Nadie
  /\ \A t \in Terminales :
       comando'[t] = comando[t] \/ comando'[t].que \notin {"agregar", "quitar"}

LEMMA AjenosAlReinicio ==
  ASSUME TiposDatos
  PROVE  /\ EditarSecreto => SinReinicio
         /\ \A t \in Terminales :
              \/ Desistir(t) \/ MirarAsesores(t) \/ CrearAsesores(t) \/ MirarSocios(t)
              \/ CrearSocios(t) \/ MarcarCoordinadores(t) \/ PedirAgregar(t) \/ PedirQuitar(t)
              \/ EscribirSecreto(t)
              => SinReinicio
<1>1. EditarSecreto => SinReinicio
  BY DEF EditarSecreto, SinReinicio
<1>2. ASSUME NEW t \in Terminales, comando[t].paso \in {"libre", "confirmar"},
             UNCHANGED <<lead, archivos, subiendo>>,
             \/ UNCHANGED pasado \/ pasado' = Contado(pasado)
             \/ \E b \in BOOLEAN : pasado' = [pasado EXCEPT !.cruce = b],
             \/ UNCHANGED comando \/ Fin(t)
             \/ \E c : /\ Poner(t, c)
                      /\ c.que # "reinicio" /\ c.paso = "confirmar" /\ c.borrados = {}
      PROVE  SinReinicio
  <2>1. /\ pasado'.tarde = pasado.tarde /\ pasado'.roto = pasado.roto
        /\ pasado'.ingresos = pasado.ingresos
    BY <1>2 DEF TiposDatos, Contado
  <2>2. ASSUME NEW c, Poner(t, c), c.que # "reinicio", c.paso \notin PasosDeReinicio, c.borrados = {}
        PROVE  SinReinicio
    BY <1>2, <2>1, <2>2, PonerComando DEF SinReinicio
  <2>3. CASE UNCHANGED comando
    BY <1>2, <2>1, <2>3 DEF SinReinicio
  <2>4. CASE Fin(t)
    BY <2>2, <2>4, LibreBien DEF Fin, PasosDeReinicio
  <2> QED BY <1>2, <2>2, <2>3, <2>4 DEF PasosDeReinicio
<1>3. ASSUME NEW t \in Terminales,
             Desistir(t) \/ CrearAsesores(t) \/ CrearSocios(t) \/ EscribirSecreto(t)
      PROVE  SinReinicio
  <2>1. (secreto.version # comando[t].version) \in BOOLEAN /\ pasado.cruce \in BOOLEAN
    BY DEF TiposDatos
  <2> QED
    BY <1>2, <1>3, <2>1, Zenon DEF Desistir, CrearAsesores, CrearSocios, EscribirSecreto
<1>4. ASSUME NEW t \in Terminales, MarcarCoordinadores(t) PROVE SinReinicio
  BY <1>2, <1>4, Zenon DEF MarcarCoordinadores, Empieza
<1>5. ASSUME NEW t \in Terminales, MirarAsesores(t) PROVE SinReinicio
  <2>1. PICK v : Poner(t, [Libre EXCEPT !.que = "asesores", !.paso = "confirmar", !.visto = v])
    BY <1>5, Zenon DEF MirarAsesores
  <2> DEFINE c == [Libre EXCEPT !.que = "asesores", !.paso = "confirmar", !.visto = v]
  <2>2. c.que # "reinicio" /\ c.paso = "confirmar" /\ c.borrados = {}
    BY DEF Libre
  <2> QED BY <1>2, <1>5, <2>1, <2>2, Zenon DEF MirarAsesores, Empieza
<1>6. ASSUME NEW t \in Terminales, MirarSocios(t) PROVE SinReinicio
  <2>1. PICK v, w : Poner(t, [Libre EXCEPT !.que = "socios", !.paso = "confirmar", !.visto = v,
                                           !.asesores = w])
    BY <1>6, Zenon DEF MirarSocios
  <2> DEFINE c == [Libre EXCEPT !.que = "socios", !.paso = "confirmar", !.visto = v, !.asesores = w]
  <2>2. c.que # "reinicio" /\ c.paso = "confirmar" /\ c.borrados = {}
    BY DEF Libre
  <2> QED BY <1>2, <1>6, <2>1, <2>2, Zenon DEF MirarSocios, Empieza
<1>7. ASSUME NEW t \in Terminales, PedirAgregar(t) \/ PedirQuitar(t) PROVE SinReinicio
  <2>1. ASSUME NEW q, q # "reinicio", NEW us, NEW e, LeerSecreto(t, q, us, e) PROVE SinReinicio
    <3> DEFINE c == [Libre EXCEPT !.que = q, !.paso = "confirmar", !.plan = us,
                                  !.version = secreto.version]
    <3>1. c.que # "reinicio" /\ c.paso = "confirmar" /\ c.borrados = {}
      BY <2>1 DEF Libre
    <3> QED BY <1>2, <2>1, <3>1, Zenon DEF LeerSecreto, Empieza
  <2>2. "agregar" # "reinicio" /\ "quitar" # "reinicio"
    OBVIOUS
  <2> QED BY <1>7, <2>1, <2>2, Zenon DEF PedirAgregar, PedirQuitar
<1> QED
  BY <1>1, <1>3, <1>4, <1>5, <1>6, <1>7

(* Such a step keeps everything about leads, files and resets.              *)
LEMMA PasoSinReinicio ==
  ASSUME ReinicioCoherente, SinReinicio
  PROVE  ReinicioCoherente'
<1> USE DEF SinReinicio
<1>0. SinSembrar' <=> SinSembrar
  BY DEF SinSembrar
<1>1. AntesDelReinicio'
  BY <1>0 DEF ReinicioCoherente, AntesDelReinicio
<1>2. \A t \in Terminales :
        \/ comando'[t] = comando[t]
        \/ /\ comando[t].paso \notin {"s3", "confirmada"}
           /\ comando'[t].que # "reinicio" /\ comando'[t].paso \notin PasosDeReinicio
           /\ comando'[t].borrados = {}
  OBVIOUS
<1>3. ReinicioUnico'
  BY <1>0, <1>2 DEF ReinicioCoherente, ReinicioUnico, EnReinicio
<1>4. ReinicioHasta'
  BY <1>2 DEF ReinicioCoherente, ReinicioHasta, PasosDeReinicio
<1>5. MarcaConArchivo'
  BY <1>2 DEF ReinicioCoherente, MarcaConArchivo
<1>6. ArchivoConMarca' /\ SembradosJuntos'
  BY DEF ReinicioCoherente, ArchivoConMarca, SembradosJuntos
<1> QED BY <1>1, <1>3, <1>4, <1>5, <1>6 DEF ReinicioCoherente

LEMMA PasoListarBucket ==
  ASSUME TiposDatos, ReinicioCoherente, NEW t \in Terminales, ListarBucket(t)
  PROVE  ReinicioCoherente'
<1>1. PICK listadas \in {archivos, {}} :
        /\ Poner(t, [Libre EXCEPT !.que = "reinicio", !.paso = "mirar", !.visto = listadas])
        /\ pasado' = [Contado(pasado) EXCEPT !.tarde = @ \cup (archivos \ listadas)]
  BY Zenon DEF ListarBucket
<1>2. UNCHANGED <<lead, archivos, subiendo>> /\ SinSembrar
  BY DEF ListarBucket, SinSembrar
<1>3. /\ pasado'.tarde = pasado.tarde \cup (archivos \ listadas)
      /\ pasado'.roto = pasado.roto /\ pasado'.ingresos = pasado.ingresos
  BY <1>1 DEF TiposDatos, Contado
<1>4. /\ comando'[t].que = "reinicio" /\ comando'[t].paso = "mirar"
      /\ comando'[t].visto = listadas /\ comando'[t].borrados = {}
  <2> DEFINE c == [Libre EXCEPT !.que = "reinicio", !.paso = "mirar", !.visto = listadas]
  <2>1. c.que = "reinicio" /\ c.paso = "mirar" /\ c.visto = listadas /\ c.borrados = {}
    BY DEF Libre
  <2>2. comando'[t] = c
    BY <1>1, PonerComando, Zenon
  <2> QED BY <2>1, <2>2, Zenon
<1>5. \A o \in Terminales \ {t} : comando'[o] = comando[o] /\ ~EnReinicio(o)
  BY <1>1, PonerComando, Zenon DEF ListarBucket
<1>6. SinSembrar' <=> SinSembrar
  BY <1>2 DEF SinSembrar
<1>7. comando[t].paso = "libre"
  BY DEF ListarBucket, Empieza
<1> USE DEF ReinicioCoherente
<1>8. AntesDelReinicio'
  BY <1>2, <1>3, <1>6 DEF AntesDelReinicio
<1>9. ReinicioUnico'
  <2>1. \A l \in listadas : l \in Leads /\ lead[l] # Nadie
    BY <1>2 DEF AntesDelReinicio, TiposDatos
  <2> QED
    BY <1>2, <1>3, <1>4, <1>5, <1>6, <2>1 DEF ReinicioUnico, EnReinicio, PasosDeReinicio
<1>10. ReinicioHasta'
  BY <1>2, <1>4, <1>5 DEF ReinicioHasta
<1>11. MarcaConArchivo'
  BY <1>2, <1>3, <1>4, <1>5, <1>7 DEF MarcaConArchivo
<1>12. ArchivoConMarca' /\ SembradosJuntos'
  BY <1>2, <1>3 DEF ArchivoConMarca, SembradosJuntos
<1> QED BY <1>8, <1>9, <1>10, <1>11, <1>12

(* A step of the reset of console t that leaves the world alone.            *)
LEMMA AvanceDelReinicio ==
  ASSUME ReinicioCoherente, UNCHANGED <<lead, archivos, subiendo, pasado>>,
         NEW t \in Terminales, EnReinicio(t), comando'[t].que = "reinicio",
         comando'[t].visto = comando[t].visto,
         \A o \in Terminales \ {t} : comando'[o] = comando[o],
         comando'[t].borrados # {} => comando'[t].paso \in {"personas", "s3", "confirmada"},
         comando[t].paso \in {"s3", "confirmada"}
           => comando'[t].paso \in {"s3", "confirmada"} /\ comando'[t].borrados = comando[t].borrados,
         comando'[t].paso \in {"personas", "s3", "confirmada"}
           => /\ comando'[t].visto \subseteq comando'[t].borrados
              /\ Viejo \in comando'[t].borrados
              /\ \A l \in comando'[t].borrados : lead[l] # Nadie,
         comando'[t].paso = "confirmada" => comando'[t].visto = {},
         comando'[t].paso \in {"s3", "confirmada"}
           => comando'[t].plan \in PlanesDeLeads(comando'[t].asesores)
  PROVE  ReinicioCoherente'
<1> USE DEF ReinicioCoherente
<1>0. SinSembrar' <=> SinSembrar
  BY DEF SinSembrar
<1>1. AntesDelReinicio'
  BY <1>0 DEF AntesDelReinicio
<1>2. ReinicioUnico'
  BY <1>0 DEF ReinicioUnico, EnReinicio
<1>3. ReinicioHasta'
  <2>1. ASSUME NEW as PROVE PlanesDeLeads(as)' = PlanesDeLeads(as)
    BY DEF PlanesDeLeads
  <2> QED BY <2>1 DEF ReinicioHasta
<1>4. MarcaConArchivo'
  BY DEF MarcaConArchivo
<1>5. ArchivoConMarca' /\ SembradosJuntos'
  BY DEF ArchivoConMarca, SembradosJuntos
<1> QED BY <1>1, <1>2, <1>3, <1>4, <1>5

LEMMA PasoMirarYBorrar ==
  ASSUME TiposDatos, ReinicioCoherente, NEW t \in Terminales, MirarBase(t) \/ BorrarTodo(t)
  PROVE  ReinicioCoherente'
<1>a. comando[t] \in Comandos
  BY DEF TiposDatos
<1>1. CASE MirarBase(t)
  <2>1. UNCHANGED <<lead, archivos, subiendo, pasado>> /\ comando[t].paso = "mirar"
    BY <1>1 DEF MirarBase
  <2>2. CASE Fin(t)
    <3>1. SinReinicio
      BY <2>1, <2>2, PonerComando, LibreBien DEF SinReinicio, Fin, PasosDeReinicio
    <3> QED BY <3>1, PasoSinReinicio
  <2>3. ASSUME NEW as, Poner(t, [comando[t] EXCEPT !.paso = "confirmar", !.asesores = as])
        PROVE  ReinicioCoherente'
    <3>1. EnReinicio(t) /\ comando[t].borrados = {}
      BY <2>1 DEF ReinicioCoherente, ReinicioUnico, PasosDeReinicio
    <3>2. /\ comando'[t].que = comando[t].que /\ comando'[t].paso = "confirmar"
          /\ comando'[t].visto = comando[t].visto /\ comando'[t].borrados = comando[t].borrados
      <4> DEFINE c == [comando[t] EXCEPT !.paso = "confirmar", !.asesores = as]
      <4>1. /\ c.que = comando[t].que /\ c.paso = "confirmar"
            /\ c.visto = comando[t].visto /\ c.borrados = comando[t].borrados
        BY <1>a DEF Comandos
      <4>2. comando'[t] = c
        BY <2>3, PonerComando, Zenon
      <4> QED BY <4>1, <4>2, Zenon
    <3>3. \A o \in Terminales \ {t} : comando'[o] = comando[o]
      BY <2>3, PonerComando, Zenon
    <3> QED BY <2>1, <3>1, <3>2, <3>3, AvanceDelReinicio DEF EnReinicio
  <2> QED BY <1>1, <2>2, <2>3, Zenon DEF MirarBase
<1>2. CASE BorrarTodo(t)
  <2>1. /\ UNCHANGED <<lead, archivos, subiendo, pasado>>
        /\ comando[t].paso = "confirmar" /\ EnReinicio(t)
    BY <1>2 DEF BorrarTodo
  <2> DEFINE Presentes == {l \in Leads : lead[l] # Nadie}
  <2>2. Poner(t, [comando[t] EXCEPT !.paso = "personas", !.borrados = Presentes])
    BY <1>2 DEF BorrarTodo
  <2> HIDE DEF Presentes
  <2>3. /\ comando'[t].que = comando[t].que /\ comando'[t].paso = "personas"
        /\ comando'[t].visto = comando[t].visto /\ comando'[t].borrados = Presentes
    <3> DEFINE c == [comando[t] EXCEPT !.paso = "personas", !.borrados = Presentes]
    <3>1. /\ c.que = comando[t].que /\ c.paso = "personas"
          /\ c.visto = comando[t].visto /\ c.borrados = Presentes
      BY <1>a DEF Comandos
    <3>2. comando'[t] = c
      BY <2>2, PonerComando, Zenon
    <3> QED BY <3>1, <3>2, Zenon
  <2>4. \A o \in Terminales \ {t} : comando'[o] = comando[o]
    BY <2>2, PonerComando, Zenon
  <2>5. /\ comando[t].visto \subseteq Presentes /\ Viejo \in Presentes
        /\ \A l \in Presentes : lead[l] # Nadie
    BY <2>1 DEF Presentes, ReinicioCoherente, ReinicioUnico, AntesDelReinicio, Leads
  <2> QED BY <2>1, <2>3, <2>4, <2>5, AvanceDelReinicio DEF EnReinicio
<1> QED BY <1>1, <1>2

LEMMA PasoSembrar ==
  ASSUME TiposDatos, ReinicioCoherente, NEW t \in Terminales, Sembrar(t)
  PROVE  ReinicioCoherente'
<1>a. comando[t] \in Comandos
  BY DEF TiposDatos
<1>1. UNCHANGED <<lead, archivos, subiendo, pasado>> /\ comando[t].paso = "personas"
  BY DEF Sembrar
<1>2. CASE Fin(t)
  <2>1. SinReinicio
    BY <1>1, <1>2, PonerComando, LibreBien DEF SinReinicio, Fin, PasosDeReinicio
  <2> QED BY <2>1, PasoSinReinicio
<1>3. ASSUME NEW p \in PlanesDeLeads(comando[t].asesores),
             Poner(t, [comando[t] EXCEPT !.paso = "s3", !.plan = p])
      PROVE  ReinicioCoherente'
  <2>1. /\ comando'[t].que = comando[t].que /\ comando'[t].paso = "s3"
        /\ comando'[t].visto = comando[t].visto /\ comando'[t].borrados = comando[t].borrados
        /\ comando'[t].asesores = comando[t].asesores /\ comando'[t].plan = p
    <3> DEFINE c == [comando[t] EXCEPT !.paso = "s3", !.plan = p]
    <3>1. /\ c.que = comando[t].que /\ c.paso = "s3" /\ c.visto = comando[t].visto
          /\ c.borrados = comando[t].borrados /\ c.asesores = comando[t].asesores /\ c.plan = p
      BY <1>a DEF Comandos
    <3>2. comando'[t] = c
      BY <1>3, PonerComando, Zenon
    <3> QED BY <3>1, <3>2, Zenon
  <2>2. \A o \in Terminales \ {t} : comando'[o] = comando[o]
    BY <1>3, PonerComando, Zenon
  <2>3. /\ EnReinicio(t) /\ comando[t].visto \subseteq comando[t].borrados
        /\ Viejo \in comando[t].borrados /\ \A l \in comando[t].borrados : lead[l] # Nadie
    BY <1>1 DEF ReinicioCoherente, ReinicioUnico, ReinicioHasta, PasosDeReinicio
  <2> QED BY <1>1, <1>3, <2>1, <2>2, <2>3, AvanceDelReinicio DEF EnReinicio
<1> QED BY <1>2, <1>3, Zenon DEF Sembrar

(* The bucket loses files of leads that the reset has deleted; the command  *)
(* goes on, or it breaks off and leaves word of it.                         *)
LEMMA PasoBorrarLotes ==
  ASSUME TiposDatos, ReinicioCoherente, NEW t \in Terminales, BorrarLotes(t)
  PROVE  ReinicioCoherente'
<1>a. comando[t] \in Comandos
  BY DEF TiposDatos
<1>1. UNCHANGED <<lead, subiendo>> /\ comando[t].paso = "s3"
  BY DEF BorrarLotes
<1>2. /\ EnReinicio(t) /\ comando[t].visto \subseteq comando[t].borrados
      /\ Viejo \in comando[t].borrados /\ \A l \in comando[t].borrados : lead[l] # Nadie
      /\ comando[t].plan \in PlanesDeLeads(comando[t].asesores)
      /\ archivos \subseteq comando[t].visto \cup pasado.tarde
      /\ \A o \in Terminales \ {t} : ~EnReinicio(o)
  BY <1>1 DEF ReinicioCoherente, ReinicioUnico, ReinicioHasta, PasosDeReinicio
<1>3. CASE /\ comando[t].visto = {} /\ UNCHANGED <<archivos, pasado>>
           /\ Poner(t, [comando[t] EXCEPT !.paso = "confirmada"])
  <2>1. /\ comando'[t].que = comando[t].que /\ comando'[t].paso = "confirmada"
        /\ comando'[t].visto = comando[t].visto /\ comando'[t].borrados = comando[t].borrados
        /\ comando'[t].asesores = comando[t].asesores /\ comando'[t].plan = comando[t].plan
    <3> DEFINE c == [comando[t] EXCEPT !.paso = "confirmada"]
    <3>1. /\ c.que = comando[t].que /\ c.paso = "confirmada" /\ c.visto = comando[t].visto
          /\ c.borrados = comando[t].borrados /\ c.asesores = comando[t].asesores
          /\ c.plan = comando[t].plan
      BY <1>a DEF Comandos
    <3>2. comando'[t] = c
      BY <1>3, PonerComando, Zenon
    <3> QED BY <3>1, <3>2, Zenon
  <2>2. \A o \in Terminales \ {t} : comando'[o] = comando[o]
    BY <1>3, PonerComando, Zenon
  <2> QED BY <1>1, <1>2, <1>3, <2>1, <2>2, AvanceDelReinicio DEF EnReinicio
<1>4. ASSUME NEW lote \in SUBSET comando[t].visto, archivos' = archivos \ lote
      PROVE  /\ Poner(t, [comando[t] EXCEPT !.visto = @ \ lote]) /\ UNCHANGED pasado
                => ReinicioCoherente'
             /\ Fin(t) /\ pasado' = [pasado EXCEPT !.roto = TRUE] => ReinicioCoherente'
  <2>0. SinSembrar' <=> SinSembrar
    BY <1>1 DEF SinSembrar
  <2>1. UNCHANGED <<pasado.ingresos, pasado.tarde>> => AntesDelReinicio' /\ SembradosJuntos'
    BY <1>1, <1>4, <2>0 DEF ReinicioCoherente, AntesDelReinicio, SembradosJuntos
  <2>2. ASSUME Poner(t, [comando[t] EXCEPT !.visto = @ \ lote]), UNCHANGED pasado
        PROVE  ReinicioCoherente'
    <3> DEFINE c == [comando[t] EXCEPT !.visto = comando[t].visto \ lote]
    <3>1. /\ c.que = comando[t].que /\ c.paso = comando[t].paso
          /\ c.visto = comando[t].visto \ lote /\ c.borrados = comando[t].borrados
          /\ c.asesores = comando[t].asesores /\ c.plan = comando[t].plan
      BY <1>a DEF Comandos
    <3>2. comando'[t] = c /\ \A o \in Terminales \ {t} : comando'[o] = comando[o]
      BY <2>2, PonerComando, Zenon
    <3> HIDE DEF c
    <3>3. ReinicioUnico'
      BY <1>1, <1>2, <1>4, <2>0, <2>2, <3>1, <3>2 DEF ReinicioCoherente, ReinicioUnico, EnReinicio
    <3>4. ReinicioHasta'
      <4>1. \A as : PlanesDeLeads(as)' = PlanesDeLeads(as)
        BY DEF PlanesDeLeads
      <4> QED BY <1>1, <1>2, <3>1, <3>2, <4>1 DEF ReinicioCoherente, ReinicioHasta
    <3>5. MarcaConArchivo'
      BY <1>1, <1>2, <1>4, <2>2, <3>1, <3>2 DEF ReinicioCoherente, MarcaConArchivo
    <3>6. ArchivoConMarca'
      BY <1>1, <1>4, <2>2 DEF ReinicioCoherente, ArchivoConMarca
    <3> QED BY <2>1, <2>2, <3>3, <3>4, <3>5, <3>6 DEF ReinicioCoherente
  <2>3. ASSUME Fin(t), pasado' = [pasado EXCEPT !.roto = TRUE] PROVE ReinicioCoherente'
    <3>1. pasado'.roto /\ pasado'.tarde = pasado.tarde /\ pasado'.ingresos = pasado.ingresos
      BY <2>3 DEF TiposDatos
    <3>2. comando'[t] = Libre /\ \A o \in Terminales \ {t} : comando'[o] = comando[o]
      BY <2>3, PonerComando, Zenon DEF Fin
    <3>3. ReinicioUnico' /\ ReinicioHasta'
      <4>1. \A as : PlanesDeLeads(as)' = PlanesDeLeads(as)
        BY DEF PlanesDeLeads
      <4>2. \A o \in Terminales : ~EnReinicio(o)'
        BY <1>2, <3>2, LibreBien DEF EnReinicio
      <4>3. \A o \in Terminales : comando'[o].paso \notin PasosDeReinicio /\ comando'[o].borrados = {}
        BY <1>2, <3>2, LibreBien
           DEF ReinicioCoherente, ReinicioUnico, EnReinicio, PasosDeReinicio
      <4> QED BY <4>2, <4>3 DEF ReinicioUnico, ReinicioHasta, PasosDeReinicio
    <3>4. MarcaConArchivo' /\ ArchivoConMarca'
      BY <3>1 DEF MarcaConArchivo, ArchivoConMarca
    <3> QED BY <2>1, <3>1, <3>3, <3>4 DEF ReinicioCoherente
  <2> QED BY <2>2, <2>3
<1> QED BY <1>3, <1>4, Zenon DEF BorrarLotes

(* The one commit: the old leads go and the seeded ones come, at once.      *)
LEMMA PasoComprometer ==
  ASSUME TiposDatos, ReinicioCoherente, NEW t \in Terminales, Comprometer(t)
  PROVE  ReinicioCoherente'
<1>a. comando[t] \in Comandos
  BY DEF TiposDatos
<1>1. UNCHANGED <<archivos, subiendo>> /\ comando[t].paso = "confirmada" /\ Fin(t)
  BY DEF Comprometer
<1>2. /\ EnReinicio(t) /\ comando[t].visto = {} /\ Viejo \in comando[t].borrados
      /\ comando[t].plan \in PlanesDeLeads(comando[t].asesores)
      /\ archivos \subseteq pasado.tarde /\ SinSembrar
      /\ \A o \in Terminales \ {t} : ~EnReinicio(o)
  BY <1>1 DEF ReinicioCoherente, ReinicioUnico, ReinicioHasta, PasosDeReinicio
<1>3. comando'[t] = Libre /\ \A o \in Terminales \ {t} : comando'[o] = comando[o]
  BY <1>1, PonerComando, Zenon DEF Fin
<1>4. ReinicioUnico' /\ ReinicioHasta'
  <2>1. \A o \in Terminales : ~EnReinicio(o)'
    BY <1>2, <1>3, LibreBien DEF EnReinicio
  <2>2. \A o \in Terminales : comando'[o].paso \notin PasosDeReinicio /\ comando'[o].borrados = {}
    BY <1>2, <1>3, LibreBien DEF ReinicioCoherente, ReinicioUnico, EnReinicio, PasosDeReinicio
  <2> QED BY <2>1, <2>2 DEF ReinicioUnico, ReinicioHasta, PasosDeReinicio
<1>5. CASE UNCHANGED lead /\ pasado' = [pasado EXCEPT !.roto = TRUE]
  <2>1. pasado'.roto /\ pasado'.ingresos = pasado.ingresos
    BY <1>5 DEF TiposDatos
  <2>2. SinSembrar' <=> SinSembrar
    BY <1>5 DEF SinSembrar
  <2>3. AntesDelReinicio' /\ SembradosJuntos'
    BY <1>1, <1>5, <2>1, <2>2 DEF ReinicioCoherente, AntesDelReinicio, SembradosJuntos
  <2>4. MarcaConArchivo' /\ ArchivoConMarca'
    BY <2>1 DEF MarcaConArchivo, ArchivoConMarca
  <2> QED BY <1>4, <2>3, <2>4 DEF ReinicioCoherente
<1>6. CASE /\ lead' = [l \in Leads |->
                        IF l \in Sembrados THEN comando[t].plan[l]
                        ELSE IF l \in comando[t].borrados THEN Nadie ELSE lead[l]]
           /\ UNCHANGED pasado
  <2>1. /\ Sembrados # {}
        /\ \A s \in Sembrados : /\ lead'[s] # Nadie /\ ~lead'[s].marca
                                /\ lead'[s].estado = "nuevo" <=> lead'[s].asesor = Nadie
    <3>1. comando[t].asesores \in SUBSET Nombrados
      BY <1>a DEF Comandos
    <3>2. \A s \in Sembrados : lead'[s] = comando[t].plan[s]
      BY <1>6 DEF Leads
    <3>3. /\ Sembrados # {}
          /\ \A s \in Sembrados :
               LET fila == comando[t].plan[s]
               IN  /\ fila # Nadie /\ ~fila.marca
                   /\ fila.estado = "nuevo" <=> fila.asesor = Nadie
      BY <1>2, <3>1, PlanDeLeads, Zenon
    <3> QED BY <3>2, <3>3
  <2>2. \A l \in Leads \ Sembrados :
          lead'[l] = IF l \in comando[t].borrados THEN Nadie ELSE lead[l]
    BY <1>6
  <2>3. Viejo \in Leads \ Sembrados /\ Nuevo \in Leads \ Sembrados
    BY ConsolasAssumption DEF Leads
  <2>4. lead'[Viejo] = Nadie
    BY <1>2, <2>2, <2>3
  <2>5. ~SinSembrar'
    BY <2>1 DEF SinSembrar
  <2>6. AntesDelReinicio'
    <3>1. pasado.ingresos = 0 => lead'[Nuevo] = Nadie /\ Nuevo \notin subiendo
      BY <2>2, <2>3 DEF ReinicioCoherente, AntesDelReinicio
    <3> QED BY <1>1, <1>6, <2>5, <3>1 DEF AntesDelReinicio
  <2>7. \A s \in Sembrados : s \notin subiendo
    BY <1>2 DEF ReinicioCoherente, AntesDelReinicio, SinSembrar
  <2>8. MarcaConArchivo'
    <3> SUFFICES ASSUME NEW l \in Leads, lead'[l] # Nadie, lead'[l].marca \/ l \in subiendo
                 PROVE  l \in archivos \/ pasado.roto
      BY <1>1, <1>6 DEF MarcaConArchivo
    <3>1. l \notin Sembrados
      BY <2>1, <2>7
    <3>2. l \notin comando[t].borrados /\ lead[l] # Nadie /\ (lead[l].marca \/ l \in subiendo)
      BY <2>2, <3>1
    <3>3. \A o \in Terminales : comando[o].paso \in {"s3", "confirmada"} => o = t
      BY <1>2 DEF ReinicioCoherente, ReinicioUnico, PasosDeReinicio
    <3> QED BY <3>2, <3>3 DEF ReinicioCoherente, MarcaConArchivo
  <2>9. ArchivoConMarca'
    BY <1>1, <1>2, <1>6 DEF ArchivoConMarca
  <2>10. SembradosJuntos'
    BY <2>1, <2>4 DEF SembradosJuntos
  <2> QED BY <1>4, <2>6, <2>8, <2>9, <2>10 DEF ReinicioCoherente
<1> QED BY <1>5, <1>6 DEF Comprometer

(* The intake adds a lead, that nobody has written before.                  *)
LEMMA PasoIngresar ==
  ASSUME TiposDatos, ReinicioCoherente, Ingresar
  PROVE  ReinicioCoherente'
<1> USE DEF ReinicioCoherente
<1>1. /\ UNCHANGED <<archivos, subiendo, comando>> /\ pasado.ingresos = 0
      /\ pasado'.tarde = pasado.tarde /\ pasado'.roto = pasado.roto /\ pasado'.ingresos = 1
  BY DEF Ingresar, TiposDatos
<1>2. lead[Nuevo] = Nadie /\ Nuevo \notin subiendo
  BY <1>1 DEF AntesDelReinicio
<1>3. lead'[Nuevo] # Nadie /\ ~lead'[Nuevo].marca
  <2>1. FilaLead("nuevo", Nadie) \in FilasLead /\ ~FilaLead("nuevo", Nadie).marca
    BY DEF FilaLead, FilasLead
  <2>2. Nadie \notin FilasLead
    BY ConsolasAssumption DEF FilasLead, Nombrados
  <2>3. lead'[Nuevo] = FilaLead("nuevo", Nadie)
    BY DEF Ingresar, TiposDatos, Leads
  <2> QED BY <2>1, <2>2, <2>3
<1>4. \A l \in Leads \ {Nuevo} : lead'[l] = lead[l]
  BY DEF Ingresar, TiposDatos
<1>5. Sembrados \subseteq Leads \ {Nuevo} /\ Viejo \in Leads \ {Nuevo}
  BY ConsolasAssumption DEF Leads, Viejo, Nuevo
<1>6. SinSembrar' <=> SinSembrar
  BY <1>4, <1>5 DEF SinSembrar
<1>7. \A l \in Leads : lead[l] # Nadie => lead'[l] # Nadie
  BY <1>3, <1>4
<1>8. archivos \subseteq Leads /\ subiendo \subseteq Leads
      /\ \A t \in Terminales : comando[t].borrados \subseteq Leads
  BY DEF TiposDatos, Comandos
<1>9. AntesDelReinicio'
  BY <1>1, <1>4, <1>5, <1>6, <1>7, <1>8 DEF AntesDelReinicio
<1>10. ReinicioUnico'
  BY <1>1, <1>6, <1>7 DEF ReinicioUnico, EnReinicio
<1>11. ReinicioHasta'
  <2>1. \A as : PlanesDeLeads(as)' = PlanesDeLeads(as)
    BY DEF PlanesDeLeads
  <2> QED BY <1>1, <1>7, <1>8, <2>1 DEF ReinicioHasta
<1>12. MarcaConArchivo'
  BY <1>1, <1>2, <1>3, <1>4 DEF MarcaConArchivo
<1>13. ArchivoConMarca'
  BY <1>1, <1>2, <1>4, <1>8 DEF ArchivoConMarca
<1>14. SembradosJuntos'
  BY <1>4, <1>5 DEF SembradosJuntos
<1> QED BY <1>9, <1>10, <1>11, <1>12, <1>13, <1>14

LEMMA PasoAdjuntarArchivo ==
  ASSUME TiposDatos, ReinicioCoherente, NEW l \in Leads, AdjuntarArchivo(l)
  PROVE  ReinicioCoherente'
<1> USE DEF ReinicioCoherente
<1>1. /\ UNCHANGED <<lead, comando>> /\ lead[l] # Nadie
      /\ archivos' = archivos \cup {l} /\ subiendo' = subiendo \cup {l}
  BY DEF AdjuntarArchivo
<1>2. /\ pasado'.roto = pasado.roto /\ pasado'.ingresos = pasado.ingresos
      /\ pasado.tarde \subseteq pasado'.tarde
      /\ \A t \in Terminales : EnReinicio(t) => l \in pasado'.tarde
  BY DEF AdjuntarArchivo, TiposDatos
<1>3. SinSembrar' <=> SinSembrar
  BY <1>1 DEF SinSembrar
<1>4. AntesDelReinicio'
  BY <1>1, <1>2, <1>3 DEF AntesDelReinicio
<1>5. ReinicioUnico'
  BY <1>1, <1>2, <1>3 DEF ReinicioUnico, EnReinicio
<1>6. ReinicioHasta'
  <2>1. \A as : PlanesDeLeads(as)' = PlanesDeLeads(as)
    BY DEF PlanesDeLeads
  <2> QED BY <1>1, <2>1 DEF ReinicioHasta
<1>7. MarcaConArchivo'
  BY <1>1, <1>2 DEF MarcaConArchivo
<1>8. ArchivoConMarca' /\ SembradosJuntos'
  BY <1>1, <1>2 DEF ArchivoConMarca, SembradosJuntos
<1> QED BY <1>4, <1>5, <1>6, <1>7, <1>8

LEMMA PasoEscribirNota ==
  ASSUME TiposDatos, ReinicioCoherente, NEW l \in Leads, EscribirNota(l)
  PROVE  ReinicioCoherente'
<1> USE DEF ReinicioCoherente
<1>1. /\ UNCHANGED <<comando, pasado>> /\ subiendo' = subiendo \ {l} /\ l \in subiendo
      /\ \A t \in Terminales : l \notin comando[t].borrados
  BY DEF EscribirNota, Bloqueado
<1>2. Nadie \notin FilasLead
  BY ConsolasAssumption DEF FilasLead, Nombrados
<1>3. CASE lead[l] # Nadie
  <2>1. lead' = [lead EXCEPT ![l].marca = TRUE] /\ UNCHANGED archivos
    BY <1>3 DEF EscribirNota
  <2>2. lead[l] \in FilasLead
    BY <1>3 DEF TiposDatos
  <2>3. /\ lead'[l] \in FilasLead /\ lead'[l].marca
        /\ lead'[l].estado = lead[l].estado /\ lead'[l].asesor = lead[l].asesor
        /\ \A k \in Leads \ {l} : lead'[k] = lead[k]
    BY <2>1, <2>2 DEF TiposDatos, FilasLead
  <2>4. \A k \in Leads : lead'[k] = Nadie <=> lead[k] = Nadie
    BY <1>2, <1>3, <2>3
  <2>5. Sembrados \subseteq Leads /\ Viejo \in Leads /\ Nuevo \in Leads
        /\ archivos \subseteq Leads /\ subiendo \subseteq Leads
        /\ \A t \in Terminales : comando[t].borrados \subseteq Leads
    BY DEF Leads, TiposDatos, Comandos
  <2>6. SinSembrar' <=> SinSembrar
    BY <2>4, <2>5 DEF SinSembrar
  <2>7. AntesDelReinicio'
    BY <1>1, <2>1, <2>4, <2>5, <2>6 DEF AntesDelReinicio
  <2>8. ReinicioUnico'
    BY <1>1, <2>1, <2>4, <2>6 DEF ReinicioUnico, EnReinicio
  <2>9. ReinicioHasta'
    <3>1. \A as : PlanesDeLeads(as)' = PlanesDeLeads(as)
      BY DEF PlanesDeLeads
    <3> QED BY <1>1, <2>4, <2>5, <3>1 DEF ReinicioHasta
  <2>10. MarcaConArchivo'
    BY <1>1, <1>3, <2>1, <2>3 DEF MarcaConArchivo
  <2>11. ArchivoConMarca'
    BY <1>1, <1>3, <2>1, <2>3, <2>4, <2>5 DEF ArchivoConMarca
  <2>12. SembradosJuntos'
    BY <2>3, <2>4, <2>5 DEF SembradosJuntos
  <2> QED BY <2>7, <2>8, <2>9, <2>10, <2>11, <2>12
<1>4. CASE lead[l] = Nadie
  <2>1. UNCHANGED lead /\ archivos' = archivos \ {l}
    BY <1>4 DEF EscribirNota
  <2>2. SinSembrar' <=> SinSembrar
    BY <2>1 DEF SinSembrar
  <2>3. AntesDelReinicio'
    BY <1>1, <2>1, <2>2 DEF AntesDelReinicio
  <2>4. ReinicioUnico'
    BY <1>1, <2>1, <2>2 DEF ReinicioUnico, EnReinicio
  <2>5. ReinicioHasta'
    <3>1. \A as : PlanesDeLeads(as)' = PlanesDeLeads(as)
      BY DEF PlanesDeLeads
    <3> QED BY <1>1, <2>1, <3>1 DEF ReinicioHasta
  <2>6. MarcaConArchivo'
    BY <1>1, <1>4, <2>1 DEF MarcaConArchivo
  <2>7. ArchivoConMarca' /\ SembradosJuntos'
    BY <1>1, <2>1 DEF ArchivoConMarca, SembradosJuntos
  <2> QED BY <2>3, <2>4, <2>5, <2>6, <2>7
<1> QED BY <1>3, <1>4

LEMMA PasoSinSecreto ==
  ASSUME TiposDatos, SecretoLeido, SecretoCoherente, SinSecreto
  PROVE  SecretoLeido' /\ SecretoCoherente'
<1>1. ASSUME NEW us \in SUBSET Usuarios, ConAsesor(us) PROVE ConAsesor(us)'
  BY <1>1 DEF ConAsesor, SinSecreto, Usuarios, Nombrados
<1>2. SecretoLeido'
  BY <1>1 DEF SecretoLeido, SinSecreto
<1>3. SecretoCoherente'
  BY <1>1 DEF SecretoCoherente, SinSecreto, TiposDatos
<1> QED BY <1>2, <1>3

LEMMA AjenosAlSecreto ==
  ASSUME TiposDatos, ReinicioCoherente
  PROVE  /\ Ingresar => SinSecreto
         /\ \A l \in Leads : AdjuntarArchivo(l) \/ EscribirNota(l) => SinSecreto
         /\ \A t \in Terminales :
              \/ Desistir(t) \/ ListarBucket(t) \/ MirarBase(t) \/ BorrarTodo(t) \/ Sembrar(t)
              \/ BorrarLotes(t) \/ Comprometer(t)
              \/ MirarAsesores(t) \/ CrearAsesores(t) \/ MirarSocios(t) \/ CrearSocios(t)
              \/ MarcarCoordinadores(t)
              => SinSecreto
<1>1. Ingresar => SinSecreto
  BY DEF Ingresar, SinSecreto
<1>2. ASSUME NEW l \in Leads, AdjuntarArchivo(l) \/ EscribirNota(l) PROVE SinSecreto
  BY <1>2 DEF AdjuntarArchivo, EscribirNota, SinSecreto
<1>3. ASSUME NEW t \in Terminales, UNCHANGED secreto,
             \A n \in Nombrados : asesores[n] # Nadie => asesores'[n] # Nadie,
             NEW c, Poner(t, c), c.que \notin {"agregar", "quitar"}
      PROVE  SinSecreto
  BY <1>3, PonerComando DEF SinSecreto
<1>4. Libre.que \notin {"agregar", "quitar"}
  BY LibreBien
<1>5. ASSUME NEW t \in Terminales, Desistir(t) PROVE SinSecreto
  BY <1>3, <1>4, <1>5, Zenon DEF Desistir, Fin
<1>6. ASSUME NEW t \in Terminales, ListarBucket(t) PROVE SinSecreto
  <2>1. PICK v : Poner(t, [Libre EXCEPT !.que = "reinicio", !.paso = "mirar", !.visto = v])
    BY <1>6, Zenon DEF ListarBucket
  <2> DEFINE c == [Libre EXCEPT !.que = "reinicio", !.paso = "mirar", !.visto = v]
  <2>2. c.que \notin {"agregar", "quitar"}
    BY DEF Libre
  <2> QED BY <1>3, <1>6, <2>1, <2>2, Zenon DEF ListarBucket
<1>7. ASSUME NEW t \in Terminales,
             MirarBase(t) \/ BorrarTodo(t) \/ Sembrar(t) \/ BorrarLotes(t) \/ Comprometer(t)
      PROVE  SinSecreto
  <2>1. comando[t].que = "reinicio" /\ comando[t] \in Comandos
    BY <1>7
       DEF MirarBase, BorrarTodo, Sembrar, BorrarLotes, Comprometer, EnReinicio, TiposDatos,
           ReinicioCoherente, ReinicioUnico, PasosDeReinicio
  <2>2. UNCHANGED <<secreto, asesores>>
    BY <1>7 DEF MirarBase, BorrarTodo, Sembrar, BorrarLotes, Comprometer
  <2>3. ASSUME NEW c, Poner(t, c), c.que = "reinicio" PROVE SinSecreto
    BY <1>3, <2>2, <2>3
  <2>4. CASE Fin(t)
    BY <1>3, <1>4, <2>2, <2>4, Zenon DEF Fin
  <2>5. ASSUME NEW p, NEW w, Poner(t, [comando[t] EXCEPT !.paso = p, !.asesores = w])
        PROVE  SinSecreto
    <3> DEFINE c == [comando[t] EXCEPT !.paso = p, !.asesores = w]
    <3>1. c.que = "reinicio"
      BY <2>1 DEF Comandos
    <3> QED BY <2>3, <2>5, <3>1, Zenon
  <2>6. ASSUME NEW p, NEW b, Poner(t, [comando[t] EXCEPT !.paso = p, !.borrados = b])
        PROVE  SinSecreto
    <3> DEFINE c == [comando[t] EXCEPT !.paso = p, !.borrados = b]
    <3>1. c.que = "reinicio"
      BY <2>1 DEF Comandos
    <3> QED BY <2>3, <2>6, <3>1, Zenon
  <2>7. ASSUME NEW p, NEW n, Poner(t, [comando[t] EXCEPT !.paso = p, !.plan = n])
        PROVE  SinSecreto
    <3> DEFINE c == [comando[t] EXCEPT !.paso = p, !.plan = n]
    <3>1. c.que = "reinicio"
      BY <2>1 DEF Comandos
    <3> QED BY <2>3, <2>7, <3>1, Zenon
  <2>8. ASSUME NEW v, Poner(t, [comando[t] EXCEPT !.visto = v]) PROVE SinSecreto
    <3> DEFINE c == [comando[t] EXCEPT !.visto = v]
    <3>1. c.que = "reinicio"
      BY <2>1 DEF Comandos
    <3> QED BY <2>3, <2>8, <3>1, Zenon
  <2>9. ASSUME NEW p, Poner(t, [comando[t] EXCEPT !.paso = p]) PROVE SinSecreto
    <3> DEFINE c == [comando[t] EXCEPT !.paso = p]
    <3>1. c.que = "reinicio"
      BY <2>1 DEF Comandos
    <3> QED BY <2>3, <2>9, <3>1, Zenon
  <2>10. CASE MirarBase(t)
    BY <2>4, <2>5, <2>10, Zenon DEF MirarBase
  <2>11. CASE BorrarTodo(t)
    BY <2>6, <2>11, Zenon DEF BorrarTodo
  <2>12. CASE Sembrar(t)
    BY <2>4, <2>7, <2>12, Zenon DEF Sembrar
  <2>13. CASE BorrarLotes(t)
    BY <2>4, <2>8, <2>9, <2>13, Zenon DEF BorrarLotes
  <2> QED BY <1>7, <2>4, <2>10, <2>11, <2>12, <2>13, Zenon DEF Comprometer
<1>8. ASSUME NEW t \in Terminales, MirarAsesores(t) PROVE SinSecreto
  <2>1. PICK v : Poner(t, [Libre EXCEPT !.que = "asesores", !.paso = "confirmar", !.visto = v])
    BY <1>8, Zenon DEF MirarAsesores
  <2> DEFINE c == [Libre EXCEPT !.que = "asesores", !.paso = "confirmar", !.visto = v]
  <2>2. c.que \notin {"agregar", "quitar"}
    BY DEF Libre
  <2> QED BY <1>3, <1>8, <2>1, <2>2, Zenon DEF MirarAsesores
<1>9. ASSUME NEW t \in Terminales, MirarSocios(t) PROVE SinSecreto
  <2>1. PICK v, w : Poner(t, [Libre EXCEPT !.que = "socios", !.paso = "confirmar", !.visto = v,
                                           !.asesores = w])
    BY <1>9, Zenon DEF MirarSocios
  <2> DEFINE c == [Libre EXCEPT !.que = "socios", !.paso = "confirmar", !.visto = v, !.asesores = w]
  <2>2. c.que \notin {"agregar", "quitar"}
    BY DEF Libre
  <2> QED BY <1>3, <1>9, <2>1, <2>2, Zenon DEF MirarSocios
<1>10. Nadie \notin FilasAsesor
  BY ConsolasAssumption DEF FilasAsesor
<1>11. \A b \in BOOLEAN : Fila("asesor", b) # Nadie /\ Fila("socio", b) # Nadie
  <2>1. \A b \in BOOLEAN : Fila("asesor", b) \in FilasAsesor /\ Fila("socio", b) \in FilasAsesor
    BY DEF Fila, FilasAsesor
  <2> QED BY <1>10, <2>1
<1>12. asesores \in [Nombrados -> {Nadie} \cup FilasAsesor]
  BY DEF TiposDatos
<1>13. ASSUME NEW t \in Terminales, CrearAsesores(t) \/ CrearSocios(t) PROVE SinSecreto
  <2>1. UNCHANGED secreto /\ Fin(t)
    BY <1>13 DEF CrearAsesores, CrearSocios
  <2>2. \A n \in Nombrados : asesores[n] # Nadie => asesores'[n] # Nadie
    BY <1>11, <1>12, <1>13 DEF CrearAsesores, CrearSocios
  <2> QED BY <1>3, <1>4, <2>1, <2>2, Zenon DEF Fin
<1>14. ASSUME NEW t \in Terminales, MarcarCoordinadores(t) PROVE SinSecreto
  <2>1. UNCHANGED <<secreto, comando>>
    BY <1>14 DEF MarcarCoordinadores
  <2>2. \A n \in Nombrados : asesores[n] # Nadie => asesores'[n] # Nadie
    <3> SUFFICES ASSUME NEW n \in Nombrados, asesores[n] # Nadie PROVE asesores'[n] # Nadie
      OBVIOUS
    <3>1. asesores[n] \in FilasAsesor
      BY <1>12
    <3>2. [asesores[n] EXCEPT !.atiende = TRUE] \in FilasAsesor
      BY <3>1 DEF FilasAsesor
    <3>3. asesores'[n] = asesores[n] \/ asesores'[n] = [asesores[n] EXCEPT !.atiende = TRUE]
      BY <1>12, <1>14 DEF MarcarCoordinadores
    <3> QED BY <1>10, <3>1, <3>2, <3>3
  <2> QED BY <2>1, <2>2 DEF SinSecreto
<1> QED
  BY <1>1, <1>2, <1>5, <1>6, <1>7, <1>8, <1>9, <1>13, <1>14

(* The commands that write the secret, and the AWS console.                 *)
LEMMA PasoConSecreto ==
  ASSUME TiposDatos, SecretoLeido, SecretoCoherente,
         \/ EditarSecreto
         \/ \E t \in Terminales : PedirAgregar(t) \/ PedirQuitar(t) \/ EscribirSecreto(t)
  PROVE  SecretoLeido' /\ SecretoCoherente'
<1>1. UNCHANGED asesores
  BY DEF EditarSecreto, PedirAgregar, PedirQuitar, EscribirSecreto, LeerSecreto
<1>2. \A us : ConAsesor(us)' <=> ConAsesor(us)
  BY <1>1 DEF ConAsesor
<1>3. secreto.usuarios \in SUBSET Usuarios /\ secreto.version \in Nat
  BY DEF TiposDatos
<1>4. CASE EditarSecreto
  <2> DEFINE otro == Usuario(Otro, "cto", Nadie)
  <2>1. otro.rol = "cto"
    BY DEF Usuario
  <2>2. /\ secreto'.usuarios = secreto.usuarios \cup {otro}
        /\ secreto'.version = secreto.version + 1 /\ UNCHANGED comando
    BY <1>4 DEF EditarSecreto
  <2> HIDE DEF otro
  <2>3. SecretoCoherente'
    BY <1>2, <2>1, <2>2 DEF SecretoCoherente, ConAsesor, Nombres
  <2>4. \A t \in Terminales : comando[t].version \in Nat
    BY DEF TiposDatos, Comandos
  <2>5. SecretoLeido'
    BY <1>2, <1>3, <2>2, <2>4 DEF SecretoLeido
  <2> QED BY <2>3, <2>5
<1>5. ASSUME NEW t \in Terminales, PedirAgregar(t) \/ PedirQuitar(t)
      PROVE  SecretoLeido' /\ SecretoCoherente'
  <2>1. UNCHANGED secreto
    BY <1>5 DEF PedirAgregar, PedirQuitar, LeerSecreto
  <2>2. SecretoCoherente'
    BY <1>2, <2>1 DEF SecretoCoherente
  <2>3. ASSUME NEW q, NEW us \in SUBSET Usuarios, NEW e, LeerSecreto(t, q, us, e),
               ConAsesor(us), Socio \in Nombres(us),
               \A x \in secreto.usuarios \ us : x.usuario \in Coordinadores
        PROVE  SecretoLeido'
    <3> DEFINE c == [Libre EXCEPT !.que = q, !.paso = "confirmar", !.plan = us,
                                  !.version = secreto.version]
    <3>1. c.plan = us /\ c.version = secreto.version
      BY DEF Libre
    <3>2. comando'[t] = c /\ \A o \in Terminales \ {t} : comando'[o] = comando[o]
      BY <2>3, PonerComando, Zenon DEF LeerSecreto
    <3>3. secreto.version <= secreto.version
      BY <1>3
    <3> QED BY <1>2, <2>1, <2>3, <3>1, <3>2, <3>3 DEF SecretoLeido
  <2>4. CASE PedirAgregar(t)
    <3> DEFINE us == AgregarUsuarios(secreto.usuarios, {EntradaUsuario(k) : k \in Coordinadores})
    <3>1. us \in SUBSET Usuarios /\ secreto.usuarios \subseteq us
      BY EdicionesDelSecreto DEF AgregarUsuarios
    <3>2. ConAsesor(us)
      <4>1. \A k \in Coordinadores : asesores[k] # Nadie
        BY <2>4 DEF PedirAgregar
      <4>2. \A k \in Coordinadores : EntradaUsuario(k).usuario = k /\ EntradaUsuario(k).asesor = k
        BY DEF EntradaUsuario, Usuario
      <4>3. \A x \in us : x \in secreto.usuarios \/ \E k \in Coordinadores : x = EntradaUsuario(k)
        BY DEF AgregarUsuarios
      <4> HIDE DEF us
      <4> QED BY <4>1, <4>2, <4>3 DEF SecretoCoherente, ConAsesor
    <3>3. Socio \in Nombres(us)
      BY <3>1 DEF SecretoCoherente, Nombres
    <3>4. PICK q, e : LeerSecreto(t, q, us, e)
      BY <2>4, Zenon DEF PedirAgregar
    <3>5. \A x \in secreto.usuarios \ us : x.usuario \in Coordinadores
      BY <3>1
    <3> HIDE DEF us
    <3> QED BY <2>2, <2>3, <3>1, <3>2, <3>3, <3>4, <3>5
  <2>5. CASE PedirQuitar(t)
    <3> DEFINE us == QuitarUsuarios(secreto.usuarios)
    <3>1. us \in SUBSET Usuarios
      BY EdicionesDelSecreto
    <3>2. ConAsesor(us) /\ Socio \in Nombres(us)
      BY ConsolasAssumption DEF SecretoCoherente, ConAsesor, Nombres, QuitarUsuarios
    <3>3. \A x \in secreto.usuarios \ us : x.usuario \in Coordinadores
      BY DEF QuitarUsuarios
    <3>4. PICK q, e : LeerSecreto(t, q, us, e)
      BY <2>5, Zenon DEF PedirQuitar
    <3> HIDE DEF us
    <3> QED BY <2>2, <2>3, <3>1, <3>2, <3>3, <3>4
  <2> QED BY <1>5, <2>2, <2>4, <2>5
<1>6. ASSUME NEW t \in Terminales, EscribirSecreto(t) PROVE SecretoLeido' /\ SecretoCoherente'
  <2>1. /\ comando[t].que \in {"agregar", "quitar"} /\ Fin(t)
        /\ \/ secreto' = [usuarios |-> comando[t].plan, version |-> secreto.version + 1]
           \/ UNCHANGED secreto
    BY <1>6 DEF EscribirSecreto
  <2>2. /\ comando[t].plan \in SUBSET Usuarios
        /\ ConAsesor(comando[t].plan) /\ Socio \in Nombres(comando[t].plan)
    BY <2>1 DEF SecretoLeido
  <2>3. SecretoCoherente'
    BY <1>2, <2>1, <2>2 DEF SecretoCoherente
  <2>4. comando'[t] = Libre /\ \A o \in Terminales \ {t} : comando'[o] = comando[o]
    BY <2>1, PonerComando, Zenon DEF Fin
  <2>5. \A o \in Terminales : comando[o].version \in Nat
    BY DEF TiposDatos, Comandos
  <2>6. \/ UNCHANGED secreto \/ secreto'.version = secreto.version + 1
    BY <2>1
  <2>7. SecretoLeido'
    BY <1>2, <1>3, <2>4, <2>5, <2>6, LibreBien DEF SecretoLeido
  <2> QED BY <2>3, <2>7
<1> QED BY <1>4, <1>5, <1>6

LEMMA PasoTiposDatos ==
  ASSUME TiposDatos, ReinicioCoherente, SecretoLeido, [NextDatos]_varsDatos
  PROVE  TiposDatos'
<1>1. lead' \in [Leads -> {Nadie} \cup FilasLead]
  <2>0. lead \in [Leads -> {Nadie} \cup FilasLead]
    BY DEF TiposDatos
  <2>1. CASE Ingresar
    <3>1. FilaLead("nuevo", Nadie) \in FilasLead
      BY DEF FilaLead, FilasLead
    <3>2. lead' = [lead EXCEPT ![Nuevo] = FilaLead("nuevo", Nadie)]
      BY <2>1 DEF Ingresar
    <3> QED BY <2>0, <3>1, <3>2
  <2>2. ASSUME NEW l \in Leads, EscribirNota(l) PROVE lead' \in [Leads -> {Nadie} \cup FilasLead]
    <3>1. CASE UNCHANGED lead
      BY <2>0, <3>1
    <3>2. CASE lead[l] # Nadie /\ lead' = [lead EXCEPT ![l].marca = TRUE]
      <4>1. lead[l] \in FilasLead
        BY <2>0, <3>2
      <4>2. [lead[l] EXCEPT !.marca = TRUE] \in FilasLead
        BY <4>1 DEF FilasLead
      <4>3. lead' = [lead EXCEPT ![l] = [lead[l] EXCEPT !.marca = TRUE]]
        BY <2>0, <3>2
      <4> QED BY <2>0, <4>2, <4>3
    <3> QED BY <2>2, <3>1, <3>2 DEF EscribirNota
  <2>3. ASSUME NEW t \in Terminales, Comprometer(t) PROVE lead' \in [Leads -> {Nadie} \cup FilasLead]
    <3>1. comando[t] \in Comandos /\ comando[t].plan \in PlanesDeLeads(comando[t].asesores)
      BY <2>3 DEF TiposDatos, Comprometer, ReinicioCoherente, ReinicioHasta
    <3>2. comando[t].plan \in [Sembrados -> FilasLead]
      <4>1. comando[t].asesores \in SUBSET Nombrados
        BY <3>1 DEF Comandos
      <4> QED BY <3>1, <4>1, PlanDeLeads, Zenon
    <3> QED BY <2>0, <2>3, <3>2 DEF Comprometer, Leads
  <2>4. CASE UNCHANGED lead
    BY <2>0, <2>4
  <2> QED
    BY <2>1, <2>2, <2>3, <2>4, Zenon
       DEF NextDatos, Comando, varsDatos, Desistir, ListarBucket, MirarBase, BorrarTodo, Sembrar,
           BorrarLotes, MirarAsesores, CrearAsesores, MirarSocios, CrearSocios,
           MarcarCoordinadores, PedirAgregar, PedirQuitar, LeerSecreto, EscribirSecreto,
           EditarSecreto, AdjuntarArchivo
<1>2. archivos' \subseteq Leads /\ subiendo' \subseteq Leads
  <2>1. \/ UNCHANGED <<archivos, subiendo>>
        \/ \E l \in Leads : AdjuntarArchivo(l) \/ EscribirNota(l)
        \/ \E t \in Terminales : BorrarLotes(t)
    BY Zenon
       DEF NextDatos, Comando, varsDatos, Desistir, ListarBucket, MirarBase, BorrarTodo, Sembrar,
           Comprometer, MirarAsesores, CrearAsesores, MirarSocios, CrearSocios,
           MarcarCoordinadores, PedirAgregar, PedirQuitar, LeerSecreto, EscribirSecreto,
           EditarSecreto, Ingresar
  <2> QED BY <2>1 DEF AdjuntarArchivo, EscribirNota, BorrarLotes, TiposDatos
<1>3. secreto' \in [usuarios : SUBSET Usuarios, version : Nat]
  <2>0. secreto \in [usuarios : SUBSET Usuarios, version : Nat]
    BY DEF TiposDatos
  <2>1. CASE EditarSecreto
    <3>1. Usuario(Otro, "cto", Nadie) \in Usuarios
      BY DEF Usuario, Usuarios
    <3> QED BY <2>0, <2>1, <3>1 DEF EditarSecreto
  <2>2. ASSUME NEW t \in Terminales, EscribirSecreto(t)
        PROVE  secreto' \in [usuarios : SUBSET Usuarios, version : Nat]
    <3>1. comando[t].plan \in SUBSET Usuarios
      BY <2>2 DEF EscribirSecreto, SecretoLeido
    <3> QED BY <2>0, <2>2, <3>1 DEF EscribirSecreto
  <2>3. CASE UNCHANGED secreto
    BY <2>0, <2>3
  <2> QED
    BY <2>1, <2>2, <2>3, Zenon
       DEF NextDatos, Comando, varsDatos, Desistir, ListarBucket, MirarBase, BorrarTodo, Sembrar,
           BorrarLotes, Comprometer, MirarAsesores, CrearAsesores, MirarSocios, CrearSocios,
           MarcarCoordinadores, PedirAgregar, PedirQuitar, LeerSecreto, Ingresar,
           AdjuntarArchivo, EscribirNota
<1>4. asesores' \in [Nombrados -> {Nadie} \cup FilasAsesor]
  <2>0. asesores \in [Nombrados -> {Nadie} \cup FilasAsesor]
    BY DEF TiposDatos
  <2>1. Fila("asesor", FALSE) \in FilasAsesor /\ Fila("socio", TRUE) \in FilasAsesor
    BY DEF Fila, FilasAsesor
  <2>2. ASSUME NEW t \in Terminales, CrearAsesores(t) \/ CrearSocios(t)
        PROVE  asesores' \in [Nombrados -> {Nadie} \cup FilasAsesor]
    BY <2>0, <2>1, <2>2 DEF CrearAsesores, CrearSocios
  <2>3. ASSUME NEW t \in Terminales, MarcarCoordinadores(t)
        PROVE  asesores' \in [Nombrados -> {Nadie} \cup FilasAsesor]
    <3>1. \A n \in Nombrados : asesores[n] # Nadie =>
            [asesores[n] EXCEPT !.atiende = TRUE] \in FilasAsesor
      BY <2>0 DEF FilasAsesor
    <3> QED BY <2>0, <2>3, <3>1 DEF MarcarCoordinadores
  <2>4. CASE UNCHANGED asesores
    BY <2>0, <2>4
  <2> QED
    BY <2>2, <2>3, <2>4, Zenon
       DEF NextDatos, Comando, varsDatos, Desistir, ListarBucket, MirarBase, BorrarTodo, Sembrar,
           BorrarLotes, Comprometer, MirarAsesores, MirarSocios, PedirAgregar, PedirQuitar,
           LeerSecreto, EscribirSecreto, EditarSecreto, Ingresar, AdjuntarArchivo, EscribirNota
<1>5. pasado' \in [comandos : Nat, cruce : BOOLEAN, roto : BOOLEAN, tarde : SUBSET Leads,
                   ingresos : {0, 1}]
  <2>0. /\ pasado \in [comandos : Nat, cruce : BOOLEAN, roto : BOOLEAN, tarde : SUBSET Leads,
                       ingresos : {0, 1}]
        /\ archivos \subseteq Leads
    BY DEF TiposDatos
  <2>1. \/ UNCHANGED pasado \/ pasado' = Contado(pasado)
        \/ \E m \in SUBSET Leads :
             pasado' = [Contado(pasado) EXCEPT !.tarde = Contado(pasado).tarde \cup m]
        \/ \E m \in SUBSET Leads : pasado' = [pasado EXCEPT !.tarde = pasado.tarde \cup m]
        \/ pasado' = [pasado EXCEPT !.roto = TRUE] \/ pasado' = [pasado EXCEPT !.ingresos = 1]
        \/ \E b \in BOOLEAN : pasado' = [pasado EXCEPT !.cruce = b]
    <3>1. \A listadas \in {archivos, {}} : archivos \ listadas \in SUBSET Leads
      BY <2>0
    <3>2. \A l \in Leads : {l} \in SUBSET Leads
      OBVIOUS
    <3>3. ASSUME NEW t \in Terminales, ListarBucket(t)
          PROVE  \E m \in SUBSET Leads :
                   pasado' = [Contado(pasado) EXCEPT !.tarde = Contado(pasado).tarde \cup m]
      BY <3>1, <3>3, Zenon DEF ListarBucket
    <3>4. ASSUME NEW l \in Leads, AdjuntarArchivo(l)
          PROVE  \/ UNCHANGED pasado
                 \/ \E m \in SUBSET Leads : pasado' = [pasado EXCEPT !.tarde = pasado.tarde \cup m]
      BY <3>2, <3>4, Zenon DEF AdjuntarArchivo
    <3>5. ASSUME NEW t \in Terminales, EscribirSecreto(t)
          PROVE  UNCHANGED pasado \/ \E b \in BOOLEAN : pasado' = [pasado EXCEPT !.cruce = b]
      <4>1. (pasado.cruce \/ secreto.version # comando[t].version) \in BOOLEAN
        BY <2>0
      <4> QED BY <3>5, <4>1, Zenon DEF EscribirSecreto
    <3> QED
      BY <3>3, <3>4, <3>5, Zenon
         DEF NextDatos, Comando, varsDatos, Desistir, MirarBase, BorrarTodo, Sembrar, BorrarLotes,
             Comprometer, MirarAsesores, CrearAsesores, MirarSocios, CrearSocios,
             MarcarCoordinadores, PedirAgregar, PedirQuitar, LeerSecreto, EditarSecreto, Ingresar,
             EscribirNota
  <2> DEFINE Pasados == [comandos : Nat, cruce : BOOLEAN, roto : BOOLEAN, tarde : SUBSET Leads,
                         ingresos : {0, 1}]
  <2>2. Contado(pasado) \in Pasados
    BY <2>0 DEF Contado
  <2>3. \A h \in Pasados :
          /\ \A m \in SUBSET Leads : [h EXCEPT !.tarde = h.tarde \cup m] \in Pasados
          /\ \A b \in BOOLEAN : [h EXCEPT !.cruce = b] \in Pasados
          /\ [h EXCEPT !.roto = TRUE] \in Pasados
          /\ [h EXCEPT !.ingresos = 1] \in Pasados
    OBVIOUS
  <2>4. pasado \in Pasados
    BY <2>0
  <2> HIDE DEF Pasados
  <2>5. pasado' \in Pasados
    BY <2>1, <2>2, <2>3, <2>4, Zenon
  <2> QED BY <2>5 DEF Pasados
<1>6. comando' \in [Terminales -> Comandos]
  <2>0. /\ comando \in [Terminales -> Comandos] /\ archivos \in SUBSET Leads
        /\ secreto.version \in Nat /\ secreto.usuarios \in SUBSET Usuarios
    BY DEF TiposDatos
  <2> SUFFICES ASSUME NEW t \in Terminales, Comando(t), ~UNCHANGED comando
               PROVE  \E c \in Comandos : Poner(t, c)
    BY <2>0, PonerComando, Zenon
       DEF NextDatos, varsDatos, Ingresar, EditarSecreto, AdjuntarArchivo, EscribirNota
  <2>1. comando[t] \in Comandos /\ Libre \in Comandos
    BY <2>0, LibreBien
  <2>2. Fin(t) => \E c \in Comandos : Poner(t, c)
    BY <2>1, Zenon DEF Fin
  <2>3. CASE ListarBucket(t)
    <3>1. \A v \in SUBSET Leads :
            [Libre EXCEPT !.que = "reinicio", !.paso = "mirar", !.visto = v] \in Comandos
      BY <2>1 DEF Comandos, PasosDeReinicio
    <3>2. \A v \in {archivos, {}} : v \in SUBSET Leads
      BY <2>0
    <3> QED BY <2>3, <3>1, <3>2, Zenon DEF ListarBucket
  <2>4. CASE MirarBase(t)
    <3>1. AsesoresActivos \in SUBSET Nombrados
      BY DEF AsesoresActivos, TiposDatos
    <3>2. \A as \in SUBSET Nombrados :
            [comando[t] EXCEPT !.paso = "confirmar", !.asesores = as] \in Comandos
      BY <2>1 DEF Comandos
    <3> QED BY <2>2, <2>4, <3>1, <3>2, Zenon DEF MirarBase
  <2>5. CASE BorrarTodo(t)
    <3>1. {l \in Leads : lead[l] # Nadie} \in SUBSET Leads
      OBVIOUS
    <3>2. \A b \in SUBSET Leads :
            [comando[t] EXCEPT !.paso = "personas", !.borrados = b] \in Comandos
      BY <2>1 DEF Comandos, PasosDeReinicio
    <3> QED BY <2>5, <3>1, <3>2, Zenon DEF BorrarTodo
  <2>6. CASE Sembrar(t)
    <3>1. \A p \in PlanesDeLeads(comando[t].asesores) : p \in Planes
      <4>1. comando[t].asesores \in SUBSET Nombrados
        BY <2>1 DEF Comandos
      <4> QED BY <4>1, PlanDeLeads DEF Planes
    <3>2. \A p \in Planes : [comando[t] EXCEPT !.paso = "s3", !.plan = p] \in Comandos
      BY <2>1 DEF Comandos, PasosDeReinicio
    <3> QED BY <2>2, <2>6, <3>1, <3>2, Zenon DEF Sembrar
  <2>7. CASE BorrarLotes(t)
    <3>1. [comando[t] EXCEPT !.paso = "confirmada"] \in Comandos
      BY <2>1 DEF Comandos, PasosDeReinicio
    <3>2. \A v : [comando[t] EXCEPT !.visto = comando[t].visto \ v] \in Comandos
      BY <2>1 DEF Comandos
    <3> QED BY <2>2, <2>7, <3>1, <3>2, Zenon DEF BorrarLotes
  <2>8. CASE MirarAsesores(t)
    <3>1. \A v \in SUBSET Nombrados :
            [Libre EXCEPT !.que = "asesores", !.paso = "confirmar", !.visto = v] \in Comandos
      BY <2>1 DEF Comandos
    <3>2. {k \in Coordinadores : asesores[k] = Nadie} \in SUBSET Nombrados
      BY DEF Nombrados
    <3> QED BY <2>8, <3>1, <3>2, Zenon DEF MirarAsesores
  <2>9. CASE MirarSocios(t)
    <3>1. \A v, w \in SUBSET Nombrados :
            [Libre EXCEPT !.que = "socios", !.paso = "confirmar", !.visto = v, !.asesores = w]
              \in Comandos
      BY <2>1 DEF Comandos
    <3> DEFINE socios == SociosDelSecreto(secreto.usuarios)
    <3>2. socios \in SUBSET Nombrados
      BY <2>0 DEF SociosDelSecreto, Usuarios, Nombrados
    <3>3. {s \in socios : asesores[s] # Nadie} \in SUBSET Nombrados
      BY <3>2
    <3> QED BY <2>9, <3>1, <3>2, <3>3, Zenon DEF MirarSocios
  <2>10. CASE PedirAgregar(t) \/ PedirQuitar(t)
    <3>1. \A us \in SUBSET Usuarios, q \in {"agregar", "quitar"} :
            [Libre EXCEPT !.que = q, !.paso = "confirmar", !.plan = us,
                          !.version = secreto.version] \in Comandos
      <4>1. \A us \in SUBSET Usuarios : us \in Planes
        BY DEF Planes
      <4> QED BY <2>0, <2>1, <4>1 DEF Comandos
    <3> QED
      BY <2>10, <3>1, EdicionesDelSecreto, Zenon DEF PedirAgregar, PedirQuitar, LeerSecreto
  <2> QED
    BY <2>2, <2>3, <2>4, <2>5, <2>6, <2>7, <2>8, <2>9, <2>10, Zenon
       DEF Comando, Desistir, Comprometer, CrearAsesores, CrearSocios, MarcarCoordinadores,
           EscribirSecreto
<1> QED BY <1>1, <1>2, <1>3, <1>4, <1>5, <1>6 DEF TiposDatos

LEMMA InicioDatos == InitDatos => InvDatos
<1> SUFFICES ASSUME InitDatos PROVE InvDatos
  OBVIOUS
<1>0. /\ \A t \in Terminales : comando[t] = Libre
      /\ archivos = {} /\ subiendo = {} /\ pasado.ingresos = 0 /\ pasado.tarde = {}
      /\ lead = [l \in Leads |-> IF l = Viejo THEN FilaLead("nuevo", Nadie) ELSE Nadie]
  BY DEF InitDatos
<1>1. FilaLead("nuevo", Nadie) \in FilasLead /\ ~FilaLead("nuevo", Nadie).marca
  BY DEF FilaLead, FilasLead
<1>2. Nadie \notin FilasLead
  BY ConsolasAssumption DEF FilasLead, Nombrados
<1>3. TiposDatos
  <2>1. lead \in [Leads -> {Nadie} \cup FilasLead]
    BY <1>0, <1>1
  <2>2. Usuario(Socio, "ceo", Nadie) \in Usuarios
    BY DEF Usuario, Usuarios
  <2>3. secreto \in [usuarios : SUBSET Usuarios, version : Nat]
    BY <2>2 DEF InitDatos
  <2>4. Fila("asesor", FALSE) \in FilasAsesor
    BY DEF Fila, FilasAsesor
  <2>5. asesores \in [Nombrados -> {Nadie} \cup FilasAsesor]
    BY <2>4 DEF InitDatos, Nombrados
  <2>6. comando \in [Terminales -> Comandos]
    BY LibreBien DEF InitDatos
  <2>7. pasado \in [comandos : Nat, cruce : BOOLEAN, roto : BOOLEAN, tarde : SUBSET Leads,
                    ingresos : {0, 1}]
    BY DEF InitDatos
  <2> QED BY <1>0, <2>1, <2>3, <2>5, <2>6, <2>7 DEF TiposDatos
<1>4. Viejo \in Leads /\ Nuevo \in Leads /\ Viejo # Nuevo /\ Sembrados \subseteq Leads \ {Viejo}
  BY ConsolasAssumption DEF Leads, Viejo, Nuevo
<1>5. ReinicioCoherente
  <2>1. AntesDelReinicio
    BY <1>0, <1>1, <1>2, <1>4 DEF AntesDelReinicio
  <2>2. ReinicioUnico /\ ReinicioHasta
    BY <1>0, LibreBien DEF ReinicioUnico, ReinicioHasta, EnReinicio, PasosDeReinicio
  <2>3. MarcaConArchivo
    BY <1>0, <1>1 DEF MarcaConArchivo
  <2>4. ArchivoConMarca /\ SembradosJuntos
    BY <1>0, <1>4 DEF ArchivoConMarca, SembradosJuntos
  <2> QED BY <2>1, <2>2, <2>3, <2>4 DEF ReinicioCoherente
<1>6. SecretoLeido
  BY <1>0, LibreBien DEF SecretoLeido
<1>7. SecretoCoherente
  <2>1. Usuario(Socio, "ceo", Nadie).rol = "ceo" /\ Usuario(Socio, "ceo", Nadie).usuario = Socio
    BY DEF Usuario
  <2>2. secreto.usuarios = {Usuario(Socio, "ceo", Nadie)}
    BY DEF InitDatos
  <2> QED BY <2>1, <2>2 DEF SecretoCoherente, ConAsesor, Nombres
<1> QED BY <1>3, <1>5, <1>6, <1>7 DEF InvDatos

LEMMA PasoDatos == InvDatos /\ [NextDatos]_varsDatos => InvDatos'
<1> SUFFICES ASSUME InvDatos, [NextDatos]_varsDatos PROVE InvDatos'
  OBVIOUS
<1>0. TiposDatos /\ ReinicioCoherente /\ SecretoLeido /\ SecretoCoherente
  BY DEF InvDatos
<1>1. TiposDatos'
  BY <1>0, PasoTiposDatos
<1>2. SinReinicio => ReinicioCoherente'
  BY <1>0, PasoSinReinicio
<1>3. SinSecreto => SecretoLeido' /\ SecretoCoherente'
  BY <1>0, PasoSinSecreto
<1>4. ASSUME NEW t \in Terminales, Comando(t)
      PROVE  ReinicioCoherente' /\ SecretoLeido' /\ SecretoCoherente'
  <2>1. ReinicioCoherente'
    BY <1>0, <1>2, <1>4, AjenosAlReinicio, PasoListarBucket, PasoMirarYBorrar, PasoSembrar,
       PasoBorrarLotes, PasoComprometer, Zenon
       DEF Comando
  <2>2. SecretoLeido' /\ SecretoCoherente'
    BY <1>0, <1>3, <1>4, AjenosAlSecreto, PasoConSecreto, Zenon DEF Comando
  <2> QED BY <2>1, <2>2
<1>5. ASSUME Ingresar \/ EditarSecreto
      PROVE  ReinicioCoherente' /\ SecretoLeido' /\ SecretoCoherente'
  BY <1>0, <1>2, <1>3, <1>5, AjenosAlReinicio, AjenosAlSecreto, PasoIngresar, PasoConSecreto, Zenon
<1>6. ASSUME NEW l \in Leads, AdjuntarArchivo(l) \/ EscribirNota(l)
      PROVE  ReinicioCoherente' /\ SecretoLeido' /\ SecretoCoherente'
  BY <1>0, <1>3, <1>6, AjenosAlSecreto, PasoAdjuntarArchivo, PasoEscribirNota, Zenon
<1>7. ASSUME UNCHANGED varsDatos
      PROVE  ReinicioCoherente' /\ SecretoLeido' /\ SecretoCoherente'
  BY <1>0, <1>2, <1>3, <1>7 DEF varsDatos, SinReinicio, SinSecreto
<1> QED
  <2>1. ReinicioCoherente' /\ SecretoLeido' /\ SecretoCoherente'
    BY <1>4, <1>5, <1>6, <1>7, Zenon DEF NextDatos
  <2> QED BY <1>1, <2>1 DEF InvDatos

(* What holds while two consoles, the application and the AWS console work  *)
(* on the data of DEV.                                                      *)
THEOREM DatosInvariante == SpecDatos => []InvDatos
BY InicioDatos, PasoDatos, PTL DEF SpecDatos

(* The tools leave notes with their files, leads of one seeding and served  *)
(* coordinators, for any number of leads, users and consoles.               *)
THEOREM DatosSonCoherentes == SpecDatos => []DatosCoherentes
<1>1. InvDatos => DatosCoherentes
  <2> SUFFICES ASSUME InvDatos PROVE DatosCoherentes
    OBVIOUS
  <2> USE DEF InvDatos, ReinicioCoherente
  <2>1. \A l \in Leads : lead[l] # Nadie /\ lead[l].marca =>
          l \in archivos \/ Bloqueado(l) \/ pasado.roto
    BY DEF MarcaConArchivo, Bloqueado
  <2>2. \A l \in archivos : \/ lead[l] # Nadie /\ lead[l].marca
                           \/ l \in subiendo \cup pasado.tarde \/ pasado.roto
    BY DEF ArchivoConMarca
  <2>3. \A s \in Sembrados : lead[s] # Nadie =>
          /\ lead[Viejo] = Nadie /\ \A r \in Sembrados : lead[r] # Nadie
          /\ lead[s].estado = "nuevo" <=> lead[s].asesor = Nadie
    BY DEF SembradosJuntos
  <2>4. \A x \in secreto.usuarios : x.rol = "coordinator" =>
          x.asesor = x.usuario /\ asesores[x.asesor] # Nadie
    BY DEF SecretoCoherente, ConAsesor
  <2> QED BY <2>1, <2>2, <2>3, <2>4 DEF DatosCoherentes
<1> QED BY <1>1, DatosInvariante, PTL

(* A command takes out of the secret only the coordinators, unless it       *)
(* overwrites a version that it did not read.                               *)
THEOREM SecretoNoPierdeUsuarios == SpecDatos => SecretoSinPerdidas
<1> DEFINE Perdida ==
      /\ \A x \in secreto.usuarios \ secreto'.usuarios :
           x.usuario \in Coordinadores \/ pasado'.cruce
      /\ Socio \in Nombres(secreto'.usuarios)
<1>1. InvDatos /\ InvDatos' /\ [NextDatos]_varsDatos => [Perdida]_varsDatos
  <2> SUFFICES ASSUME InvDatos, InvDatos', NextDatos PROVE Perdida
    OBVIOUS
  <2>1. Socio \in Nombres(secreto'.usuarios)
    BY DEF InvDatos, SecretoCoherente, Nombres
  <2>2. CASE EditarSecreto \/ UNCHANGED secreto
    BY <2>1, <2>2 DEF EditarSecreto
  <2>3. ASSUME NEW t \in Terminales, EscribirSecreto(t) PROVE Perdida
    <3>1. CASE UNCHANGED secreto
      BY <2>1, <3>1
    <3>2. CASE /\ secreto' = [usuarios |-> comando[t].plan, version |-> secreto.version + 1]
               /\ pasado' = [pasado EXCEPT !.cruce = @ \/ secreto.version # comando[t].version]
      <4>1. secreto'.usuarios = comando[t].plan
        BY <3>2
      <4>2. secreto.version # comando[t].version => pasado'.cruce
        BY <3>2 DEF InvDatos, TiposDatos
      <4>3. secreto.version = comando[t].version =>
              \A x \in secreto.usuarios \ comando[t].plan : x.usuario \in Coordinadores
        BY <2>3 DEF InvDatos, SecretoLeido, EscribirSecreto
      <4> QED BY <2>1, <4>1, <4>2, <4>3
    <3> QED BY <2>3, <3>1, <3>2, Zenon DEF EscribirSecreto
  <2> QED
    BY <2>2, <2>3, Zenon
       DEF NextDatos, Comando, Desistir, ListarBucket, MirarBase, BorrarTodo, Sembrar, BorrarLotes,
           Comprometer, MirarAsesores, CrearAsesores, MirarSocios, CrearSocios, MarcarCoordinadores,
           PedirAgregar, PedirQuitar, LeerSecreto, Ingresar, AdjuntarArchivo, EscribirNota
<1> QED BY <1>1, DatosInvariante, PTL DEF SpecDatos, SecretoSinPerdidas

-----------------------------------------------------------------------------
(* The week of the agenda *)

(* A row was accepted by the validators. *)
Aceptada(f) ==
  /\ f \in FilaCita /\ f.hor.ini \in Inicios /\ InicioValido(f.hor.ini)
  /\ f.hor.fin - f.hor.ini \in CITA_DURACIONES

AgendaInv == \A c \in Ids : citas[c] # SinCita => Aceptada(citas[c]) /\ citas[c].id = c

AgendaTabla == citas \in [Ids -> FilaCita \cup {SinCita}]

LEMMA AgendaInicio == Init => AgendaTabla /\ AgendaInv
BY DEF Init, AgendaTabla, AgendaInv

LEMMA AgendaGuarda ==
  ASSUME AgendaTabla, AgendaInv, NEW c \in Ids, NEW r \in Responsables, NEW t \in Inicios,
         NEW dur \in Duraciones, HorarioAceptado(t, dur), Guardar(c, r, t, dur)
  PROVE  (AgendaTabla /\ AgendaInv)'
<1> DEFINE f == [id |-> c, resp |-> r, agendada |-> TRUE, hor |-> [ini |-> t, fin |-> t + dur]]
<1>1. t \in Nat /\ dur \in CITA_DURACIONES /\ InicioValido(t)
  BY CalendarioAssumption DEF HorarioAceptado
<1>2. [ini |-> t, fin |-> t + dur] \in Horas
  BY <1>1 DEF Horas, R!EsHorario, CITA_DURACIONES
<1>3. f \in FilaCita /\ f.hor.ini = t /\ f.hor.fin = t + dur /\ f.id = c
  BY <1>2 DEF FilaCita
<1>4. citas' = [citas EXCEPT ![c] = f]
  BY DEF Guardar
<1> HIDE DEF f
<1>5. f.hor.fin - f.hor.ini \in CITA_DURACIONES
  <2>1. dur \in Nat
    BY <1>1 DEF CITA_DURACIONES
  <2>2. f.hor.fin - f.hor.ini = dur
    BY <1>1, <1>3, <2>1
  <2> QED BY <1>1, <2>2
<1>6. Aceptada(f)
  BY <1>1, <1>3, <1>5 DEF Aceptada
<1>7. AgendaTabla'
  BY <1>3, <1>4 DEF AgendaTabla
<1>8. \A d \in Ids : citas'[d] = IF d = c THEN f ELSE citas[d]
  BY <1>4 DEF AgendaTabla
<1>9. AgendaInv'
  BY <1>3, <1>6, <1>8 DEF AgendaInv
<1> QED BY <1>7, <1>9

LEMMA AgendaCierra ==
  ASSUME AgendaTabla, AgendaInv, NEW c \in Ids, Cerrar(c)
  PROVE  (AgendaTabla /\ AgendaInv)'
<1> DEFINE f == [citas[c] EXCEPT !.agendada = FALSE]
<1>1. citas[c] \in FilaCita /\ Aceptada(citas[c]) /\ citas[c].id = c
  BY DEF Cerrar, Agendada, AgendaInv, AgendaTabla
<1>2. citas' = [citas EXCEPT ![c] = f]
  BY DEF Cerrar
<1>3. f \in FilaCita /\ f.hor = citas[c].hor /\ f.id = c
  BY <1>1 DEF FilaCita
<1> HIDE DEF f
<1>4. Aceptada(f)
  BY <1>1, <1>3 DEF Aceptada
<1>5. AgendaTabla'
  BY <1>2, <1>3 DEF AgendaTabla
<1>6. \A d \in Ids : citas'[d] = IF d = c THEN f ELSE citas[d]
  BY <1>2 DEF AgendaTabla
<1>7. AgendaInv'
  BY <1>3, <1>4, <1>6 DEF AgendaInv
<1> QED BY <1>5, <1>7

LEMMA AgendaPaso == AgendaTabla /\ AgendaInv /\ [Next]_vars => (AgendaTabla /\ AgendaInv)'
<1> SUFFICES ASSUME AgendaTabla, AgendaInv, [Next]_vars
             PROVE  (AgendaTabla /\ AgendaInv)'
  OBVIOUS
<1>1. CASE citas' = citas
  BY <1>1 DEF AgendaTabla, AgendaInv
<1>2. ASSUME NEW c \in Ids, NEW r \in Responsables, NEW t \in Inicios, NEW dur \in Duraciones,
             Agendar(c, r, t, dur) \/ Reagendar(c, r, t, dur)
      PROVE  (AgendaTabla /\ AgendaInv)'
  BY <1>2, AgendaGuarda DEF Agendar, Reagendar
<1>3. ASSUME NEW c \in Ids, Cerrar(c)
      PROVE  (AgendaTabla /\ AgendaInv)'
  BY <1>3, AgendaCierra
<1> QED BY <1>1, <1>2, <1>3 DEF Next, Avanzar, vars

(* The days of an instant: an accepted meeting is in the week of its Monday, *)
(* in the column of its day of the week and in no other.                    *)
Lunes_(k) == k \in Nat /\ k % 7 = 0

LEMMA Dias ==
  ASSUME NEW t \in Nat
  PROVE  /\ Dia(t) \in Nat /\ DiaSemana(t) \in 0 .. 6
         /\ Dia(t) * 1440 <= t /\ t < (Dia(t) + 1) * 1440
         /\ Dia(t) * 1440 + Minuto(t) = t
         /\ Lunes_(Dia(t) - DiaSemana(t))
<1> DEFINE d == t \div 1440
           m == t % 1440
<1>1. d \in Nat /\ m \in 0 .. 1439 /\ d * 1440 + m = t
  BY SMT
<1>2. d = Dia(t) /\ m = Minuto(t) /\ d % 7 = DiaSemana(t)
  BY DEF Dia, DiaSemana, Minuto
<1> HIDE DEF d, m
<1>3. d % 7 \in 0 .. 6 /\ d = 7 * (d \div 7) + (d % 7) /\ d \div 7 \in Nat
  BY <1>1, SMT
<1>4. \A q \in Nat : (7 * q + 0) % 7 = 0
  BY SMT
<1>5. d - (d % 7) = 7 * (d \div 7) + 0
  BY <1>1, <1>3
<1>6. Lunes_(d - (d % 7))
  BY <1>3, <1>4, <1>5 DEF Lunes_
<1>7. d * 1440 <= t /\ t < (d + 1) * 1440
  BY <1>1
<1> QED BY <1>1, <1>2, <1>3, <1>6, <1>7

LEMMA UnDia ==
  ASSUME NEW d \in Nat, NEW k, Lunes_(k), NEW s \in 0 .. 4, k + s = d
  PROVE  s = d % 7 /\ k = d - (d % 7)
<1>1. PICK q \in Nat : k = 7 * q
  <2>1. \A n \in Nat : n % 7 = 0 => \E q \in Nat : n = 7 * q
    BY SMT
  <2> QED BY <2>1 DEF Lunes_
<1>2. \A n \in Nat, r \in 0 .. 6 : (7 * n + r) % 7 = r
  BY SMT
<1>3. (7 * q + s) % 7 = s
  BY <1>2
<1>4. d = 7 * q + s
  BY <1>1
<1>5. d % 7 = s
  BY <1>3, <1>4
<1>6. d - (d % 7) = k
  <2>1. d - s = k
    BY DEF Lunes_
  <2> QED BY <1>5, <2>1
<1> QED BY <1>5, <1>6

LEMMA Mostrado ==
  ASSUME NEW f, Aceptada(f)
  PROVE  LET e == Evento(f)
             t == f.hor.ini IN
         /\ e.id = f.id
         /\ Dia(t) * 1440 + HORARIO_INICIO + e.start = t
         /\ e.start + e.dur = f.hor.fin - Dia(t) * 1440 - HORARIO_INICIO
<1> DEFINE t == f.hor.ini
           n == f.hor.fin
           e == Evento(f)
<1>1. t \in Nat /\ n \in Nat /\ n - t \in {30, 45, 60} /\ Minuto(t) >= 540
  BY DEF Aceptada, FilaCita, Horas, CITA_DURACIONES, InicioValido, HORARIO_INICIO
<1>2. Dia(t) * 1440 + Minuto(t) = t /\ Dia(t) \in Nat
  <2> HIDE DEF t
  <2>1. t \in Nat
    BY <1>1
  <2> QED BY <2>1, Dias
<1>3. /\ e.id = f.id /\ e.start = Mayor(Minuto(t) - 540, 0)
      /\ e.dur = Mayor(n - t, 15)
  BY DEF Evento, HORARIO_INICIO
<1>4. Minuto(t) \in Nat
  BY <1>1 DEF Minuto
<1> HIDE DEF t, n, e
<1>5. e.start = Minuto(t) - 540 /\ e.dur = n - t
  BY <1>1, <1>3, <1>4 DEF Mayor
<1>6. /\ Dia(t) * 1440 + 540 + e.start = t
      /\ e.start + e.dur = n - Dia(t) * 1440 - 540
  BY <1>1, <1>2, <1>4, <1>5
<1> QED BY <1>3, <1>6 DEF t, n, e, HORARIO_INICIO

LEMMA EnSuColumna ==
  ASSUME AgendaTabla, AgendaInv
  PROVE  CadaCitaEnSuColumna
<1> SUFFICES ASSUME NEW f \in Insertadas
             PROVE  LET veces == {x \in Lunes \X (0 .. 4) : \E e \in Columna(x[1], x[2]) : e.id = f.id} IN
                    /\ Cardinality(veces) = 1
                    /\ \A x \in veces : \A e \in Columna(x[1], x[2]) : e.id = f.id =>
                         /\ (x[1] + x[2]) * 1440 + HORARIO_INICIO + e.start = f.hor.ini
                         /\ e.start + e.dur = f.hor.fin - (x[1] + x[2]) * 1440 - HORARIO_INICIO
  BY DEF CadaCitaEnSuColumna
<1> DEFINE t == f.hor.ini
           k == Dia(t) - DiaSemana(t)
           s == DiaSemana(t)
           veces == {x \in Lunes \X (0 .. 4) : \E e \in Columna(x[1], x[2]) : e.id = f.id}
<1>1. Aceptada(f) /\ \A g \in Insertadas : g.id = f.id => g = f
  BY DEF Insertadas, AgendaInv
<1>2. t \in Inicios /\ t \in Nat /\ s \in 0 .. 4
  <2>1. t \in Inicios /\ t \in Nat /\ DiaSemana(t) < 5
    BY <1>1, CalendarioAssumption DEF Aceptada, InicioValido
  <2> HIDE DEF t
  <2>2. DiaSemana(t) \in 0 .. 6
    BY <2>1, Dias
  <2> QED BY <2>1, <2>2
<1>3. \A l \in Lunes : Lunes_(l)
  BY CalendarioAssumption, Dias DEF Lunes
<1>4. k \in Lunes /\ k \in Nat /\ k + s = Dia(t)
  <2> HIDE DEF t
  <2>1. Dia(t) \in Nat /\ Lunes_(k)
    BY <1>2, Dias
  <2>2. k \in Lunes
    BY <1>2 DEF Lunes
  <2>3. k \in Nat
    BY <2>1 DEF Lunes_
  <2> QED BY <1>2, <2>1, <2>2, <2>3
<1>5. \A l, i : Columna(l, i) = {Evento(g) : g \in {h \in Semana(l) : Dia(h.hor.ini) = l + i}}
  BY DEF Columna
<1>6. \A l : Semana(l) \subseteq Insertadas
  BY DEF Semana
<1>7. ASSUME NEW l, NEW i, NEW e \in Columna(l, i), e.id = f.id
      PROVE  e = Evento(f) /\ Dia(t) = l + i
  <2>1. PICK g \in Semana(l) : e = Evento(g) /\ Dia(g.hor.ini) = l + i
    BY <1>5, <1>7
  <2>2. g.id = f.id
    BY <2>1, <1>7 DEF Evento
  <2>3. g = f
    BY <1>1, <1>6, <2>2
  <2> QED BY <2>1, <2>3
<1>8. Evento(f) \in Columna(k, s) /\ Evento(f).id = f.id
  <2>1. k * 1440 <= t /\ t < (k + 7) * 1440
    <3> DEFINE d == Dia(t)
    <3> HIDE DEF t
    <3>1. d \in Nat /\ d * 1440 <= t /\ t < (d + 1) * 1440
      BY <1>2, Dias
    <3>2. k \in Nat /\ s \in 0 .. 4 /\ k + s = d /\ t \in Nat
      BY <1>2, <1>4
    <3> HIDE DEF d, k, s
    <3> QED BY <3>1, <3>2
  <2>2. f \in Semana(k)
    BY <2>1 DEF Semana
  <2> QED BY <1>4, <1>5, <2>2 DEF Evento
<1>9. veces = {<<k, s>>}
  <2>1. <<k, s>> \in veces
    BY <1>2, <1>4, <1>8
  <2>2. ASSUME NEW x \in veces PROVE x = <<k, s>>
    <3>1. x[1] \in Lunes /\ x[2] \in 0 .. 4 /\ x = <<x[1], x[2]>> /\ Dia(t) = x[1] + x[2]
      BY <1>7
    <3>2. Dia(t) \in Nat /\ Lunes_(x[1])
      <4> HIDE DEF t
      <4> QED BY <1>2, <1>3, <3>1, Dias
    <3>3. x[2] = Dia(t) % 7 /\ x[1] = Dia(t) - (Dia(t) % 7)
      BY <3>1, <3>2, UnDia
    <3> QED BY <3>1, <3>3 DEF DiaSemana
  <2> QED BY <2>1, <2>2
<1>10. Cardinality(veces) = 1
  BY <1>9, FS_Singleton
<1>11. ASSUME NEW x \in veces, NEW e \in Columna(x[1], x[2]), e.id = f.id
       PROVE  /\ (x[1] + x[2]) * 1440 + HORARIO_INICIO + e.start = f.hor.ini
              /\ e.start + e.dur = f.hor.fin - (x[1] + x[2]) * 1440 - HORARIO_INICIO
  <2>1. e = Evento(f) /\ Dia(t) = x[1] + x[2]
    BY <1>7, <1>11
  <2> QED BY <1>1, <2>1, Mostrado
<1> QED BY <1>10, <1>11

-----------------------------------------------------------------------------
(* The lanes of a day *)

(* What build_week_grid gives _asignar_carriles for a day.                  *)
Reuniones(E) ==
  /\ IsFiniteSet(E)
  /\ \A e \in E : e.id \in Nat /\ e.start \in Nat /\ e.dur \in Nat /\ e.dur > 0
  /\ \A e, f \in E : e.id = f.id => e = f

(* The order of the sort is total.                                          *)
LEMMA AntesOrden ==
  ASSUME NEW E, Reuniones(E)
  PROVE  /\ \A e \in E : ~Antes(e, e)
         /\ \A e, f \in E : e = f \/ Antes(e, f) \/ Antes(f, e)
         /\ \A e, f, g \in E : Antes(e, f) /\ Antes(f, g) => Antes(e, g)
         /\ \A e, f \in E : Antes(e, f) => e.start <= f.start
BY DEF Reuniones, Antes

Primeros(E, e) == {f \in E : Antes(f, e)}

LEMMA OrdenEs ==
  ASSUME NEW E, Reuniones(E), NEW e \in E
  PROVE  /\ IsFiniteSet(Primeros(E, e)) /\ Orden(E, e) = Cardinality(Primeros(E, e)) + 1
         /\ Orden(E, e) \in 1 .. Cardinality(E)
<1> DEFINE A == Primeros(E, e)
           n == Cardinality(E)
<1>1. IsFiniteSet(E) /\ n \in Nat
  BY FS_CardinalityType DEF Reuniones
<1>2. A \in SUBSET (E \ {e})
  BY AntesOrden DEF Primeros
<1>3. Orden(E, e) = Cardinality(A) + 1
  BY DEF Orden, Primeros
<1> HIDE DEF A, n
<1>4. IsFiniteSet(E \ {e}) /\ Cardinality(E \ {e}) = n - 1
  BY <1>1, FS_RemoveElement DEF n
<1>5. IsFiniteSet(A) /\ Cardinality(A) <= n - 1 /\ Cardinality(A) \in Nat
  <2>1. IsFiniteSet(A) /\ Cardinality(A) <= Cardinality(E \ {e})
    BY <1>2, <1>4, FS_Subset
  <2> QED BY <1>4, <2>1, FS_CardinalityType
<1>6. Orden(E, e) \in 1 .. n
  BY <1>1, <1>3, <1>5
<1> QED BY <1>3, <1>5, <1>6 DEF A, n

LEMMA OrdenSube ==
  ASSUME NEW E, Reuniones(E), NEW e \in E, NEW f \in E
  PROVE  /\ Antes(e, f) <=> Orden(E, e) < Orden(E, f)
         /\ Orden(E, e) = Orden(E, f) => e = f
<1>1. ASSUME NEW x \in E, NEW y \in E, Antes(x, y)
      PROVE  Orden(E, x) < Orden(E, y)
  <2> DEFINE A == Primeros(E, x)
             B == Primeros(E, y)
  <2>1. A \cup {x} \in SUBSET B /\ x \notin A
    BY <1>1, AntesOrden DEF Primeros
  <2>2. /\ IsFiniteSet(A) /\ IsFiniteSet(B)
        /\ Orden(E, x) = Cardinality(A) + 1 /\ Orden(E, y) = Cardinality(B) + 1
    BY OrdenEs
  <2> HIDE DEF A, B
  <2>3. Cardinality(A \cup {x}) = Cardinality(A) + 1
    BY <2>1, <2>2, FS_AddElement
  <2>4. Cardinality(A \cup {x}) <= Cardinality(B)
    BY <2>1, <2>2, FS_Subset
  <2>5. Cardinality(A) \in Nat /\ Cardinality(B) \in Nat
    BY <2>2, FS_CardinalityType
  <2> QED BY <2>2, <2>3, <2>4, <2>5
<1>2. \A x, y \in E : Antes(x, y) => Orden(E, x) < Orden(E, y)
  BY <1>1
<1>3. Orden(E, e) \in Int /\ Orden(E, f) \in Int
  BY OrdenEs
<1>4. e = f \/ Antes(e, f) \/ Antes(f, e)
  BY AntesOrden
<1>5. Antes(e, f) => Orden(E, e) < Orden(E, f)
  BY <1>2
<1>6. Antes(f, e) => Orden(E, f) < Orden(E, e)
  BY <1>2
<1> QED BY <1>3, <1>4, <1>5, <1>6

(* The list the sort leaves has every meeting, each in its place.           *)
LEMMA EnOrdenEs ==
  ASSUME NEW E, Reuniones(E), NEW k \in 1 .. Cardinality(E)
  PROVE  EnOrden(E)[k] \in E /\ Orden(E, EnOrden(E)[k]) = k
<1> DEFINE n == Cardinality(E)
           o == [e \in E |-> Orden(E, e)]
<1>1. IsFiniteSet(E) /\ n \in Nat
  BY FS_CardinalityType DEF Reuniones
<1>2. IsFiniteSet(1 .. n) /\ Cardinality(1 .. n) = n
  BY <1>1, FS_Interval
<1>3. o \in Injection(E, 1 .. n)
  <2>1. \A e \in E : Orden(E, e) \in 1 .. n
    BY OrdenEs
  <2>2. \A e, f \in E : Orden(E, e) = Orden(E, f) => e = f
    BY OrdenSube
  <2> QED BY <2>1, <2>2 DEF Injection, IsInjective
<1>4. o \in Surjection(E, 1 .. n)
  <2> HIDE DEF o
  <2>1. Cardinality(E) = Cardinality(1 .. n)
    BY <1>2 DEF n
  <2> HIDE DEF n
  <2> QED BY <1>2, <1>3, <2>1, FS_Injection
<1>5. \E e \in E : Orden(E, e) = k
  BY <1>4 DEF Surjection
<1>6. EnOrden(E)[k] = CHOOSE e \in E : Orden(E, e) = k
  BY DEF EnOrden
<1> QED BY <1>5, <1>6

-----------------------------------------------------------------------------
(* What one meeting more does to the lanes *)

Final(e) == e.start + e.dur

EnGrupo(acc, e) == e.id \in acc.grupo

Carril(acc, e) == acc.lane[e.id]

Ancho(acc, e) == acc.lanes[e.id]

RepartoTipo(H, acc) ==
  /\ acc.fines \in Seq(Nat) /\ acc.fin \in Int
  /\ DOMAIN acc.lane = {h.id : h \in H} /\ DOMAIN acc.lanes = {h.id : h \in H}
  /\ acc.grupo \subseteq {h.id : h \in H}
  /\ H = {} => acc.fin = -1
  /\ H # {} => \E h \in H : EnGrupo(acc, h)
  /\ \A h \in H : Carril(acc, h) \in Nat /\ Ancho(acc, h) \in Nat
                  /\ 1 <= Carril(acc, h) /\ Carril(acc, h) <= Ancho(acc, h)

(* Nobody of a closed group is there when one of the open group starts.     *)
GrupoAparte(H, acc) ==
  \A h, g \in H : ~EnGrupo(acc, h) /\ EnGrupo(acc, g) => Final(h) <= g.start

(* The open group fits in its end, and in the ends of its lanes.            *)
GrupoDentro(H, acc) ==
  \A h \in H : EnGrupo(acc, h) =>
    /\ Final(h) <= acc.fin /\ Ancho(acc, h) = Len(acc.fines)
    /\ Final(h) <= acc.fines[Carril(acc, h)]

(* Each lane ends where a meeting of the open group does.                   *)
CarrilOcupado(H, acc) ==
  \A x \in 1 .. Len(acc.fines) :
    \E h \in H : EnGrupo(acc, h) /\ Carril(acc, h) = x /\ acc.fines[x] = Final(h)

RepartoSinChoque(H, acc) ==
  \A h, g \in H : h # g /\ SeVenALaVez(h, g) =>
    Carril(acc, h) # Carril(acc, g) /\ Ancho(acc, h) = Ancho(acc, g)

(* At the start of g every lane as wide as that of h has its meeting.       *)
Lleno(H, acc, h, g) ==
  /\ Ancho(acc, g) = Ancho(acc, h)
  /\ EnGrupo(acc, g) <=> EnGrupo(acc, h)
  /\ \A x \in 1 .. Ancho(acc, h) :
       \E o \in H : Carril(acc, o) = x /\ o.start <= g.start /\ g.start < Final(o)

RepartoJusto(H, acc) == \A h \in H : \E g \in H : Lleno(H, acc, h, g)

Reparto(H, acc) ==
  /\ RepartoTipo(H, acc) /\ GrupoAparte(H, acc) /\ GrupoDentro(H, acc) /\ CarrilOcupado(H, acc)
  /\ RepartoSinChoque(H, acc) /\ RepartoJusto(H, acc)

LEMMA RepartoInicio == Reparto({}, Vacio)
BY DEF Reparto, RepartoTipo, GrupoAparte, GrupoDentro, CarrilOcupado, RepartoSinChoque,
       RepartoJusto, Vacio

(* A meeting that comes after all of H in the sort.                         *)
Sigue(H, e) ==
  /\ e.id \in Nat /\ e.start \in Nat /\ e.dur \in Nat /\ e.dur > 0
  /\ \A h \in H : /\ h.id \in Nat /\ h.start \in Nat /\ h.dur \in Nat /\ h.dur > 0
                  /\ h.id # e.id /\ h.start <= e.start
  /\ \A h, g \in H : h.id = g.id => h = g

Previos(acc, e) == IF e.start < acc.fin THEN acc.fines ELSE <<>>

(* The lane found for it.                                                   *)
LEMMA CarrilEs ==
  ASSUME NEW fines \in Seq(Nat), NEW e, e.start \in Nat
  PROVE  \/ /\ CarrilPara(fines, e) = Len(fines) + 1
            /\ \A x \in 1 .. Len(fines) : e.start < fines[x]
         \/ CarrilPara(fines, e) \in 1 .. Len(fines) /\ fines[CarrilPara(fines, e)] <= e.start
<1> DEFINE libres == {i \in DOMAIN fines : fines[i] <= e.start}
<1>1. DOMAIN fines = 1 .. Len(fines) /\ Len(fines) \in Nat /\ \A x \in 1 .. Len(fines) : fines[x] \in Nat
  OBVIOUS
<1>2. CASE libres = {}
  <2>1. CarrilPara(fines, e) = Len(fines) + 1
    BY <1>2 DEF CarrilPara
  <2> QED BY <1>1, <1>2, <2>1
<1>3. CASE libres # {}
  <2> DEFINE Menor == OpToRel(<, Nat)
  <2>1. IsWellFoundedOn(Menor, Nat)
    BY NatLessThanWellFounded
  <2>2. \A x, y \in Nat : x < y => <<x, y>> \in Menor
    BY DEF OpToRel
  <2>3. libres \subseteq Nat
    BY <1>1
  <2> HIDE DEF Menor
  <2>4. PICK m \in libres : \A y \in libres : ~(<<y, m>> \in Menor)
    <3> HIDE DEF libres
    <3> QED BY <1>3, <2>1, <2>3, WFMin
  <2>5. ASSUME NEW y \in libres PROVE m <= y
    <3>1. y \in Nat /\ m \in Nat /\ ~(<<y, m>> \in Menor)
      BY <2>3, <2>4
    <3>2. ~(y < m)
      BY <2>2, <3>1
    <3> QED BY <3>1, <3>2
  <2>6. CarrilPara(fines, e) = CHOOSE i \in libres : \A j \in libres : i <= j
    BY <1>3 DEF CarrilPara
  <2>7. CarrilPara(fines, e) \in libres
    BY <2>5, <2>6
  <2> QED BY <1>1, <2>7
<1> QED BY <1>2, <1>3

(* The lanes after it: of a group of its own, in a lane of the open group   *)
(* that was free, or in a new one.                                          *)
Abre(acc, e, b) ==
  /\ ~(e.start < acc.fin)
  /\ Carril(b, e) = 1 /\ Len(b.fines) = 1 /\ b.fines[1] = Final(e)

Ocupa(acc, e, b) ==
  /\ e.start < acc.fin
  /\ Carril(b, e) \in 1 .. Len(acc.fines) /\ acc.fines[Carril(b, e)] <= e.start
  /\ Len(b.fines) = Len(acc.fines)
  /\ \A x \in 1 .. Len(acc.fines) :
       b.fines[x] = IF x = Carril(b, e) THEN Final(e) ELSE acc.fines[x]

Ensancha(acc, e, b) ==
  /\ e.start < acc.fin
  /\ Carril(b, e) = Len(acc.fines) + 1
  /\ \A x \in 1 .. Len(acc.fines) : e.start < acc.fines[x]
  /\ Len(b.fines) = Len(acc.fines) + 1 /\ b.fines[Len(acc.fines) + 1] = Final(e)
  /\ \A x \in 1 .. Len(acc.fines) : b.fines[x] = acc.fines[x]

Mueve(H, acc, e, b) ==
  /\ b.fines \in Seq(Nat) /\ b.fin \in Int /\ Final(e) <= b.fin
  /\ e.start < acc.fin => acc.fin <= b.fin
  /\ DOMAIN b.lane = DOMAIN acc.lane \cup {e.id} /\ DOMAIN b.lanes = DOMAIN acc.lanes \cup b.grupo
  /\ b.grupo = (IF e.start < acc.fin THEN acc.grupo ELSE {}) \cup {e.id}
  /\ EnGrupo(b, e) /\ Ancho(b, e) = Len(b.fines)
  /\ \A h \in H :
       /\ EnGrupo(b, h) <=> e.start < acc.fin /\ EnGrupo(acc, h)
       /\ Carril(b, h) = Carril(acc, h)
       /\ Ancho(b, h) = IF EnGrupo(b, h) THEN Len(b.fines) ELSE Ancho(acc, h)

LEMMA UbicarEs ==
  ASSUME NEW H, NEW acc, RepartoTipo(H, acc), NEW e, Sigue(H, e)
  PROVE  /\ Mueve(H, acc, e, Ubicar(acc, e))
         /\ \/ Abre(acc, e, Ubicar(acc, e)) \/ Ocupa(acc, e, Ubicar(acc, e))
            \/ Ensancha(acc, e, Ubicar(acc, e))
<1> DEFINE b == Ubicar(acc, e)
           mismo == e.start < acc.fin
           prev == Previos(acc, e)
           c == CarrilPara(prev, e)
           m == Len(prev)
           L == Mayor(m, c)
           F == [i \in 1 .. L |-> IF i = c THEN e.start + e.dur ELSE prev[i]]
           G == (IF mismo THEN acc.grupo ELSE {}) \cup {e.id}
<1>1. /\ b.grupo = G /\ b.fines = F
      /\ b.fin = FinDeGrupo(IF mismo THEN acc.fin ELSE -1, e)
      /\ b.lane = [x \in DOMAIN acc.lane \cup {e.id} |-> IF x = e.id THEN c ELSE acc.lane[x]]
      /\ b.lanes = [x \in DOMAIN acc.lanes \cup G |-> IF x \in G THEN Len(F) ELSE acc.lanes[x]]
  BY DEF Ubicar, Previos
<1>2. e.start \in Nat /\ e.dur \in Nat /\ e.dur > 0 /\ e.id \in Nat
  BY DEF Sigue
<1>3. acc.fines \in Seq(Nat) /\ acc.fin \in Int
  BY DEF RepartoTipo
<1>4. prev \in Seq(Nat) /\ m \in Nat /\ \A x \in 1 .. m : prev[x] \in Nat
  BY <1>3 DEF Previos
<1>5. \/ c = m + 1 /\ \A x \in 1 .. m : e.start < prev[x]
      \/ c \in 1 .. m /\ prev[c] <= e.start
  <2> HIDE DEF prev
  <2> QED BY <1>2, <1>4, CarrilEs
<1>6. mismo => prev = acc.fines
  BY DEF Previos
<1>7. ~mismo => m = 0
  BY DEF Previos
<1>8. b.fin \in Int /\ Final(e) <= b.fin /\ (mismo => acc.fin <= b.fin)
  BY <1>1, <1>2, <1>3 DEF FinDeGrupo, Mayor, Final
<1>9. \A h \in H : h.id \in DOMAIN acc.lane /\ h.id \in DOMAIN acc.lanes /\ h.id # e.id
  BY DEF Sigue, RepartoTipo
<1> HIDE DEF b, prev, c
<1>10. L \in Nat /\ L = (IF c = m + 1 THEN m + 1 ELSE m) /\ c \in 1 .. L
  BY <1>4, <1>5 DEF Mayor
<1>11. F \in Seq(Nat) /\ Len(F) = L
  <2>1. \A i \in 1 .. L : F[i] \in Nat
    BY <1>2, <1>4, <1>10
  <2>2. F = [i \in 1 .. L |-> F[i]]
    OBVIOUS
  <2>3. L \in Nat
    BY <1>10
  <2> HIDE DEF F, L
  <2>4. F \in [1 .. L -> Nat]
    BY <2>1, <2>2
  <2> QED BY <2>3, <2>4
<1>12. \A i \in 1 .. L : F[i] = IF i = c THEN Final(e) ELSE prev[i]
  BY DEF Final
<1>13. /\ Carril(b, e) = c /\ EnGrupo(b, e) /\ Ancho(b, e) = Len(F)
       /\ DOMAIN b.lane = DOMAIN acc.lane \cup {e.id} /\ DOMAIN b.lanes = DOMAIN acc.lanes \cup G
  <2> HIDE DEF F
  <2> QED BY <1>1 DEF Carril, EnGrupo, Ancho
<1>14. ASSUME NEW h \in H
       PROVE  /\ EnGrupo(b, h) <=> mismo /\ EnGrupo(acc, h)
              /\ Carril(b, h) = Carril(acc, h)
              /\ Ancho(b, h) = IF EnGrupo(b, h) THEN Len(F) ELSE Ancho(acc, h)
  <2> HIDE DEF F
  <2>1. h.id \in DOMAIN acc.lane /\ h.id \in DOMAIN acc.lanes /\ h.id # e.id
    BY <1>9
  <2>2. EnGrupo(b, h) <=> mismo /\ EnGrupo(acc, h)
    BY <1>1, <2>1 DEF EnGrupo
  <2>3. Carril(b, h) = Carril(acc, h)
    BY <1>1, <2>1 DEF Carril
  <2>4. Ancho(b, h) = IF EnGrupo(b, h) THEN Len(F) ELSE Ancho(acc, h)
    BY <1>1, <2>1 DEF Ancho, EnGrupo
  <2> QED BY <2>2, <2>3, <2>4
<1>15. Mueve(H, acc, e, b)
  <2> HIDE DEF F
  <2> QED BY <1>1, <1>8, <1>11, <1>13, <1>14 DEF Mueve
<1> HIDE DEF F, L
<1>16. Abre(acc, e, b) \/ Ocupa(acc, e, b) \/ Ensancha(acc, e, b)
  <2>1. CASE ~mismo
    <3>1. m = 0 /\ c = 1 /\ L = 1
      BY <1>5, <1>7, <1>10, <2>1
    <3> QED BY <1>1, <1>11, <1>12, <1>13, <2>1, <3>1 DEF Abre
  <2>2. CASE mismo /\ c = m + 1
    <3>1. L = m + 1 /\ prev = acc.fines /\ \A x \in 1 .. m : e.start < prev[x]
      BY <1>4, <1>5, <1>6, <1>10, <2>2
    <3>2. Len(acc.fines) = m /\ Len(b.fines) = m + 1 /\ Carril(b, e) = m + 1
      BY <1>1, <1>11, <1>13, <2>2, <3>1
    <3>3. b.fines[m + 1] = Final(e)
      BY <1>1, <1>4, <1>12, <2>2, <3>1
    <3>4. \A x \in 1 .. m : b.fines[x] = acc.fines[x]
      BY <1>1, <1>4, <1>12, <2>2, <3>1
    <3> QED BY <2>2, <3>1, <3>2, <3>3, <3>4 DEF Ensancha
  <2>3. CASE mismo /\ c # m + 1
    <3>1. L = m /\ prev = acc.fines /\ c \in 1 .. m /\ prev[c] <= e.start
      BY <1>4, <1>5, <1>6, <1>10, <2>3
    <3> QED BY <1>1, <1>4, <1>11, <1>12, <1>13, <2>3, <3>1 DEF Ocupa
  <2> QED BY <2>1, <2>2, <2>3
<1> QED BY <1>15, <1>16 DEF b

(* Who of another group has ended when e starts: everybody, if e opens one. *)
LEMMA Terminados ==
  ASSUME NEW H, NEW acc, Reparto(H, acc), NEW e, Sigue(H, e), NEW h \in H
  PROVE  /\ ~(e.start < acc.fin) => Final(h) <= e.start
         /\ ~EnGrupo(acc, h) => Final(h) <= e.start
<1>1. PICK g \in H : EnGrupo(acc, g)
  BY DEF Reparto, RepartoTipo
<1>2. /\ h.start \in Nat /\ h.dur \in Nat /\ g.start \in Nat /\ g.start <= e.start
      /\ e.start \in Nat /\ acc.fin \in Int /\ Final(h) \in Nat
  BY DEF Reparto, RepartoTipo, Sigue, Final
<1>3. ~EnGrupo(acc, h) => Final(h) <= g.start
  BY <1>1 DEF Reparto, GrupoAparte
<1>4. EnGrupo(acc, h) => Final(h) <= acc.fin
  BY DEF Reparto, GrupoDentro
<1> QED BY <1>2, <1>3, <1>4

LEMMA PasoRepartoTipo ==
  ASSUME NEW H, NEW acc, Reparto(H, acc), NEW e, Sigue(H, e), NEW b, Mueve(H, acc, e, b),
         Abre(acc, e, b) \/ Ocupa(acc, e, b) \/ Ensancha(acc, e, b)
  PROVE  RepartoTipo(H \cup {e}, b)
<1> DEFINE I == {h.id : h \in H}
           J == {h.id : h \in H \cup {e}}
           n == Len(b.fines)
           m == Len(acc.fines)
<1>1. J = I \cup {e.id}
  OBVIOUS
<1>2. DOMAIN acc.lane = I /\ DOMAIN acc.lanes = I /\ acc.grupo \subseteq I
  BY DEF Reparto, RepartoTipo
<1> HIDE DEF I, J
<1>3. DOMAIN b.lane = J /\ DOMAIN b.lanes = J /\ b.grupo \subseteq J
  BY <1>1, <1>2 DEF Mueve
<1>5. n \in Nat /\ m \in Nat
  BY DEF Reparto, RepartoTipo, Mueve
<1>6. Carril(b, e) \in Nat /\ 1 <= Carril(b, e) /\ Carril(b, e) <= n
  BY <1>5 DEF Abre, Ocupa, Ensancha
<1>7. ASSUME NEW h \in H
      PROVE  /\ Carril(b, h) \in Nat /\ Ancho(b, h) \in Nat
             /\ 1 <= Carril(b, h) /\ Carril(b, h) <= Ancho(b, h)
  <2>1. /\ Carril(acc, h) \in Nat /\ Ancho(acc, h) \in Nat
        /\ 1 <= Carril(acc, h) /\ Carril(acc, h) <= Ancho(acc, h)
    BY DEF Reparto, RepartoTipo
  <2>2. /\ EnGrupo(b, h) <=> e.start < acc.fin /\ EnGrupo(acc, h)
        /\ Carril(b, h) = Carril(acc, h)
        /\ Ancho(b, h) = IF EnGrupo(b, h) THEN n ELSE Ancho(acc, h)
    BY DEF Mueve
  <2>3. EnGrupo(acc, h) => Ancho(acc, h) = m
    BY DEF Reparto, GrupoDentro
  <2>4. e.start < acc.fin => m <= n
    BY <1>5 DEF Abre, Ocupa, Ensancha
  <2> QED BY <1>5, <2>1, <2>2, <2>3, <2>4
<1>8. /\ b.fines \in Seq(Nat) /\ b.fin \in Int /\ EnGrupo(b, e) /\ Ancho(b, e) = n
  BY DEF Mueve
<1> HIDE DEF n, m
<1>9. \A h \in H \cup {e} : Carril(b, h) \in Nat /\ Ancho(b, h) \in Nat
                            /\ 1 <= Carril(b, h) /\ Carril(b, h) <= Ancho(b, h)
  BY <1>5, <1>6, <1>7, <1>8
<1> QED BY <1>3, <1>8, <1>9 DEF RepartoTipo, J

LEMMA PasoGrupo ==
  ASSUME NEW H, NEW acc, Reparto(H, acc), NEW e, Sigue(H, e), NEW b, Mueve(H, acc, e, b),
         Abre(acc, e, b) \/ Ocupa(acc, e, b) \/ Ensancha(acc, e, b)
  PROVE  GrupoAparte(H \cup {e}, b) /\ GrupoDentro(H \cup {e}, b) /\ CarrilOcupado(H \cup {e}, b)
<1>1. /\ e.start \in Nat /\ e.dur \in Nat /\ Final(e) \in Nat
      /\ e.start <= Final(e)
      /\ \A h \in H : h.start \in Nat /\ h.dur \in Nat /\ Final(h) \in Nat
  BY DEF Sigue, Final
<1>2. /\ EnGrupo(b, e) /\ Ancho(b, e) = Len(b.fines) /\ Final(e) <= b.fin /\ b.fin \in Int
      /\ e.start < acc.fin => acc.fin <= b.fin
      /\ \A h \in H : /\ EnGrupo(b, h) <=> e.start < acc.fin /\ EnGrupo(acc, h)
                      /\ Carril(b, h) = Carril(acc, h)
                      /\ Ancho(b, h) = IF EnGrupo(b, h) THEN Len(b.fines) ELSE Ancho(acc, h)
  BY DEF Mueve
<1>3. /\ Len(acc.fines) \in Nat /\ acc.fin \in Int /\ Len(b.fines) \in Nat
      /\ \A x \in 1 .. Len(acc.fines) : acc.fines[x] \in Nat
  BY DEF Reparto, RepartoTipo, Mueve
<1>4. GrupoAparte(H \cup {e}, b)
  <2>1. ASSUME NEW h \in H, ~EnGrupo(b, h) PROVE Final(h) <= e.start
    BY <1>2, <2>1, Terminados
  <2>2. ASSUME NEW h \in H, NEW g \in H, ~EnGrupo(b, h), EnGrupo(b, g)
        PROVE  Final(h) <= g.start
    BY <1>2, <2>2 DEF Reparto, GrupoAparte
  <2> QED BY <1>2, <2>1, <2>2 DEF GrupoAparte
<1>5. ASSUME NEW h \in H, EnGrupo(b, h)
      PROVE  /\ e.start < acc.fin /\ EnGrupo(acc, h)
             /\ Final(h) <= b.fin /\ Carril(b, h) \in 1 .. Len(acc.fines)
             /\ Final(h) <= b.fines[Carril(b, h)]
  <2>1. e.start < acc.fin /\ EnGrupo(acc, h) /\ Carril(b, h) = Carril(acc, h)
    BY <1>2, <1>5
  <2>2. /\ Final(h) <= acc.fin /\ Ancho(acc, h) = Len(acc.fines)
        /\ Final(h) <= acc.fines[Carril(acc, h)]
    BY <2>1 DEF Reparto, GrupoDentro
  <2>3. Carril(acc, h) \in 1 .. Len(acc.fines)
    BY <2>2, <1>3 DEF Reparto, RepartoTipo
  <2>4. Final(h) <= b.fin
    BY <1>1, <1>2, <1>3, <2>1, <2>2
  <2> DEFINE x == Carril(b, h)
  <2>5. x \in 1 .. Len(acc.fines) /\ Final(h) <= acc.fines[x]
    BY <2>1, <2>2, <2>3
  <2> HIDE DEF x
  <2>6. CASE Ocupa(acc, e, b)
    <3>1. b.fines[x] = (IF x = Carril(b, e) THEN Final(e) ELSE acc.fines[x]) /\ acc.fines[Carril(b, e)] <= e.start
      BY <2>5, <2>6 DEF Ocupa
    <3> QED BY <1>1, <1>3, <2>1, <2>4, <2>5, <3>1 DEF x
  <2>7. CASE Ensancha(acc, e, b)
    BY <2>1, <2>4, <2>5, <2>7 DEF Ensancha, x
  <2> QED BY <2>1, <2>6, <2>7 DEF Abre
<1>6. b.fines[Carril(b, e)] = Final(e)
  BY DEF Abre, Ocupa, Ensancha
<1>7. GrupoDentro(H \cup {e}, b)
  BY <1>1, <1>2, <1>5, <1>6 DEF GrupoDentro
<1>8. ASSUME NEW x \in 1 .. Len(b.fines)
      PROVE  \E h \in H \cup {e} : EnGrupo(b, h) /\ Carril(b, h) = x /\ b.fines[x] = Final(h)
  <2>1. CASE x = Carril(b, e)
    BY <1>2, <1>6, <2>1
  <2>2. CASE x # Carril(b, e)
    <3>1. e.start < acc.fin /\ x \in 1 .. Len(acc.fines) /\ b.fines[x] = acc.fines[x]
      <4>1. Len(acc.fines) \in Nat /\ Len(b.fines) \in Nat /\ x \in Nat /\ 1 <= x /\ x <= Len(b.fines)
        BY <1>3
      <4>2. CASE Abre(acc, e, b)
        BY <2>2, <4>1, <4>2 DEF Abre
      <4>3. CASE Ocupa(acc, e, b)
        BY <2>2, <4>1, <4>3 DEF Ocupa
      <4>4. CASE Ensancha(acc, e, b)
        <5>1. x <= Len(acc.fines)
          BY <2>2, <4>1, <4>4 DEF Ensancha
        <5> QED BY <4>1, <4>4, <5>1 DEF Ensancha
      <4> QED BY <4>2, <4>3, <4>4
    <3>2. PICK h \in H : EnGrupo(acc, h) /\ Carril(acc, h) = x /\ acc.fines[x] = Final(h)
      BY <3>1 DEF Reparto, CarrilOcupado
    <3> QED BY <1>2, <3>1, <3>2
  <2> QED BY <2>1, <2>2
<1>9. CarrilOcupado(H \cup {e}, b)
  BY <1>8 DEF CarrilOcupado
<1> QED BY <1>4, <1>7, <1>9

LEMMA PasoSinChoque ==
  ASSUME NEW H, NEW acc, Reparto(H, acc), NEW e, Sigue(H, e), NEW b, Mueve(H, acc, e, b),
         Abre(acc, e, b) \/ Ocupa(acc, e, b) \/ Ensancha(acc, e, b)
  PROVE  RepartoSinChoque(H \cup {e}, b)
<1>1. /\ e.start \in Nat
      /\ \A h \in H : Final(h) \in Nat /\ h.start \in Nat /\ h.start <= e.start
  BY DEF Sigue, Final
<1>2. /\ Ancho(b, e) = Len(b.fines)
      /\ \A h \in H : /\ EnGrupo(b, h) <=> e.start < acc.fin /\ EnGrupo(acc, h)
                      /\ Carril(b, h) = Carril(acc, h)
                      /\ Ancho(b, h) = IF EnGrupo(b, h) THEN Len(b.fines) ELSE Ancho(acc, h)
  BY DEF Mueve
<1>3. ASSUME NEW h \in H, e.start < Final(h)
      PROVE  Carril(b, h) # Carril(b, e) /\ Ancho(b, h) = Ancho(b, e)
  <2>1. e.start < acc.fin /\ EnGrupo(acc, h)
    BY <1>1, <1>3, Terminados
  <2>2. Ancho(b, h) = Ancho(b, e) /\ Carril(b, h) = Carril(acc, h)
    BY <1>2, <2>1
  <2>3. /\ Final(h) <= acc.fines[Carril(acc, h)] /\ Ancho(acc, h) = Len(acc.fines)
        /\ Carril(acc, h) \in Nat /\ 1 <= Carril(acc, h) /\ Carril(acc, h) <= Ancho(acc, h)
    BY <2>1 DEF Reparto, GrupoDentro, RepartoTipo
  <2>4. Len(acc.fines) \in Nat /\ Carril(acc, h) \in 1 .. Len(acc.fines)
        /\ acc.fines[Carril(acc, h)] \in Nat
    BY <2>3 DEF Reparto, RepartoTipo
  <2>5. CASE Ocupa(acc, e, b)
    <3>1. acc.fines[Carril(b, e)] <= e.start
      BY <2>5 DEF Ocupa
    <3>2. ~(acc.fines[Carril(acc, h)] <= e.start)
      BY <1>1, <1>3, <2>3, <2>4
    <3> QED BY <2>2, <3>1, <3>2
  <2>6. CASE Ensancha(acc, e, b)
    BY <2>2, <2>4, <2>6 DEF Ensancha
  <2> QED BY <2>1, <2>5, <2>6 DEF Abre
<1>4. ASSUME NEW h \in H, NEW g \in H, h # g, h.start < Final(g), g.start < Final(h)
      PROVE  Carril(b, h) # Carril(b, g) /\ Ancho(b, h) = Ancho(b, g)
  <2>1. Carril(acc, h) # Carril(acc, g) /\ Ancho(acc, h) = Ancho(acc, g)
    BY <1>4 DEF Reparto, RepartoSinChoque, SeVenALaVez, Final
  <2>2. EnGrupo(acc, h) <=> EnGrupo(acc, g)
    <3>1. ~EnGrupo(acc, h) /\ EnGrupo(acc, g) => Final(h) <= g.start
      BY DEF Reparto, GrupoAparte
    <3>2. ~EnGrupo(acc, g) /\ EnGrupo(acc, h) => Final(g) <= h.start
      BY DEF Reparto, GrupoAparte
    <3> QED BY <1>1, <1>4, <3>1, <3>2
  <2> QED BY <1>2, <2>1, <2>2
<1>5. ASSUME NEW h \in H \cup {e}, NEW g \in H \cup {e}, h # g, SeVenALaVez(h, g)
      PROVE  Carril(b, h) # Carril(b, g) /\ Ancho(b, h) = Ancho(b, g)
  <2>1. h.start < Final(g) /\ g.start < Final(h)
    BY <1>5 DEF SeVenALaVez, Final
  <2>2. CASE h = e
    BY <1>3, <1>5, <2>1, <2>2
  <2>3. CASE g = e
    BY <1>3, <1>5, <2>1, <2>3
  <2>4. CASE h \in H /\ g \in H
    BY <1>4, <1>5, <2>1, <2>4
  <2> QED BY <2>2, <2>3, <2>4
<1> QED BY <1>5 DEF RepartoSinChoque

LEMMA PasoJusto ==
  ASSUME NEW H, NEW acc, Reparto(H, acc), NEW e, Sigue(H, e), NEW b, Mueve(H, acc, e, b),
         Abre(acc, e, b) \/ Ocupa(acc, e, b) \/ Ensancha(acc, e, b)
  PROVE  RepartoJusto(H \cup {e}, b)
<1> DEFINE S == H \cup {e}
           m == Len(acc.fines)
<1>1. /\ e.start \in Nat /\ e.start < Final(e) /\ e.start <= e.start
      /\ \A h \in H : Final(h) \in Nat /\ h.start \in Nat /\ h.start <= e.start
  BY DEF Sigue, Final
<1>2. /\ EnGrupo(b, e) /\ Ancho(b, e) = Len(b.fines)
      /\ \A h \in H : /\ EnGrupo(b, h) <=> e.start < acc.fin /\ EnGrupo(acc, h)
                      /\ Carril(b, h) = Carril(acc, h)
                      /\ Ancho(b, h) = IF EnGrupo(b, h) THEN Len(b.fines) ELSE Ancho(acc, h)
  BY DEF Mueve
<1>3. m \in Nat /\ \A x \in 1 .. m : acc.fines[x] \in Nat
  BY DEF Reparto, RepartoTipo
<1>4. \A h \in H : EnGrupo(acc, h) => Ancho(acc, h) = m
  BY DEF Reparto, GrupoDentro
(* A meeting whose group keeps its width keeps its witness.                 *)
<1>5. ASSUME NEW h \in H, EnGrupo(b, h) => Len(b.fines) = m,
             ~EnGrupo(b, h) => ~EnGrupo(acc, h) \/ ~(e.start < acc.fin)
      PROVE  \E g \in H : Lleno(S, b, h, g)
  <2>1. PICK g \in H : Lleno(H, acc, h, g)
    BY DEF Reparto, RepartoJusto
  <2>2. /\ Ancho(acc, g) = Ancho(acc, h) /\ (EnGrupo(acc, g) <=> EnGrupo(acc, h))
        /\ \A x \in 1 .. Ancho(acc, h) :
             \E o \in H : Carril(acc, o) = x /\ o.start <= g.start /\ g.start < Final(o)
    BY <2>1 DEF Lleno
  <2>3. EnGrupo(b, g) <=> EnGrupo(b, h)
    BY <1>2, <2>2
  <2>4. Ancho(b, h) = Ancho(acc, h)
    BY <1>2, <1>4, <1>5
  <2>5. Ancho(b, g) = Ancho(b, h)
    BY <1>2, <2>2, <2>3
  <2>6. ASSUME NEW x \in 1 .. Ancho(b, h)
        PROVE  \E o \in S : Carril(b, o) = x /\ o.start <= g.start /\ g.start < Final(o)
    <3>1. PICK o \in H : Carril(acc, o) = x /\ o.start <= g.start /\ g.start < Final(o)
      BY <2>2, <2>4
    <3> QED BY <1>2, <3>1
  <2> HIDE DEF S
  <2> QED BY <2>3, <2>5, <2>6 DEF Lleno
(* The start of e is the busiest of its group when it opens it or widens it. *)
<1>6. ASSUME Abre(acc, e, b) \/ Ensancha(acc, e, b), NEW h \in S, EnGrupo(b, h)
      PROVE  Lleno(S, b, h, e)
  <2>1. Ancho(b, h) = Len(b.fines)
    BY <1>2, <1>6
  <2>2. ASSUME NEW x \in 1 .. Len(b.fines)
        PROVE  \E o \in S : Carril(b, o) = x /\ o.start <= e.start /\ e.start < Final(o)
    <3>1. CASE x = Carril(b, e)
      BY <1>1, <3>1
    <3>2. CASE x # Carril(b, e)
      <4>1. Ensancha(acc, e, b)
        <5>1. Abre(acc, e, b) => x \in 1 .. 1 /\ Carril(b, e) = 1
          BY DEF Abre
        <5>2. \A y \in 1 .. 1 : y = 1
          OBVIOUS
        <5> QED BY <1>6, <3>2, <5>1, <5>2
      <4>2. x \in 1 .. m
        BY <1>3, <3>2, <4>1 DEF Ensancha
      <4>3. e.start < acc.fines[x]
        BY <4>1, <4>2 DEF Ensancha
      <4>4. PICK o \in H : EnGrupo(acc, o) /\ Carril(acc, o) = x /\ acc.fines[x] = Final(o)
        BY <4>2 DEF Reparto, CarrilOcupado
      <4> QED BY <1>1, <1>2, <4>3, <4>4
    <3> QED BY <3>1, <3>2
  <2> HIDE DEF S
  <2> QED BY <1>2, <1>6, <2>1, <2>2 DEF Lleno
<1>7. ASSUME NEW h \in S PROVE \E g \in S : Lleno(S, b, h, g)
  <2>1. CASE h # e /\ ~EnGrupo(b, h)
    <3>1. h \in H /\ (~EnGrupo(acc, h) \/ ~(e.start < acc.fin))
      BY <1>2, <2>1
    <3>2. \E g \in H : Lleno(S, b, h, g)
      <4> HIDE DEF S
      <4> QED BY <1>5, <2>1, <3>1
    <3> QED BY <3>2
  <2>2. CASE EnGrupo(b, h) /\ ~Ocupa(acc, e, b)
    <3>1. Lleno(S, b, h, e)
      <4> HIDE DEF S
      <4> QED BY <1>6, <2>2
    <3> QED BY <3>1
  <2>3. CASE h # e /\ EnGrupo(b, h) /\ Ocupa(acc, e, b)
    <3>1. h \in H /\ Len(b.fines) = m
      BY <2>3 DEF Ocupa
    <3>2. \E g \in H : Lleno(S, b, h, g)
      <4> HIDE DEF S
      <4> QED BY <1>5, <2>3, <3>1
    <3> QED BY <3>2
  <2>4. CASE h = e /\ Ocupa(acc, e, b)
    <3>1. e.start < acc.fin /\ Len(b.fines) = m
      BY <2>4 DEF Ocupa
    <3>2. H # {}
      BY <1>1, <3>1 DEF Reparto, RepartoTipo
    <3>3. PICK o \in H : EnGrupo(acc, o)
      BY <3>2 DEF Reparto, RepartoTipo
    <3>4. EnGrupo(b, o) /\ Ancho(b, o) = Len(b.fines)
      BY <1>2, <3>1, <3>3
    <3>5. PICK g \in H : Lleno(S, b, o, g)
      <4> HIDE DEF S
      <4> QED BY <1>5, <3>1, <3>4
    <3>6. Lleno(S, b, e, g)
      <4> HIDE DEF S
      <4> QED BY <1>2, <3>4, <3>5 DEF Lleno
    <3> QED BY <2>4, <3>6
  <2> QED BY <1>2, <2>1, <2>2, <2>3, <2>4
<1> HIDE DEF S
<1>8. RepartoJusto(S, b)
  BY <1>7 DEF RepartoJusto
<1> QED BY <1>8 DEF S

LEMMA PasoReparto ==
  ASSUME NEW H, NEW acc, Reparto(H, acc), NEW e, Sigue(H, e)
  PROVE  Reparto(H \cup {e}, Ubicar(acc, e))
<1> DEFINE b == Ubicar(acc, e)
<1>1. Mueve(H, acc, e, b) /\ (Abre(acc, e, b) \/ Ocupa(acc, e, b) \/ Ensancha(acc, e, b))
  BY UbicarEs DEF Reparto
<1> HIDE DEF b
<1>2. RepartoTipo(H \cup {e}, b)
  BY <1>1, PasoRepartoTipo
<1>3. GrupoAparte(H \cup {e}, b) /\ GrupoDentro(H \cup {e}, b) /\ CarrilOcupado(H \cup {e}, b)
  BY <1>1, PasoGrupo
<1>4. RepartoSinChoque(H \cup {e}, b)
  BY <1>1, PasoSinChoque
<1>5. RepartoJusto(H \cup {e}, b)
  BY <1>1, PasoJusto
<1> QED BY <1>2, <1>3, <1>4, <1>5 DEF Reparto, b

-----------------------------------------------------------------------------
(* The whole day *)

(* The recursion of _asignar_carriles over the sorted list.                 *)
EsTras(E, n, tr) ==
  tr = [k \in 0 .. n |-> IF k = 0 THEN Vacio ELSE Ubicar(tr[k - 1], EnOrden(E)[k])]

LEMMA AsignarEs ==
  ASSUME NEW E
  PROVE  AsignarCarriles(E) =
           (CHOOSE tr : EsTras(E, Cardinality(E), tr))[Cardinality(E)]
BY DEF AsignarCarriles, EsTras

(* A set of numbers that has 0 and the next of each has them all.           *)
LEMMA HastaEl ==
  ASSUME NEW n \in Nat, NEW B, 0 \in B, \A k \in 1 .. n : k - 1 \in B => k \in B
  PROVE  0 .. n \subseteq B
<1> DEFINE Menor == OpToRel(<, Nat)
           M == (0 .. n) \ B
<1>1. IsWellFoundedOn(Menor, Nat)
  BY NatLessThanWellFounded
<1>2. \A x, y \in Nat : x < y => <<x, y>> \in Menor
  BY DEF OpToRel
<1>3. M \subseteq Nat
  OBVIOUS
<1> HIDE DEF Menor, M
<1>4. ASSUME M # {} PROVE FALSE
  <2>1. PICK m \in M : \A y \in M : ~(<<y, m>> \in Menor)
    BY <1>1, <1>3, <1>4, WFMin
  <2>2. m \in 0 .. n /\ m \notin B /\ m # 0
    BY <2>1 DEF M
  <2>3. m \in 1 .. n /\ m - 1 \in 0 .. n /\ m - 1 < m /\ m - 1 \in Nat /\ m \in Nat
    BY <2>2
  <2>4. m - 1 \notin M
    BY <1>2, <2>1, <2>3
  <2>5. m - 1 \in B
    BY <2>3, <2>4 DEF M
  <2> QED BY <2>2, <2>3, <2>5
<1> QED BY <1>4 DEF M

LEMMA HayTras ==
  ASSUME NEW E, NEW n \in Nat
  PROVE  \E tr : EsTras(E, n, tr)
<1> DEFINE B == {k \in 0 .. n : \E tr : EsTras(E, k, tr)}
<1>1. 0 \in B
  <2> DEFINE t == [k \in 0 .. 0 |-> Vacio]
  <2>1. EsTras(E, 0, t)
    <3>1. \A k \in 0 .. 0 : k = 0
      OBVIOUS
    <3> QED BY <3>1 DEF EsTras
  <2> QED BY <2>1
<1>2. ASSUME NEW k \in 1 .. n, k - 1 \in B PROVE k \in B
  <2>1. PICK tr : EsTras(E, k - 1, tr)
    BY <1>2
  <2> DEFINE q == EnOrden(E)
             t == [j \in 0 .. k |-> IF j = k THEN Ubicar(tr[k - 1], q[k]) ELSE tr[j]]
  <2>2. k \in Nat /\ k > 0 /\ k \in 0 .. n
    OBVIOUS
  <2>3. \A j \in 0 .. k - 1 : tr[j] = IF j = 0 THEN Vacio ELSE Ubicar(tr[j - 1], q[j])
    <3> HIDE DEF q
    <3>1. tr = [j \in 0 .. k - 1 |-> IF j = 0 THEN Vacio ELSE Ubicar(tr[j - 1], q[j])]
      BY <2>1 DEF EsTras, q
    <3> QED BY <3>1
  <2> HIDE DEF q
  <2>4. ASSUME NEW j \in 0 .. k
        PROVE  t[j] = IF j = 0 THEN Vacio ELSE Ubicar(t[j - 1], q[j])
    <3>1. CASE j = k
      <4>1. t[k] = Ubicar(tr[k - 1], q[k]) /\ k - 1 \in 0 .. k /\ k - 1 # k
        BY <2>2
      <4>2. t[k - 1] = tr[k - 1]
        BY <4>1
      <4> HIDE DEF t
      <4> QED BY <2>2, <3>1, <4>1, <4>2
    <3>2. CASE j = 0
      <4>1. t[j] = tr[j] /\ j \in 0 .. k - 1
        BY <2>2, <3>2
      <4> HIDE DEF t
      <4> QED BY <2>3, <3>2, <4>1
    <3>3. CASE j # 0 /\ j # k
      <4>1. j \in 0 .. k - 1 /\ j - 1 \in 0 .. k /\ j - 1 # k
        BY <2>2, <3>3
      <4>2. t[j] = tr[j] /\ t[j - 1] = tr[j - 1]
        BY <3>3, <4>1
      <4> HIDE DEF t
      <4> QED BY <2>3, <3>3, <4>1, <4>2
    <3> QED BY <3>1, <3>2, <3>3
  <2>5. t = [j \in 0 .. k |-> t[j]]
    OBVIOUS
  <2> HIDE DEF t
  <2>6. EsTras(E, k, t)
    BY <2>4, <2>5 DEF EsTras, q
  <2> QED BY <2>2, <2>6
<1> HIDE DEF B
<1>3. n \in B
  <2>1. 0 .. n \subseteq B
    BY <1>1, <1>2, HastaEl
  <2>2. n \in 0 .. n
    OBVIOUS
  <2> QED BY <2>1, <2>2
<1> QED BY <1>3 DEF B

(* The meetings of the first k places.                                      *)
Hasta(E, k) == {e \in E : Orden(E, e) <= k}

LEMMA HastaSiguiente ==
  ASSUME NEW E, Reuniones(E), NEW k \in 1 .. Cardinality(E)
  PROVE  /\ Hasta(E, k) = Hasta(E, k - 1) \cup {EnOrden(E)[k]}
         /\ Sigue(Hasta(E, k - 1), EnOrden(E)[k])
<1> DEFINE q == EnOrden(E)[k]
<1>1. q \in E /\ Orden(E, q) = k
  BY EnOrdenEs
<1>2. k \in Nat /\ \A e \in E : Orden(E, e) \in Int
  <2>1. Cardinality(E) \in Nat
    BY FS_CardinalityType DEF Reuniones
  <2> QED BY <2>1, OrdenEs
<1>3. \A e \in E : Orden(E, e) = k => e = q
  BY <1>1, OrdenSube
<1> HIDE DEF q
<1>4. Hasta(E, k) = Hasta(E, k - 1) \cup {q}
  <2>1. \A e \in E : Orden(E, e) <= k <=> Orden(E, e) <= k - 1 \/ e = q
    BY <1>1, <1>2, <1>3
  <2> QED BY <1>1, <2>1 DEF Hasta
<1>5. ASSUME NEW e \in Hasta(E, k - 1)
      PROVE  e \in E /\ e.start <= q.start /\ e # q
  <2>1. e \in E /\ Orden(E, e) < Orden(E, q)
    BY <1>1, <1>2 DEF Hasta
  <2>2. Antes(e, q)
    BY <1>1, <2>1, OrdenSube
  <2> QED BY <1>1, <2>1, <2>2, AntesOrden
<1>6. Sigue(Hasta(E, k - 1), q)
  BY <1>1, <1>5 DEF Sigue, Reuniones
<1> QED BY <1>4, <1>6 DEF q

LEMMA AsignarBien ==
  ASSUME NEW E, Reuniones(E)
  PROVE  Reparto(E, AsignarCarriles(E))
<1> DEFINE n == Cardinality(E)
           tr == CHOOSE t : EsTras(E, n, t)
           q == EnOrden(E)
           B == {k \in 0 .. n : Reparto(Hasta(E, k), tr[k])}
<1>1. n \in Nat
  BY FS_CardinalityType DEF Reuniones
<1>2. EsTras(E, n, tr)
  BY <1>1, HayTras
<1> HIDE DEF tr, q
<1>3. \A k \in 0 .. n : tr[k] = IF k = 0 THEN Vacio ELSE Ubicar(tr[k - 1], q[k])
  <2>1. tr = [k \in 0 .. n |-> IF k = 0 THEN Vacio ELSE Ubicar(tr[k - 1], q[k])]
    BY <1>2 DEF EsTras, q
  <2> QED BY <2>1
<1>4. \A e \in E : Orden(E, e) \in 1 .. n
  BY OrdenEs
<1> HIDE DEF n
<1>5. Hasta(E, 0) = {} /\ Hasta(E, n) = E
  BY <1>1, <1>4 DEF Hasta
<1>6. 0 \in B
  BY <1>1, <1>3, <1>5, RepartoInicio
<1>7. ASSUME NEW k \in 1 .. n, k - 1 \in B PROVE k \in B
  <2>1. k \in 0 .. n /\ k # 0
    BY <1>1
  <2>2. Reparto(Hasta(E, k - 1), tr[k - 1])
    BY <1>7
  <2>3. tr[k] = Ubicar(tr[k - 1], q[k])
    BY <1>3, <2>1
  <2>4. Hasta(E, k) = Hasta(E, k - 1) \cup {q[k]} /\ Sigue(Hasta(E, k - 1), q[k])
    BY HastaSiguiente DEF n, q
  <2>5. Reparto(Hasta(E, k), tr[k])
    BY <2>2, <2>3, <2>4, PasoReparto
  <2> QED BY <2>1, <2>5
<1> HIDE DEF B
<1>8. n \in B
  <2>1. 0 .. n \subseteq B
    BY <1>1, <1>6, <1>7, HastaEl
  <2> QED BY <1>1, <2>1
<1>9. AsignarCarriles(E) = tr[n]
  BY AsignarEs DEF tr, n
<1> QED BY <1>5, <1>8, <1>9 DEF B

(* A column of the week is a day of meetings.                               *)
LEMMA ColumnaEs ==
  ASSUME AgendaTabla, AgendaInv, NEW lunes, NEW i
  PROVE  Reuniones(Columna(lunes, i))
<1> DEFINE E == Columna(lunes, i)
           o == [e \in E |-> e.id]
<1>1. Columna(lunes, i) = {Evento(f) : f \in {g \in Semana(lunes) : Dia(g.hor.ini) = lunes + i}}
  BY DEF Columna
<1>2. ASSUME NEW e \in E
      PROVE  \E f \in Insertadas : e = Evento(f)
  <2>1. Semana(lunes) \subseteq Insertadas
    BY DEF Semana
  <2> QED BY <1>1, <2>1
<1>3. \A f \in Insertadas : Aceptada(f) /\ f.id \in Ids
  BY DEF Insertadas, AgendaInv
<1>4. \A f, g \in Insertadas : f.id = g.id => f = g
  BY DEF Insertadas, AgendaInv
<1>5. ASSUME NEW f \in Insertadas
      PROVE  LET e == Evento(f) IN
             e.id = f.id /\ e.start \in Nat /\ e.dur \in Nat /\ e.dur > 0
  <2> DEFINE t == f.hor.ini
             n == f.hor.fin
  <2>1. t \in Nat /\ n \in Nat /\ n - t \in {30, 45, 60} /\ Minuto(t) >= 540
    BY <1>3 DEF Aceptada, FilaCita, Horas, CITA_DURACIONES, InicioValido, HORARIO_INICIO
  <2>2. Minuto(t) \in Nat
    BY <2>1 DEF Minuto
  <2>3. /\ Evento(f).id = f.id /\ Evento(f).start = Mayor(Minuto(t) - 540, 0)
        /\ Evento(f).dur = Mayor(n - t, 15)
    BY DEF Evento, HORARIO_INICIO
  <2> HIDE DEF t, n
  <2> QED BY <2>1, <2>2, <2>3 DEF Mayor
<1> HIDE DEF E
<1>6. \A e \in E : e.id \in Ids /\ e.start \in Nat /\ e.dur \in Nat /\ e.dur > 0
  BY <1>2, <1>3, <1>5
<1>7. ASSUME NEW e \in E, NEW f \in E, e.id = f.id PROVE e = f
  BY <1>2, <1>4, <1>5, <1>7
<1>8. o \in Injection(E, Ids)
  BY <1>6, <1>7 DEF Injection, IsInjective
<1>9. IsFiniteSet(E)
  <2> HIDE DEF o
  <2> QED BY <1>8, CalendarioAssumption, FS_Injection
<1>10. \A e \in E : e.id \in Nat
  BY <1>6, CalendarioAssumption
<1> QED BY <1>6, <1>7, <1>9, <1>10 DEF Reuniones, E

(* Those that go on at an instant have a lane each.                         *)
LEMMA LlenoJusto ==
  ASSUME NEW E, Reuniones(E), NEW acc, Reparto(E, acc), NEW e \in E, NEW f \in E,
         Lleno(E, acc, e, f), NEW D,
         D = {g \in E : g.start <= f.start /\ f.start < g.start + g.dur}
  PROVE  Cardinality(D) = Ancho(acc, e)
<1> DEFINE w == Ancho(acc, e)
           l == [g \in D |-> Carril(acc, g)]
<1>1. \A g \in E : g.start \in Nat /\ g.dur \in Nat /\ g.dur > 0
  BY DEF Reuniones
<1>2. w \in Nat /\ Ancho(acc, f) = w
  BY DEF Reparto, RepartoTipo, Lleno
<1>3. ASSUME NEW g \in D, NEW h \in D, g # h
      PROVE  Carril(acc, g) # Carril(acc, h) /\ Ancho(acc, g) = Ancho(acc, h)
  <2>1. /\ g \in E /\ h \in E /\ g.start <= f.start /\ f.start < h.start + h.dur
        /\ h.start <= f.start /\ f.start < g.start + g.dur
    OBVIOUS
  <2>2. SeVenALaVez(g, h)
    BY <1>1, <2>1 DEF SeVenALaVez
  <2> QED BY <1>3, <2>1, <2>2 DEF Reparto, RepartoSinChoque
<1>4. f \in D
  BY <1>1
<1>5. ASSUME NEW g \in D PROVE Ancho(acc, g) = w /\ Carril(acc, g) \in 1 .. w
  <2>1. Ancho(acc, g) = w
    BY <1>2, <1>3, <1>4
  <2>2. g \in E
    OBVIOUS
  <2>3. Carril(acc, g) \in Nat /\ 1 <= Carril(acc, g) /\ Carril(acc, g) <= Ancho(acc, g)
    BY <2>2 DEF Reparto, RepartoTipo
  <2> QED BY <1>2, <2>1, <2>3
<1>6. \A x \in 1 .. w : \E g \in D : Carril(acc, g) = x
  <2> TAKE x \in 1 .. w
  <2>1. PICK g \in E : Carril(acc, g) = x /\ g.start <= f.start /\ f.start < Final(g)
    BY DEF Lleno
  <2> QED BY <2>1 DEF Final
<1> HIDE DEF w
<1>7. l \in Injection(D, 1 .. w)
  BY <1>3, <1>5 DEF Injection, IsInjective
<1>8. l \in Surjection(D, 1 .. w)
  BY <1>5, <1>6 DEF Surjection
<1>9. IsFiniteSet(1 .. w) /\ Cardinality(1 .. w) = w
  BY <1>2, FS_Interval
<1> HIDE DEF l
<1>10. Cardinality(D) = Cardinality(1 .. w)
  BY <1>7, <1>8, <1>9, FS_Injection
<1> QED BY <1>9, <1>10 DEF w

LEMMA CarrilesBien ==
  ASSUME AgendaTabla, AgendaInv
  PROVE  CarrilesSinChoque /\ CarrilesJustos
<1> DEFINE E(lunes, i) == Columna(lunes, i)
           r(lunes, i) == AsignarCarriles(E(lunes, i))
<1>1. \A lunes, i : Reuniones(E(lunes, i)) /\ Reparto(E(lunes, i), r(lunes, i))
  BY ColumnaEs, AsignarBien
<1> HIDE DEF E, r
<1>2. ASSUME NEW lunes, NEW i, NEW e \in E(lunes, i), NEW f \in E(lunes, i),
             e.id # f.id, SeVenALaVez(e, f)
      PROVE  /\ r(lunes, i).lane[e.id] # r(lunes, i).lane[f.id]
             /\ r(lunes, i).lanes[e.id] = r(lunes, i).lanes[f.id]
  <2>1. RepartoSinChoque(E(lunes, i), r(lunes, i))
    BY <1>1 DEF Reparto
  <2> QED BY <1>2, <2>1 DEF RepartoSinChoque, Carril, Ancho
<1>3. CarrilesSinChoque
  BY <1>2 DEF CarrilesSinChoque, E, r
<1>4. ASSUME NEW lunes, NEW i, NEW e \in E(lunes, i)
      PROVE  /\ r(lunes, i).lane[e.id] <= r(lunes, i).lanes[e.id]
             /\ \E f \in E(lunes, i) :
                  /\ Cardinality({g \in E(lunes, i) : g.start <= f.start /\ f.start < g.start + g.dur})
                       = r(lunes, i).lanes[e.id]
                  /\ r(lunes, i).lanes[f.id] = r(lunes, i).lanes[e.id]
  <2> DEFINE S == E(lunes, i)
             a == r(lunes, i)
  <2>1. Reuniones(S) /\ Reparto(S, a)
    BY <1>1
  <2> HIDE DEF S, a
  <2>2. Carril(a, e) <= Ancho(a, e)
    BY <2>1 DEF Reparto, RepartoTipo, S
  <2>3. PICK f \in S : Lleno(S, a, e, f)
    BY <2>1 DEF Reparto, RepartoJusto, S
  <2> DEFINE D == {g \in S : g.start <= f.start /\ f.start < g.start + g.dur}
  <2>4. Cardinality(D) = Ancho(a, e)
    <3>1. e \in S
      BY DEF S
    <3>2. D = {g \in S : g.start <= f.start /\ f.start < g.start + g.dur}
      OBVIOUS
    <3> HIDE DEF D
    <3> QED BY <2>1, <2>3, <3>1, <3>2, LlenoJusto
  <2>5. Ancho(a, f) = Ancho(a, e)
    BY <2>3 DEF Lleno
  <2> QED BY <2>2, <2>4, <2>5 DEF Carril, Ancho, S, a
<1>5. CarrilesJustos
  BY <1>4 DEF CarrilesJustos, E, r
<1> QED BY <1>3, <1>5

(* Whatever the hours asked for and however often a meeting is moved, the    *)
(* week view has every accepted meeting once, at its hour and as long as it *)
(* is; meetings that overlap are in different lanes of the same group, and   *)
(* no group is wider than its busiest moment.                               *)
THEOREM SemanaSiempreCorrecta == Spec => []SemanaCorrecta
<1>1. AgendaTabla /\ AgendaInv => SemanaCorrecta
  BY EnSuColumna, CarrilesBien DEF SemanaCorrecta
<1> QED BY <1>1, AgendaInicio, AgendaPaso, PTL DEF Spec

-----------------------------------------------------------------------------
(* The simulator: the order of the children *)

(* Persons of whom the form has everything.                                 *)
Completas ==
  [sexo : {"H", "M"}, nac : [mes : Int, tarde : BOOLEAN], inv : {"no", "parcial", "total"},
   comun : BOOLEAN]

LEMMA VaAntesOrden ==
  /\ \A a \in Completas : ~VaAntes(a, a)
  /\ \A a, b \in Completas : VaAntes(a, b) => ~VaAntes(b, a)
  /\ \A a, b, c \in Completas : VaAntes(a, b) /\ VaAntes(b, c) => VaAntes(a, c)
  /\ \A a, b, c \in Completas : VaAntes(a, b) => VaAntes(a, c) \/ VaAntes(c, b)
<1>1. ASSUME NEW a \in Completas PROVE ~VaAntes(a, a)
  BY DEF VaAntes, NacioAntes, Completas
<1>2. ASSUME NEW a \in Completas, NEW b \in Completas, VaAntes(a, b) PROVE ~VaAntes(b, a)
  BY <1>2 DEF VaAntes, NacioAntes, Completas
<1>3. ASSUME NEW a \in Completas, NEW b \in Completas, NEW c \in Completas, VaAntes(a, b), VaAntes(b, c)
      PROVE  VaAntes(a, c)
  BY <1>3 DEF VaAntes, NacioAntes, Completas
<1>4. ASSUME NEW a \in Completas, NEW b \in Completas, NEW c \in Completas, VaAntes(a, b)
      PROVE  VaAntes(a, c) \/ VaAntes(c, b)
  BY <1>4, SMTT(30) DEF VaAntes, NacioAntes, Completas
<1> QED BY <1>1, <1>2, <1>3, <1>4

LEMMA PrecedeOrden ==
  ASSUME NEW hs \in Seq(Completas), NEW i \in 1 .. Len(hs), NEW j \in 1 .. Len(hs)
  PROVE  /\ ~Precede(hs, i, i)
         /\ Precede(hs, i, j) => ~Precede(hs, j, i)
         /\ i # j => Precede(hs, i, j) \/ Precede(hs, j, i)
         /\ \A k \in 1 .. Len(hs) : Precede(hs, i, j) /\ Precede(hs, j, k) => Precede(hs, i, k)
<1>1. hs[i] \in Completas /\ hs[j] \in Completas /\ i \in Int /\ j \in Int
  OBVIOUS
<1>2. ~Precede(hs, i, i)
  BY <1>1, VaAntesOrden DEF Precede
<1>3. Precede(hs, i, j) => ~Precede(hs, j, i)
  BY <1>1, VaAntesOrden DEF Precede
<1>4. i # j => Precede(hs, i, j) \/ Precede(hs, j, i)
  BY <1>1, VaAntesOrden DEF Precede
<1>5. ASSUME NEW k \in 1 .. Len(hs), Precede(hs, i, j), Precede(hs, j, k)
      PROVE  Precede(hs, i, k)
  <2>1. hs[k] \in Completas /\ k \in Int
    OBVIOUS
  <2> DEFINE x == hs[i]
             y == hs[j]
             z == hs[k]
  <2>2. /\ VaAntes(x, y) \/ (i < j /\ ~VaAntes(y, x))
        /\ VaAntes(y, z) \/ (j < k /\ ~VaAntes(z, y))
    BY <1>5 DEF Precede
  <2> HIDE DEF x, y, z
  <2>3. x \in Completas /\ y \in Completas /\ z \in Completas
    BY <1>1, <2>1 DEF x, y, z
  <2>4. i < j /\ j < k => i < k
    BY <1>1, <2>1
  <2>5. VaAntes(x, z) \/ (i < k /\ ~VaAntes(z, x))
    <3>1. CASE VaAntes(x, z)
      BY <3>1
    <3>2. CASE VaAntes(z, x)
      <4>1. ~VaAntes(x, y) \/ ~VaAntes(y, z)
        BY <2>3, <3>2, VaAntesOrden
      <4>2. VaAntes(z, y) \/ VaAntes(y, x)
        BY <2>3, <3>2, VaAntesOrden
      <4>3. VaAntes(x, y) => ~VaAntes(y, x)
        BY <2>3, VaAntesOrden
      <4>4. VaAntes(y, z) => ~VaAntes(z, y)
        BY <2>3, VaAntesOrden
      <4>5. VaAntes(x, y) => VaAntes(z, y)
        BY <2>3, <3>2, VaAntesOrden
      <4>6. VaAntes(y, z) => VaAntes(y, x)
        BY <2>3, <3>2, VaAntesOrden
      <4> QED BY <2>2, <4>2, <4>3, <4>4, <4>5, <4>6
    <3>3. CASE ~VaAntes(x, z) /\ ~VaAntes(z, x)
      <4>1. VaAntes(x, y) => VaAntes(z, y)
        BY <2>3, <3>3, VaAntesOrden
      <4>2. VaAntes(y, z) => VaAntes(y, x)
        BY <2>3, <3>3, VaAntesOrden
      <4>3. VaAntes(x, y) => ~VaAntes(y, x)
        BY <2>3, VaAntesOrden
      <4>4. VaAntes(y, z) => ~VaAntes(z, y)
        BY <2>3, VaAntesOrden
      <4> QED BY <2>2, <2>4, <3>3, <4>1, <4>2, <4>3, <4>4
    <3> QED BY <3>1, <3>2, <3>3
  <2> QED BY <2>5 DEF Precede, x, y, z
<1> QED BY <1>2, <1>3, <1>4, <1>5

Anteriores(hs, i) == {j \in DOMAIN hs : Precede(hs, j, i)}

LEMMA LugarEs ==
  ASSUME NEW hs \in Seq(Completas), NEW i \in 1 .. Len(hs)
  PROVE  /\ Anteriores(hs, i) \subseteq 1 .. Len(hs) /\ IsFiniteSet(Anteriores(hs, i))
         /\ Lugar(hs, i) = Cardinality(Anteriores(hs, i)) + 1
         /\ Lugar(hs, i) \in 1 .. Len(hs)
<1> DEFINE n == Len(hs)
           A == Anteriores(hs, i)
<1>1. n \in Nat /\ DOMAIN hs = 1 .. n
  OBVIOUS
<1>2. A \subseteq (1 .. n) \ {i}
  BY <1>1, PrecedeOrden DEF Anteriores
<1>3. IsFiniteSet(1 .. n) /\ Cardinality(1 .. n) = n
  BY <1>1, FS_Interval
<1>4. i \in 1 .. n
  OBVIOUS
<1>5. Lugar(hs, i) = Cardinality(A) + 1
  BY DEF Lugar, Anteriores
<1> HIDE DEF n, A
<1>6. IsFiniteSet((1 .. n) \ {i}) /\ Cardinality((1 .. n) \ {i}) = n - 1
  BY <1>3, <1>4, FS_RemoveElement
<1>7. IsFiniteSet(A) /\ Cardinality(A) <= n - 1
  <2> DEFINE E == (1 .. n) \ {i}
  <2>1. IsFiniteSet(E) /\ A \in SUBSET E /\ Cardinality(E) = n - 1
    BY <1>2, <1>6
  <2> HIDE DEF E
  <2>2. IsFiniteSet(A) /\ Cardinality(A) <= Cardinality(E)
    BY <2>1, FS_Subset
  <2> QED BY <2>1, <2>2
<1>8. Cardinality(A) \in Nat
  BY <1>7, FS_CardinalityType
<1>9. Lugar(hs, i) \in 1 .. n
  BY <1>1, <1>5, <1>7, <1>8
<1> QED BY <1>2, <1>5, <1>7, <1>9 DEF n, A

LEMMA LugarSube ==
  ASSUME NEW hs \in Seq(Completas), NEW i \in 1 .. Len(hs), NEW j \in 1 .. Len(hs),
         Precede(hs, i, j)
  PROVE  Lugar(hs, i) < Lugar(hs, j)
<1> DEFINE A == Anteriores(hs, i)
           B == Anteriores(hs, j)
<1>1. A \cup {i} \subseteq B
  BY PrecedeOrden DEF Anteriores
<1>2. i \notin A
  BY PrecedeOrden DEF Anteriores
<1>3. /\ IsFiniteSet(A) /\ IsFiniteSet(B)
      /\ Lugar(hs, i) = Cardinality(A) + 1 /\ Lugar(hs, j) = Cardinality(B) + 1
  BY LugarEs
<1> HIDE DEF A, B
<1>4. Cardinality(A \cup {i}) = Cardinality(A) + 1
  BY <1>2, <1>3, FS_AddElement
<1>5. Cardinality(A \cup {i}) <= Cardinality(B)
  BY <1>1, <1>3, FS_Subset
<1>6. Cardinality(A) \in Nat /\ Cardinality(B) \in Nat
  BY <1>3, FS_CardinalityType
<1> QED BY <1>3, <1>4, <1>5, <1>6

LEMMA LugarDistinto ==
  ASSUME NEW hs \in Seq(Completas), NEW i \in 1 .. Len(hs), NEW j \in 1 .. Len(hs)
  PROVE  /\ i # j => Lugar(hs, i) # Lugar(hs, j)
         /\ Lugar(hs, i) < Lugar(hs, j) => Precede(hs, i, j)
<1>1. Lugar(hs, i) \in Nat /\ Lugar(hs, j) \in Nat
  BY LugarEs
<1>2. Precede(hs, i, j) => Lugar(hs, i) < Lugar(hs, j)
  BY LugarSube
<1>3. Precede(hs, j, i) => Lugar(hs, j) < Lugar(hs, i)
  BY LugarSube
<1>4. i # j => Precede(hs, i, j) \/ Precede(hs, j, i)
  BY PrecedeOrden
<1> QED BY <1>1, <1>2, <1>3, <1>4

(* Every place has a child.                                                 *)
LEMMA LugarLleno ==
  ASSUME NEW hs \in Seq(Completas), NEW k \in 1 .. Len(hs)
  PROVE  \E i \in 1 .. Len(hs) : Lugar(hs, i) = k
<1> DEFINE n == Len(hs)
           f == [i \in 1 .. n |-> Lugar(hs, i)]
<1>1. IsFiniteSet(1 .. n)
  BY FS_Interval
<1>2. \A i \in 1 .. n : Lugar(hs, i) \in 1 .. n
  BY LugarEs
<1>3. \A i, j \in 1 .. n : i # j => Lugar(hs, i) # Lugar(hs, j)
  BY LugarDistinto
<1>4. f \in Injection(1 .. n, 1 .. n)
  BY <1>2, <1>3 DEF Injection, IsInjective
<1>5. f \in Surjection(1 .. n, 1 .. n)
  BY <1>1, <1>4, FS_Injection
<1> QED BY <1>5 DEF Surjection

(* Children in their order keep it when they are ordered again.             *)
LEMMA OrdenadosQuietos ==
  ASSUME NEW hs \in Seq(Completas)
  PROVE  HijosOrdenados(HijosOrdenados(hs)) = HijosOrdenados(hs)
<1> DEFINE n == Len(hs)
           O(k) == CHOOSE i \in DOMAIN hs : Lugar(hs, i) = k
           g == HijosOrdenados(hs)
<1>1. n \in Nat /\ DOMAIN hs = 1 .. n
  OBVIOUS
<1>2. ASSUME NEW k \in 1 .. n
      PROVE  O(k) \in 1 .. n /\ Lugar(hs, O(k)) = k
  <2>1. \E i \in DOMAIN hs : Lugar(hs, i) = k
    BY <1>1, LugarLleno
  <2> QED BY <1>1, <2>1
<1>3. g = [k \in 1 .. n |-> hs[O(k)]]
  BY <1>1 DEF HijosOrdenados
<1> HIDE DEF O, g
<1>4. g \in Seq(Completas) /\ Len(g) = n /\ DOMAIN g = 1 .. n
  <2>1. \A k \in 1 .. n : hs[O(k)] \in Completas
    BY <1>2
  <2> QED BY <1>1, <1>3, <2>1
<1>5. ASSUME NEW k \in 1 .. n, NEW l \in 1 .. n, k < l
      PROVE  Precede(g, k, l)
  <2>1. Lugar(hs, O(k)) < Lugar(hs, O(l))
    BY <1>2, <1>5
  <2>2. Precede(hs, O(k), O(l))
    BY <1>2, <2>1, LugarDistinto
  <2>3. g[k] = hs[O(k)] /\ g[l] = hs[O(l)]
    BY <1>3
  <2> QED BY <1>5, <2>2, <2>3 DEF Precede
<1>6. ASSUME NEW k \in 1 .. n
      PROVE  Lugar(g, k) = k
  <2>1. ASSUME NEW l \in 1 .. n
        PROVE  Precede(g, l, k) <=> l < k
    <3>1. ~Precede(g, k, k) /\ (Precede(g, k, l) => ~Precede(g, l, k))
      BY <1>4, PrecedeOrden
    <3>2. l < k \/ l = k \/ k < l
      BY <1>1
    <3>3. l < k => Precede(g, l, k)
      BY <1>5
    <3>4. k < l => Precede(g, k, l)
      BY <1>5
    <3>5. ~(l < k /\ l = k) /\ ~(l < k /\ k < l)
      BY <1>1
    <3> QED BY <3>1, <3>2, <3>3, <3>4
  <2>2. Anteriores(g, k) = 1 .. (k - 1)
    BY <1>1, <1>4, <2>1 DEF Anteriores
  <2>3. Cardinality(1 .. (k - 1)) = k - 1
    BY <1>1, FS_Interval
  <2>4. Lugar(g, k) = Cardinality(Anteriores(g, k)) + 1
    BY <1>4, LugarEs
  <2> QED BY <1>1, <2>2, <2>3, <2>4
<1>7. ASSUME NEW k \in 1 .. n
      PROVE  (CHOOSE i \in DOMAIN g : Lugar(g, i) = k) = k
  BY <1>4, <1>6
<1>8. HijosOrdenados(g) = g
  <2>1. HijosOrdenados(g) = [k \in 1 .. n |-> g[CHOOSE i \in DOMAIN g : Lugar(g, i) = k]]
    BY <1>4 DEF HijosOrdenados
  <2>2. HijosOrdenados(g) = [k \in 1 .. n |-> g[k]]
    BY <1>7, <2>1
  <2> QED BY <1>3, <2>2
<1> QED BY <1>8 DEF g

-----------------------------------------------------------------------------
(* The simulator: a form that is let through *)

Enviados == UNION {Formularios[p] : p \in Procesos}

LEMMA FamiliaCompleta ==
  ASSUME NEW f \in Enviados, FamiliaValida(f)
  PROVE  Hijos(f) \in Seq(Completas)
<1> DEFINE hs == Hijos(f)
<1>1. hs \in Seq(Personas)
  BY SimuladorAssumption DEF Enviados
<1>2. \A i \in DOMAIN hs : Completa(hs[i])
  BY DEF FamiliaValida
<1> HIDE DEF hs
<1>3. \A i \in 1 .. Len(hs) : hs[i] \in Completas
  <2> SUFFICES ASSUME NEW i \in 1 .. Len(hs) PROVE hs[i] \in Completas
    OBVIOUS
  <2> DEFINE h == hs[i]
  <2>1. h \in Personas /\ Completa(h)
    BY <1>1, <1>2
  <2> HIDE DEF h
  <2>2. h = [sexo |-> h.sexo, nac |-> h.nac, inv |-> h.inv, comun |-> h.comun]
    BY <2>1 DEF Personas
  <2>3. h.sexo \in {"H", "M"}
    BY <2>1 DEF Personas, Completa
  <2>4. h.nac \in [mes : Int, tarde : BOOLEAN]
    BY <2>1 DEF Personas, Completa
  <2>5. h.inv \in {"no", "parcial", "total"} /\ h.comun \in BOOLEAN
    BY <2>1 DEF Personas
  <2>6. h \in Completas
    BY <2>2, <2>3, <2>4, <2>5 DEF Completas
  <2> QED BY <2>6 DEF h
<1>4. hs \in Seq(Completas)
  BY <1>1, <1>3
<1> QED BY <1>4 DEF hs

LEMMA CodigoDelDetalle ==
  ASSUME NEW f \in Enviados, FamiliaValida(f), NEW c
  PROVE  Codigo(Detalle(f, c)) = Codigo(Entradas(f, c))
<1> DEFINE e == Entradas(f, c)
           d == Detalle(f, c)
<1>1. /\ d.causante = e.causante /\ d.conyuge = e.conyuge /\ d.saldo = e.saldo
      /\ d.tasa = e.tasa /\ d.garantia = e.garantia /\ d.aumento = e.aumento
      /\ d.pct = e.pct /\ d.diferidos = e.diferidos /\ d.rvd = e.rvd
      /\ d.hijos = HijosOrdenados(e.hijos) /\ e.hijos = Hijos(f)
  BY DEF Detalle, Entradas
<1>2. HijosOrdenados(HijosOrdenados(Hijos(f))) = HijosOrdenados(Hijos(f))
  BY FamiliaCompleta, OrdenadosQuietos
<1> HIDE DEF e, d
<1>3. HijosOrdenados(d.hijos) = HijosOrdenados(e.hijos)
  BY <1>1, <1>2
<1>4. Codigo(d) = Codigo(e)
  BY <1>1, <1>3 DEF Codigo
<1> QED BY <1>4 DEF d, e

-----------------------------------------------------------------------------
(* The simulator: sums *)

(* The recursion that a sum unfolds to.                                     *)
EsIter(h, it) ==
  it = [s \in SUBSET DOMAIN h |->
         IF s = {} THEN 0 ELSE h[CHOOSE x \in s : TRUE] + it[s \ {CHOOSE x \in s : TRUE}]]

LEMMA TotalIter ==
  ASSUME NEW h
  PROVE  Total(h) = (CHOOSE it : EsIter(h, it))[DOMAIN h]
BY DEF Total, MapThenSumSet, MapThenFoldSet, EsIter

(* A function of the subsets that grows by h[x] with each x is the sum.     *)
LEMMA TotalEs ==
  ASSUME NEW h, IsFiniteSet(DOMAIN h), NEW F,
         F = [s \in SUBSET DOMAIN h |-> F[s]], F[{}] = 0,
         \A s \in SUBSET DOMAIN h : \A x \in s : F[s] = h[x] + F[s \ {x}]
  PROVE  Total(h) = F[DOMAIN h]
<1> DEFINE D == DOMAIN h
           G == CHOOSE it : EsIter(h, it)
           B == {s \in SUBSET D : G[s] # F[s]}
           U == StrictSubsetOrdering(D)
           e(s) == CHOOSE x \in s : TRUE
<1>1. EsIter(h, F)
  <2>1. \A s \in SUBSET D : F[s] = IF s = {} THEN 0 ELSE h[e(s)] + F[s \ {e(s)}]
    OBVIOUS
  <2> HIDE DEF e
  <2>2. F = [s \in SUBSET D |-> IF s = {} THEN 0 ELSE h[e(s)] + F[s \ {e(s)}]]
    BY <2>1
  <2> QED
    BY <2>2 DEF EsIter, e
<1>2. EsIter(h, G)
  BY <1>1
<1>3. \A s \in SUBSET D : G[s] = IF s = {} THEN 0 ELSE h[e(s)] + G[s \ {e(s)}]
  <2> HIDE DEF G
  <2> QED
    BY <1>2 DEF EsIter
<1>4. \A s \in SUBSET D : s # {} => e(s) \in s
  OBVIOUS
<1>5. IsWellFoundedOn(U, FiniteSubsetsOf(D))
  BY FS_StrictSubsetOrderingWellFounded
<1>6. B \subseteq FiniteSubsetsOf(D)
  BY FS_Subset DEF FiniteSubsetsOf
<1>7. \A s, t \in SUBSET D : t \subseteq s /\ t # s => <<t, s>> \in U
  BY DEF StrictSubsetOrdering
<1> HIDE DEF G, U, e
<1>8. B = {}
  <2> SUFFICES ASSUME B # {} PROVE FALSE
    OBVIOUS
  <2>1. PICK s \in B : \A t \in B : ~(<<t, s>> \in U)
    BY <1>5, <1>6, WFMin
  <2>2. s \in SUBSET D /\ G[s] # F[s]
    OBVIOUS
  <2>3. s # {}
    BY <1>3, <2>2
  <2> DEFINE t == s \ {e(s)}
  <2>4. t \in SUBSET D /\ t \subseteq s /\ t # s /\ e(s) \in s
    BY <1>4, <2>2, <2>3
  <2>5. G[t] = F[t]
    BY <1>7, <2>1, <2>2, <2>4
  <2> QED
    BY <1>3, <2>2, <2>3, <2>4, <2>5
<1>9. D \in SUBSET D
  OBVIOUS
<1> QED
  BY <1>8, <1>9, TotalIter DEF G

(* Of weights that are k or k + d.                                          *)
LEMMA TotalPesos ==
  ASSUME NEW h, IsFiniteSet(DOMAIN h), NEW A \in SUBSET DOMAIN h, NEW k \in Int, NEW d \in Int,
         \A x \in DOMAIN h : h[x] = IF x \in A THEN k + d ELSE k
  PROVE  Total(h) = k * Cardinality(DOMAIN h) + d * Cardinality(A)
<1> DEFINE D == DOMAIN h
           F == [s \in SUBSET D |-> k * Cardinality(s) + d * Cardinality(s \cap A)]
<1>1. F = [s \in SUBSET D |-> F[s]]
  OBVIOUS
<1>2. F[{}] = 0
  <2>1. Cardinality({}) = 0 /\ {} \cap A = {}
    BY FS_EmptySet
  <2> QED BY <2>1
<1>3. ASSUME NEW s \in SUBSET D, NEW x \in s PROVE F[s] = h[x] + F[s \ {x}]
  <2> DEFINE t == s \ {x}
  <2>1. IsFiniteSet(s) /\ IsFiniteSet(t) /\ IsFiniteSet(s \cap A) /\ IsFiniteSet(t \cap A)
    BY FS_Subset
  <2>2. Cardinality(s) \in Nat /\ Cardinality(s \cap A) \in Nat
    BY <2>1, FS_CardinalityType
  <2>3. Cardinality(t) = Cardinality(s) - 1
    BY <2>1, FS_RemoveElement
  <2>4. Cardinality(t \cap A) = IF x \in A THEN Cardinality(s \cap A) - 1 ELSE Cardinality(s \cap A)
    <3>1. t \cap A = (s \cap A) \ {x}
      OBVIOUS
    <3> HIDE DEF t
    <3>2. Cardinality((s \cap A) \ {x}) =
            IF x \in s \cap A THEN Cardinality(s \cap A) - 1 ELSE Cardinality(s \cap A)
      BY <2>1, FS_RemoveElement
    <3> QED BY <3>1, <3>2
  <2>5. \A n \in Int : k * (n - 1) = k * n - k /\ d * (n - 1) = d * n - d
    OBVIOUS
  <2>6. F[s] = k * Cardinality(s) + d * Cardinality(s \cap A)
    OBVIOUS
  <2>7. F[t] = k * Cardinality(t) + d * Cardinality(t \cap A)
    OBVIOUS
  <2>8. h[x] = IF x \in A THEN k + d ELSE k
    OBVIOUS
  <2> HIDE DEF F, t
  <2>9. k * Cardinality(t) = k * Cardinality(s) - k
    BY <2>2, <2>3, <2>5
  <2>10. d * Cardinality(t \cap A) = d * Cardinality(s \cap A) - (IF x \in A THEN d ELSE 0)
    <3>1. CASE x \in A
      BY <2>2, <2>4, <2>5, <3>1
    <3>2. CASE x \notin A
      <4>1. d * Cardinality(s \cap A) \in Int
        BY <2>2
      <4> QED BY <2>4, <3>2, <4>1
    <3> QED BY <3>1, <3>2
  <2>11. k * Cardinality(s) \in Int /\ d * Cardinality(s \cap A) \in Int
    BY <2>2
  <2> QED BY <2>6, <2>7, <2>8, <2>9, <2>10, <2>11 DEF t
<1>4. D \in SUBSET D /\ D \cap A = A
  OBVIOUS
<1>5. F[D] = k * Cardinality(D) + d * Cardinality(A)
  BY <1>4
<1> HIDE DEF F
<1>6. Total(h) = F[D]
  BY <1>1, <1>2, <1>3, TotalEs
<1> QED BY <1>5, <1>6

(* Of two terms at most.                                                    *)
LEMMA TotalDos ==
  ASSUME NEW h, NEW a, NEW b, a # b, DOMAIN h \subseteq {a, b},
         \A x \in DOMAIN h : h[x] \in Int
  PROVE  Total(h) = (IF a \in DOMAIN h THEN h[a] ELSE 0) + (IF b \in DOMAIN h THEN h[b] ELSE 0)
<1> DEFINE D == DOMAIN h
           F == [s \in SUBSET D |-> (IF a \in s THEN h[a] ELSE 0) + (IF b \in s THEN h[b] ELSE 0)]
<1>1. F = [s \in SUBSET D |-> F[s]]
  OBVIOUS
<1>2. F[{}] = 0
  OBVIOUS
<1>3. \A s \in SUBSET D : \A x \in s : F[s] = h[x] + F[s \ {x}]
  OBVIOUS
<1>4. IsFiniteSet(D)
  <2>1. IsFiniteSet({a, b})
    <3>1. {a, b} = {a} \cup {b} /\ IsFiniteSet({a})
      BY FS_Singleton
    <3> QED BY <3>1, FS_AddElement
  <2> QED BY <2>1, FS_Subset
<1>5. F[D] = (IF a \in D THEN h[a] ELSE 0) + (IF b \in D THEN h[b] ELSE 0)
  OBVIOUS
<1> HIDE DEF F
<1>6. Total(h) = F[D]
  BY <1>1, <1>2, <1>3, <1>4, TotalEs
<1> QED BY <1>5, <1>6

-----------------------------------------------------------------------------
(* The simulator: what the survivors get *)

(* Those who have a right and are paid as a child.                          *)
ComoHijos(hs, m) == {i \in ConDerecho(hs, m) : PctHijo(hs[i], m) = 180}

(* A right that is lost does not come back.                                 *)
LEMMA Derechos ==
  ASSUME NEW hs \in Seq(Completas), Len(hs) <= 4, NEW m \in Nat
  PROVE  /\ ConDerecho(hs, m) \subseteq 1 .. Len(hs) /\ IsFiniteSet(ConDerecho(hs, m))
         /\ IsFiniteSet(ComoHijos(hs, m))
         /\ Cardinality(ConDerecho(hs, m)) \in 0 .. 4
         /\ Cardinality(ComoHijos(hs, m)) \in 0 .. Cardinality(ConDerecho(hs, m))
         /\ ConDerecho(hs, m + 1) \subseteq ConDerecho(hs, m)
         /\ ComoHijos(hs, m + 1) \subseteq ComoHijos(hs, m)
         /\ \A i \in ConDerecho(hs, m) : PctHijo(hs[i], m) \in {132, 180}
<1> DEFINE n == Len(hs)
           D == ConDerecho(hs, m)
           A == ComoHijos(hs, m)
<1>1. n \in 0 .. 4 /\ n \in Int /\ 1 \in Int /\ DOMAIN hs = 1 .. n
  <2>1. n \in Nat /\ DOMAIN hs = 1 .. n
    OBVIOUS
  <2> QED BY <2>1
<1>2. D \subseteq 1 .. n /\ A \subseteq D
  BY <1>1 DEF ConDerecho, ComoHijos
<1>3. \A i \in 1 .. n : hs[i] \in Completas
  OBVIOUS
<1>4. ASSUME NEW i \in 1 .. n
      PROVE  /\ ConDerechoPorEdad(hs[i], m + 1) => ConDerechoPorEdad(hs[i], m)
             /\ Elegible(hs[i], m + 1) => Elegible(hs[i], m)
             /\ PctHijo(hs[i], m) \in {132, 180}
             /\ PctHijo(hs[i], m + 1) = 180 => PctHijo(hs[i], m) = 180
  <2> DEFINE h == hs[i]
             e == edad_en_meses(h.nac)
  <2>1. h.nac.mes \in Int
    BY <1>3 DEF Completas
  <2>2. e \in Int
    BY <2>1, SimuladorAssumption DEF edad_en_meses
  <2> HIDE DEF h, e
  <2>3. ConDerechoPorEdad(h, m + 1) => ConDerechoPorEdad(h, m)
    <3>1. e + (m + 1) < 288 => e + m < 288
      BY <2>2
    <3> QED BY <3>1 DEF ConDerechoPorEdad, e
  <2>4. Elegible(h, m + 1) => Elegible(h, m)
    BY <2>3 DEF Elegible
  <2>5. PctHijo(h, m) \in {132, 180} /\ (PctHijo(h, m + 1) = 180 => PctHijo(h, m) = 180)
    BY <2>3 DEF PctHijo
  <2> QED BY <2>3, <2>4, <2>5 DEF h
<1>5. ConDerecho(hs, m + 1) \subseteq D
  BY <1>1, <1>4 DEF ConDerecho
<1>6. ComoHijos(hs, m + 1) \subseteq A
  BY <1>1, <1>4, <1>5 DEF ComoHijos, ConDerecho
<1> HIDE DEF D, A
<1>7. IsFiniteSet(1 .. n) /\ Cardinality(1 .. n) = n
  <2> HIDE DEF n
  <2>1. Cardinality(1 .. n) = IF 1 > n THEN 0 ELSE n - 1 + 1
    BY <1>1, FS_Interval
  <2> QED BY <1>1, <2>1, FS_Interval
<1>8. IsFiniteSet(D) /\ Cardinality(D) <= n /\ Cardinality(D) \in Nat
  BY <1>2, <1>7, FS_Subset, FS_CardinalityType
<1>9. IsFiniteSet(A) /\ Cardinality(A) <= Cardinality(D) /\ Cardinality(A) \in Nat
  BY <1>2, <1>8, FS_Subset, FS_CardinalityType
<1>10. Cardinality(D) \in 0 .. 4 /\ Cardinality(A) \in 0 .. Cardinality(D)
  BY <1>1, <1>8, <1>9
<1> QED BY <1>2, <1>4, <1>5, <1>6, <1>8, <1>9, <1>10 DEF D, A, n

(* While the children are paid, the shares in numbers of children: half a   *)
(* pension is divided among at most four without a remainder.               *)
LEMMA SobrevivenciaEs ==
  ASSUME NEW hs \in Seq(Completas), Len(hs) <= 4, NEW m \in Nat, NEW causante, NEW con, NEW g
  PROVE  LET n == Cardinality(ConDerecho(hs, m))
             a == Cardinality(ComoHijos(hs, m))
             s == Sobrevivencia(causante, con, hs, g, m) IN
         /\ GarantiaLarga(g, causante) /\ ~(m < g) =>
              s = IF con = Nulo THEN 0 ELSE CuotaConyuge(hs, m)
         /\ ~GarantiaLarga(g, causante) \/ m < g =>
              s = 132 * n + 48 * a
                  + (IF con # Nulo THEN CuotaConyuge(hs, m) ELSE IF n = 0 THEN 0 ELSE 600)
<1> DEFINE D == ConDerecho(hs, m)
           A == ComoHijos(hs, m)
           n == Cardinality(D)
           a == Cardinality(A)
           pagados == {j \in ConDerecho(hs, m) : GarantiaLarga(g, causante) => m < g}
           w == [i \in pagados |-> CuotaHijo(hs, con, i, m)]
           viuda == IF con = Nulo THEN 0 ELSE CuotaConyuge(hs, m)
           k == IF con = Nulo THEN 600 \div n ELSE 0
<1>1. Sobrevivencia(causante, con, hs, g, m) = viuda + Total(w)
  BY DEF Sobrevivencia
<1>2. /\ IsFiniteSet(D) /\ IsFiniteSet(A) /\ A \subseteq D /\ n \in 0 .. 4 /\ a \in 0 .. n
      /\ \A i \in D : PctHijo(hs[i], m) \in {132, 180}
  <2>1. A \subseteq D
    BY DEF ComoHijos
  <2> QED BY <2>1, Derechos
<1>3. CuotaConyuge(hs, m) \in {600, 720}
  BY DEF CuotaConyuge
<1>4. ASSUME pagados = {} PROVE Total(w) = 0
  <2>1. DOMAIN w = {}
    BY <1>4
  <2> HIDE DEF w
  <2>2. 0 # 1 /\ DOMAIN w \subseteq {0, 1} /\ \A x \in DOMAIN w : w[x] \in Int
    BY <2>1
  <2>3. Total(w) = (IF 0 \in DOMAIN w THEN w[0] ELSE 0) + (IF 1 \in DOMAIN w THEN w[1] ELSE 0)
    BY <2>2, TotalDos
  <2> QED BY <2>1, <2>3
<1>5. CASE GarantiaLarga(g, causante) /\ ~(m < g)
  <2>1. Total(w) = 0
    BY <1>4, <1>5
  <2> HIDE DEF w
  <2> QED BY <1>1, <1>3, <1>5, <2>1
<1>6. CASE (~GarantiaLarga(g, causante) \/ m < g) /\ D = {}
  <2>1. Total(w) = 0
    BY <1>4, <1>6
  <2>2. n = 0 /\ a = 0
    BY <1>2, <1>6, FS_EmptySet
  <2> HIDE DEF w, D, A
  <2> QED BY <1>1, <1>3, <1>6, <2>1, <2>2 DEF D, A
<1>7. CASE (~GarantiaLarga(g, causante) \/ m < g) /\ D # {}
  <2>1. n \in 1 .. 4
    <3> HIDE DEF D
    <3>1. n # 0
      BY <1>2, <1>7, FS_EmptySet
    <3> QED BY <1>2, <3>1
  <2> DEFINE peso == 132 + k
  <2>2. k \in Int /\ k * n = (IF con = Nulo THEN 600 ELSE 0)
    <3> HIDE DEF D
    <3> QED BY <2>1
  <2>3. DOMAIN w = D
    BY <1>7
  <2>4. \A i \in D : w[i] = PctHijo(hs[i], m) + k
    BY <1>7 DEF CuotaHijo
  <2> HIDE DEF w, k
  <2>5. \A i \in D : i \in A <=> PctHijo(hs[i], m) = 180
    BY DEF ComoHijos
  <2>6. \A i \in DOMAIN w : w[i] = IF i \in A THEN peso + 48 ELSE peso
    <3> HIDE DEF D, A
    <3> QED BY <1>2, <2>2, <2>3, <2>4, <2>5
  <2>7. peso \in Int
    BY <2>2
  <2> HIDE DEF D, A, peso
  <2>8. Total(w) = peso * Cardinality(D) + 48 * Cardinality(A)
    <3>1. A \in SUBSET DOMAIN w /\ IsFiniteSet(DOMAIN w) /\ 48 \in Int
      BY <1>2, <2>3
    <3>2. Total(w) = peso * Cardinality(DOMAIN w) + 48 * Cardinality(A)
      BY <2>6, <2>7, <3>1, TotalPesos
    <3> QED BY <2>3, <3>2
  <2>9. peso * n = 132 * n + k * n
    BY <2>1, <2>2 DEF peso
  <2>10. Total(w) = 132 * n + 48 * a + (IF con = Nulo THEN 600 ELSE 0)
    BY <1>2, <2>1, <2>2, <2>8, <2>9
  <2>11. Sobrevivencia(causante, con, hs, g, m) =
           132 * n + 48 * a + (IF con # Nulo THEN CuotaConyuge(hs, m) ELSE IF n = 0 THEN 0 ELSE 600)
    <3>1. n \in Int /\ a \in Int /\ n # 0 /\ CuotaConyuge(hs, m) \in Int
      BY <1>2, <1>3, <2>1
    <3> HIDE DEF n, a
    <3>2. CASE con = Nulo
      <4>1. Sobrevivencia(causante, con, hs, g, m) = 0 + Total(w) /\ Total(w) = 132 * n + 48 * a + 600
        BY <1>1, <2>10, <3>2
      <4> QED BY <3>1, <3>2, <4>1
    <3>3. CASE con # Nulo
      <4>1. /\ Sobrevivencia(causante, con, hs, g, m) = CuotaConyuge(hs, m) + Total(w)
            /\ Total(w) = 132 * n + 48 * a + 0
        BY <1>1, <2>10, <3>3
      <4> QED BY <3>1, <3>3, <4>1
    <3> QED BY <3>2, <3>3
  <2> QED BY <1>7, <2>11 DEF D, A
<1> QED BY <1>5, <1>6, <1>7

(* The three comparisons of RepartoCoherente.                               *)
LEMMA NuncaSube ==
  ASSUME NEW hs \in Seq(Completas), Len(hs) <= 4, NEW m \in Nat, NEW causante, NEW con, NEW g \in Int,
         ~GarantiaLarga(g, causante) \/ m < g
  PROVE  Sobrevivencia(causante, con, hs, g, m + 1) <= Sobrevivencia(causante, con, hs, g, m)
<1> DEFINE D == ConDerecho(hs, m)
           E == ConDerecho(hs, m + 1)
           n == Cardinality(D)
           p == Cardinality(E)
           a == Cardinality(ComoHijos(hs, m))
           b == Cardinality(ComoHijos(hs, m + 1))
           C == CuotaConyuge(hs, m)
           B == CuotaConyuge(hs, m + 1)
           s == Sobrevivencia(causante, con, hs, g, m)
           t == Sobrevivencia(causante, con, hs, g, m + 1)
<1>1. m + 1 \in Nat
  OBVIOUS
<1>2. /\ n \in 0 .. 4 /\ a \in 0 .. n /\ p \in 0 .. 4 /\ b \in 0 .. p /\ p <= n /\ b <= a
      /\ IsFiniteSet(D) /\ E \subseteq D
  <2>1. n \in 0 .. 4 /\ a \in 0 .. n /\ p \in 0 .. 4 /\ b \in 0 .. p
    BY <1>1, Derechos
  <2>2. IsFiniteSet(D) /\ E \subseteq D
    BY Derechos
  <2>3. p <= n
    <3> HIDE DEF D, E
    <3> QED BY <2>2, FS_Subset
  <2>4. b <= a
    <3> DEFINE F == ComoHijos(hs, m)
               G == ComoHijos(hs, m + 1)
    <3>1. IsFiniteSet(F) /\ G \subseteq F
      BY Derechos
    <3> HIDE DEF F, G
    <3>2. Cardinality(G) <= Cardinality(F)
      BY <3>1, FS_Subset
    <3> QED BY <3>2 DEF F, G
  <2> QED BY <2>1, <2>2, <2>3, <2>4
<1>3. C \in {600, 720} /\ B \in {600, 720}
  BY DEF CuotaConyuge
<1>4. ASSUME B > C PROVE p < n
  <2>1. HayComun(hs, m) /\ ~HayComun(hs, m + 1)
    BY <1>4 DEF CuotaConyuge
  <2>2. PICK i \in DOMAIN hs : hs[i].comun /\ Elegible(hs[i], m)
    BY <2>1 DEF HayComun
  <2>3. i \in D /\ i \notin E
    BY <2>1, <2>2 DEF HayComun, ConDerecho
  <2> HIDE DEF D, E
  <2>4. p # n
    BY <1>2, <2>3, FS_Subset
  <2> QED BY <1>2, <2>4
<1>5. s = 132 * n + 48 * a + (IF con # Nulo THEN C ELSE IF n = 0 THEN 0 ELSE 600)
  BY SobrevivenciaEs
<1>6. ~GarantiaLarga(g, causante) \/ m + 1 < g =>
        t = 132 * p + 48 * b + (IF con # Nulo THEN B ELSE IF p = 0 THEN 0 ELSE 600)
  BY <1>1, SobrevivenciaEs
<1>7. GarantiaLarga(g, causante) /\ ~(m + 1 < g) => t = IF con = Nulo THEN 0 ELSE B
  BY <1>1, SobrevivenciaEs
<1> HIDE DEF D, E, n, p, a, b, B, C, s, t
<1>8. t <= s
  <2>1. n \in Nat /\ a \in Nat /\ p \in Nat /\ b \in Nat /\ p <= n /\ b <= a
    BY <1>2
  <2>2. CASE con = Nulo
    BY <1>5, <1>6, <1>7, <2>1, <2>2
  <2>3. CASE con # Nulo
    BY <1>3, <1>4, <1>5, <1>6, <1>7, <2>1, <2>3
  <2> QED BY <2>2, <2>3
<1> QED BY <1>8 DEF s, t

LEMMA ViudaNoBaja ==
  ASSUME NEW hs \in Seq(Completas), Len(hs) <= 4, NEW m \in Nat, NEW causante, NEW con, NEW g,
         ~GarantiaLarga(g, causante) \/ m < g
  PROVE  Sobrevivencia(causante, con, hs, g, m) >= Sobrevivencia(causante, Nulo, hs, g, m)
<1> DEFINE n == Cardinality(ConDerecho(hs, m))
           a == Cardinality(ComoHijos(hs, m))
           C == CuotaConyuge(hs, m)
           s == Sobrevivencia(causante, con, hs, g, m)
           t == Sobrevivencia(causante, Nulo, hs, g, m)
<1>1. n \in Nat /\ a \in Nat
  <2>1. n \in 0 .. 4 /\ a \in 0 .. n
    BY Derechos
  <2> HIDE DEF n, a
  <2> QED BY <2>1
<1>2. C \in {600, 720}
  BY DEF CuotaConyuge
<1>3. s = 132 * n + 48 * a + (IF con # Nulo THEN C ELSE IF n = 0 THEN 0 ELSE 600)
  BY SobrevivenciaEs
<1>4. t = 132 * n + 48 * a + (IF Nulo # Nulo THEN C ELSE IF n = 0 THEN 0 ELSE 600)
  BY SobrevivenciaEs
<1> HIDE DEF n, a, C, s, t
<1>5. s >= t
  BY <1>1, <1>2, <1>3, <1>4
<1> QED BY <1>5 DEF s, t

LEMMA UnHijoMasNoBaja ==
  ASSUME NEW hs \in Seq(Completas), Len(hs) <= 4, hs # << >>, NEW m \in Nat, NEW causante, NEW con,
         NEW g, ~GarantiaLarga(g, causante) \/ m < g
  PROVE  /\ SinUltimo(hs) \in Seq(Completas)
         /\ Sobrevivencia(causante, con, hs, g, m) >= Sobrevivencia(causante, con, SinUltimo(hs), g, m)
<1> DEFINE l == Len(hs)
           ks == SinUltimo(hs)
           D == ConDerecho(hs, m)
           E == ConDerecho(ks, m)
           n == Cardinality(D)
           p == Cardinality(E)
           a == Cardinality(ComoHijos(hs, m))
           b == Cardinality(ComoHijos(ks, m))
           C == CuotaConyuge(hs, m)
           B == CuotaConyuge(ks, m)
           s == Sobrevivencia(causante, con, hs, g, m)
           t == Sobrevivencia(causante, con, ks, g, m)
<1>1. l \in 1 .. 4 /\ DOMAIN hs = 1 .. l
  <2>1. l \in Nat /\ DOMAIN hs = 1 .. l /\ l # 0
    OBVIOUS
  <2> QED BY <2>1
<1>2. ks \in Seq(Completas) /\ Len(ks) = l - 1 /\ \A i \in 1 .. l - 1 : ks[i] = hs[i]
  BY <1>1 DEF SinUltimo
<1>3. DOMAIN ks = 1 .. l - 1 /\ Len(ks) <= 4
  BY <1>1, <1>2
<1> HIDE DEF ks, l
<1>4. l - 1 \in 0 .. 3 /\ \A i \in 1 .. l : i = l \/ i \in 1 .. l - 1
  BY <1>1
<1>5. E = D \ {l} /\ ComoHijos(ks, m) = ComoHijos(hs, m) \ {l}
  <2>1. E = D \ {l}
    BY <1>1, <1>2, <1>3, <1>4 DEF ConDerecho
  <2>2. \A i \in E : i \in 1 .. l - 1
    BY <1>3 DEF ConDerecho
  <2> HIDE DEF D, E
  <2>3. ComoHijos(ks, m) = {i \in E : PctHijo(ks[i], m) = 180}
    BY DEF ComoHijos, E
  <2>4. ComoHijos(hs, m) = {i \in D : PctHijo(hs[i], m) = 180}
    BY DEF ComoHijos, D
  <2> QED BY <1>2, <2>1, <2>2, <2>3, <2>4
<1>6. IsFiniteSet(D) /\ IsFiniteSet(ComoHijos(hs, m)) /\ n \in 0 .. 4 /\ a \in 0 .. n
  BY Derechos
<1>7. p \in 0 .. 4 /\ b \in 0 .. p
  BY <1>2, <1>3, Derechos
<1>8. p <= n /\ b <= a /\ (l \in D => p < n)
  <2>1. p = IF l \in D THEN n - 1 ELSE n
    <3> HIDE DEF D, E
    <3>1. Cardinality(D \ {l}) = IF l \in D THEN Cardinality(D) - 1 ELSE Cardinality(D)
      BY <1>6, FS_RemoveElement
    <3> QED BY <1>5, <3>1
  <2>2. b <= a
    <3> DEFINE F == ComoHijos(hs, m)
               G == ComoHijos(ks, m)
    <3>1. IsFiniteSet(F) /\ G \subseteq F
      BY <1>5, <1>6
    <3> HIDE DEF F, G
    <3>2. Cardinality(G) <= Cardinality(F)
      BY <3>1, FS_Subset
    <3> QED BY <3>2 DEF F, G
  <2> HIDE DEF n, p, a, b, D
  <2> QED BY <1>6, <2>1, <2>2
<1>9. C \in {600, 720} /\ B \in {600, 720}
  BY DEF CuotaConyuge
<1>10. ASSUME B > C PROVE l \in D
  <2>1. HayComun(hs, m) /\ ~HayComun(ks, m)
    BY <1>10 DEF CuotaConyuge
  <2>2. PICK i \in DOMAIN hs : hs[i].comun /\ Elegible(hs[i], m)
    BY <2>1 DEF HayComun
  <2>3. i \notin 1 .. l - 1
    BY <1>2, <1>3, <2>1, <2>2 DEF HayComun
  <2>4. i = l
    BY <1>1, <1>4, <2>3
  <2> QED BY <2>2, <2>4 DEF ConDerecho
<1>11. s = 132 * n + 48 * a + (IF con # Nulo THEN C ELSE IF n = 0 THEN 0 ELSE 600)
  BY SobrevivenciaEs
<1>12. t = 132 * p + 48 * b + (IF con # Nulo THEN B ELSE IF p = 0 THEN 0 ELSE 600)
  BY <1>2, <1>3, SobrevivenciaEs
<1> HIDE DEF D, E, n, p, a, b, B, C, s, t
<1>13. s >= t
  <2>1. n \in Nat /\ a \in Nat /\ p \in Nat /\ b \in Nat
    BY <1>6, <1>7
  <2>2. CASE con = Nulo
    BY <1>8, <1>11, <1>12, <2>1, <2>2
  <2>3. CASE con # Nulo
    BY <1>8, <1>9, <1>10, <1>11, <1>12, <2>1, <2>3
  <2> QED BY <2>2, <2>3
<1> QED BY <1>2, <1>13 DEF s, t, ks

(* What the form, the checks of the ages and of the engine let through.     *)
Admitida(f, c) ==
  /\ f \in Enviados /\ FormularioValido(f) /\ CausanteValido(c) /\ Simula(f, c)

LEMMA RepartoBien ==
  ASSUME NEW f, NEW c, Admitida(f, c)
  PROVE  RepartoCoherente(f, c)
<1> DEFINE hs == Hijos(f)
           con == Conyuge(f)
           g == f.garantia
           larga == GarantiaLarga(g, c)
<1>1. hs \in Seq(Completas) /\ Len(hs) <= 4
  BY FamiliaCompleta DEF Admitida, FormularioValido, FamiliaValida
<1>2. g \in Int /\ f.aumento \in Int /\ f.pct \in 0 .. 100
  <2>1. g \in 0 .. 480 /\ f.aumento \in 0 .. 600 /\ f.pct \in 0 .. 100
    BY DEF Admitida, FormularioValido, PeriodosValidos
  <2> HIDE DEF g
  <2> QED BY <2>1
<1>3. Meses(f) \subseteq Nat
  <2> DEFINE hijos == {hs[i] : i \in DOMAIN hs}
             cambios == {288 - edad_en_meses(h.nac) : h \in hijos} \cup {0, g, f.aumento}
  <2>1. \A h \in hijos : h \in Completas
    BY <1>1
  <2>2. \A h \in Completas : edad_en_meses(h.nac) \in Int
    BY SimuladorAssumption DEF edad_en_meses, Completas
  <2>3. cambios \subseteq Int
    <3> HIDE DEF hijos
    <3> QED BY <1>2, <2>1, <2>2
  <2>4. Meses(f) = {m \in UNION {{k - 1, k, k + 1} : k \in cambios} : m >= 0}
    BY DEF Meses
  <2> HIDE DEF cambios
  <2> QED BY <2>3, <2>4
<1> SUFFICES ASSUME NEW m \in Meses(f)
             PROVE  /\ ~larga \/ m < g =>
                         /\ Sobrevivencia(c, con, hs, g, m + 1) <= Sobrevivencia(c, con, hs, g, m)
                         /\ Sobrevivencia(c, con, hs, g, m) >= Sobrevivencia(c, Nulo, hs, g, m)
                         /\ hs # << >> => Sobrevivencia(c, con, hs, g, m)
                                            >= Sobrevivencia(c, con, SinUltimo(hs), g, m)
                    /\ Pago(f, c, TRUE, m) >= 100 * UNIDAD
  BY DEF RepartoCoherente
<1>4. m \in Nat
  BY <1>3
<1>5. Pago(f, c, TRUE, m) >= 100 * UNIDAD
  <2>1. Pago(f, c, TRUE, m) = Base(f, m) * UNIDAD
    BY DEF Pago
  <2>2. Base(f, m) \in Int /\ Base(f, m) >= 100
    BY <1>2 DEF Base
  <2> DEFINE b == Base(f, m)
             q == Pago(f, c, TRUE, m)
  <2>3. q = b * 1200
    BY <2>1 DEF UNIDAD
  <2> HIDE DEF b, q
  <2>4. b \in Int /\ b >= 100
    BY <2>2 DEF b
  <2>5. q >= 100 * 1200
    BY <2>3, <2>4
  <2> QED BY <2>5 DEF q, UNIDAD
<1> HIDE DEF hs, con, g
<1>6. ~larga \/ m < g =>
        /\ Sobrevivencia(c, con, hs, g, m + 1) <= Sobrevivencia(c, con, hs, g, m)
        /\ Sobrevivencia(c, con, hs, g, m) >= Sobrevivencia(c, Nulo, hs, g, m)
        /\ hs # << >> => Sobrevivencia(c, con, hs, g, m)
                           >= Sobrevivencia(c, con, SinUltimo(hs), g, m)
  BY <1>1, <1>2, <1>4, NuncaSube, ViudaNoBaja, UnHijoMasNoBaja
<1> QED BY <1>5, <1>6

(* The months of the increase and those left, each at what it pays.         *)
LEMMA RescateBien ==
  ASSUME NEW f, NEW c, Admitida(f, c)
  PROVE  RescateDeLaGarantia(f)
<1> DEFINE g == f.garantia
           t == f.aumento
           p == f.pct
           meses == 0 .. g - 1
           V == {Base(f, m) : m \in meses}
           D(v) == {m \in meses : Base(f, m) = v}
           h == [v \in V |-> v * Cardinality(D(v))]
<1>1. g \in Nat /\ t \in Nat /\ p \in Nat /\ f.diferidos \in 0 .. 10
  <2>1. g \in 0 .. 480 /\ t \in 0 .. 600 /\ p \in 0 .. 100 /\ f.diferidos \in 0 .. 10
    BY DEF Admitida, FormularioValido, PeriodosValidos
  <2> HIDE DEF g, t, p
  <2> QED BY <2>1
<1> SUFFICES ASSUME f.diferidos = 0, t <= g
             PROVE  Total(h) = IF "II" \in Opciones(f) THEN RescateOpcionII(f) ELSE RescateOpcionI(f)
  BY DEF RescateDeLaGarantia
<1>2. (IF "II" \in Opciones(f) THEN RescateOpcionII(f) ELSE RescateOpcionI(f))
        = IF t > 0 THEN (100 + p) * t + 100 * (g - t) ELSE 100 * g
  <2>1. "II" \in Opciones(f) <=> t > 0
    BY DEF Opciones
  <2> QED BY <2>1 DEF RescateOpcionI, RescateOpcionII
<1>3. \A m \in meses : Base(f, m) = IF m < t THEN 100 + p ELSE 100
  BY <1>1 DEF Base
<1> HIDE DEF g, t, p
<1>4. Total(h) = IF t > 0 THEN (100 + p) * t + 100 * (g - t) ELSE 100 * g
  <2>1. \A x \in Nat : IsFiniteSet(0 .. x - 1) /\ Cardinality(0 .. x - 1) = x
    <3> TAKE x \in Nat
    <3>1. 0 \in Int /\ x - 1 \in Int
      OBVIOUS
    <3>2. Cardinality(0 .. x - 1) = IF 0 > x - 1 THEN 0 ELSE x - 1 - 0 + 1
      BY <3>1, FS_Interval
    <3> QED BY <3>1, <3>2, FS_Interval
  <2>2. \A x, y \in Nat : x <= y => Cardinality(x .. y - 1) = y - x
    <3> SUFFICES ASSUME NEW x \in Nat, NEW y \in Nat, x <= y PROVE Cardinality(x .. y - 1) = y - x
      OBVIOUS
    <3>1. x \in Int /\ y - 1 \in Int
      OBVIOUS
    <3>2. Cardinality(x .. y - 1) = IF x > y - 1 THEN 0 ELSE y - 1 - x + 1
      BY <3>1, FS_Interval
    <3> QED BY <3>2
  <2>3. ASSUME NEW v \in V PROVE v \in {100, 100 + p}
    BY <1>3
  <2>4. CASE p = 0 \/ t = 0
    <3>1. \A m \in meses : Base(f, m) = 100
      BY <1>1, <1>3, <2>4
    <3>2. D(100) = 0 .. g - 1
      BY <3>1
    <3>3. Cardinality(D(100)) = g
      BY <1>1, <2>1, <3>2
    <3>4. V \subseteq {100, 0} /\ (100 \in V <=> g > 0) /\ 0 \notin V
      <4>1. g > 0 => 0 \in meses
        BY <1>1
      <4>2. g = 0 => meses = {}
        BY <1>1
      <4> HIDE DEF meses
      <4> QED BY <1>1, <3>1, <4>1, <4>2
    <3>5. \A v \in V : h[v] = 100 * g
      <4> HIDE DEF D
      <4>1. \A v \in V : v = 100
        BY <3>4
      <4>2. \A v \in V : h[v] = v * Cardinality(D(v))
        OBVIOUS
      <4> QED BY <3>3, <4>1, <4>2
    <3>6. DOMAIN h = V
      OBVIOUS
    <3> HIDE DEF V, h, D
    <3>7. Total(h) = (IF 100 \in DOMAIN h THEN h[100] ELSE 0) + (IF 0 \in DOMAIN h THEN h[0] ELSE 0)
      <4>1. 100 # 0 /\ DOMAIN h \subseteq {100, 0} /\ \A x \in DOMAIN h : h[x] \in Int
        <5>1. 100 * g \in Int /\ 100 # 0
          BY <1>1
        <5>2. \A x \in DOMAIN h : h[x] \in Int
          BY <3>5, <3>6, <5>1
        <5> QED BY <3>4, <3>6, <5>1, <5>2
      <4> QED BY <4>1, TotalDos
    <3>8. Total(h) = 100 * g
      BY <1>1, <3>4, <3>5, <3>6, <3>7
    <3> QED BY <1>1, <2>4, <3>8
  <2>5. CASE p # 0 /\ t > 0
    <3> DEFINE q == 100 + p
    <3>1. q # 100 /\ q \in Int
      BY <1>1, <2>5
    <3>2. D(q) = 0 .. t - 1 /\ D(100) = t .. g - 1
      <4>1. \A m \in meses : m < t => m \in D(q) /\ m \notin D(100)
        BY <1>3, <3>1
      <4>2. \A m \in meses : ~(m < t) => m \notin D(q) /\ m \in D(100)
        BY <1>3, <3>1
      <4>3. D(q) \subseteq meses /\ D(100) \subseteq meses
        OBVIOUS
      <4> HIDE DEF D
      <4>4. \A m : m \in 0 .. t - 1 <=> m \in meses /\ m < t
        BY <1>1
      <4>5. \A m : m \in t .. g - 1 <=> m \in meses /\ ~(m < t)
        BY <1>1
      <4> HIDE DEF meses
      <4> QED BY <4>1, <4>2, <4>3, <4>4, <4>5
    <3>3. Cardinality(D(q)) = t /\ Cardinality(D(100)) = g - t
      BY <1>1, <2>1, <2>2, <3>2
    <3>4. q \in V /\ (100 \in V <=> g > t) /\ V \subseteq {q, 100}
      <4>1. 0 \in meses /\ Base(f, 0) = q
        BY <1>1, <1>3, <2>5
      <4>2. g > t => t \in meses /\ Base(f, t) = 100
        BY <1>1, <1>3
      <4>3. ASSUME 100 \in V PROVE g > t
        <5>1. PICK m \in meses : Base(f, m) = 100
          BY <4>3
        <5>2. ~(m < t) /\ m \in 0 .. g - 1
          BY <1>3, <3>1, <5>1
        <5> QED BY <1>1, <5>2
      <4> QED BY <2>3, <4>1, <4>2, <4>3
    <3>5. h[q] = q * t /\ (100 \in V => h[100] = 100 * (g - t)) /\ DOMAIN h = V
      <4>1. \A v \in V : h[v] = v * Cardinality(D(v))
        OBVIOUS
      <4>2. DOMAIN h = V
        OBVIOUS
      <4> HIDE DEF h, V, D, q
      <4>3. h[q] = q * Cardinality(D(q))
        BY <3>4, <4>1
      <4>4. 100 \in V => h[100] = 100 * Cardinality(D(100))
        BY <4>1
      <4> QED BY <3>3, <4>2, <4>3, <4>4
    <3> HIDE DEF V, h, D, q
    <3>6. q * t \in Int /\ 100 * (g - t) \in Int
      BY <1>1, <3>1
    <3>7. Total(h) = (IF q \in DOMAIN h THEN h[q] ELSE 0) + (IF 100 \in DOMAIN h THEN h[100] ELSE 0)
      <4>1. DOMAIN h \subseteq {q, 100} /\ \A x \in DOMAIN h : h[x] \in Int
        BY <3>4, <3>5, <3>6
      <4> QED BY <3>1, <4>1, TotalDos
    <3>8. Total(h) = q * t + 100 * (g - t)
      BY <1>1, <3>4, <3>5, <3>6, <3>7
    <3> QED BY <2>5, <3>8 DEF q
  <2> QED BY <1>1, <2>4, <2>5
<1> QED BY <1>2, <1>4

-----------------------------------------------------------------------------
(* The simulator: the bisection of the deferred annuity *)

Tramos(x) == (0 .. x.saldo) \X (0 .. x.saldo)

(* One halving: g is the search from the halves on.                         *)
Parte(x, g, r) ==
  LET medio == (r[1] + r[2]) \div 2 IN
  IF r[2] - r[1] <= 1 THEN r[1]
  ELSE IF Exceso(x, medio) > 0 THEN g[<<r[1], medio>>] ELSE g[<<medio, r[2]>>]

EsBusca(x, b) == b = [r \in Tramos(x) |-> Parte(x, b, r)]

LEMMA BiseccionEs ==
  ASSUME NEW x
  PROVE  Biseccion(x) = (CHOOSE b : EsBusca(x, b))[<<0, x.saldo>>]
BY DEF Biseccion, EsBusca, Tramos, Parte

LEMMA Medio ==
  ASSUME NEW i \in Nat, NEW j \in Nat, j - i > 1
  PROVE  LET h == (i + j) \div 2 IN h \in Nat /\ i < h /\ h < j
OBVIOUS

(* The search is of some width that grows from 0 to the whole balance.      *)
LEMMA HayBusca ==
  ASSUME NEW x, x.saldo \in Nat
  PROVE  \E b : EsBusca(x, b)
<1> DEFINE n == x.saldo
           T == Tramos(x)
           Vale(b, k) == \A r \in T : r[2] - r[1] <= k => b[r] = Parte(x, b, r)
           B == {k \in 0 .. n : \E b : Vale(b, k)}
<1>1. \A r \in T : r[1] \in 0 .. n /\ r[2] \in 0 .. n /\ r = <<r[1], r[2]>>
  BY DEF Tramos
<1>2. \A i, j \in 0 .. n : <<i, j>> \in T
  BY DEF Tramos
<1> HIDE DEF T, n
<1>n. n \in Nat
  BY DEF n
<1>3. ASSUME NEW r \in T, NEW b, NEW d, NEW k \in Nat, r[2] - r[1] <= k + 1,
             \A s \in T : s[2] - s[1] <= k => b[s] = d[s]
      PROVE  Parte(x, b, r) = Parte(x, d, r)
  <2> DEFINE i == r[1]
             j == r[2]
             h == (i + j) \div 2
  <2>1. i \in 0 .. n /\ j \in 0 .. n /\ i \in Nat /\ j \in Nat /\ j - i <= k + 1
    BY <1>1, <1>3, <1>n
  <2>2. CASE j - i <= 1
    BY <2>2 DEF Parte
  <2>3. CASE ~(j - i <= 1)
    <3> HIDE DEF i, j
    <3>1. h \in Nat /\ i < h /\ h < j
      BY <2>1, <2>3, Medio
    <3>2. h \in 0 .. n /\ h - i <= k /\ j - h <= k
      <4> HIDE DEF h
      <4> QED BY <1>n, <2>1, <3>1
    <3> HIDE DEF h
    <3>3. <<i, h>> \in T /\ <<h, j>> \in T
      BY <1>2, <2>1, <3>2
    <3>4. b[<<i, h>>] = d[<<i, h>>]
      <4>1. <<i, h>>[1] = i /\ <<i, h>>[2] = h
        OBVIOUS
      <4> QED BY <1>3, <3>2, <3>3, <4>1
    <3>5. b[<<h, j>>] = d[<<h, j>>]
      <4>1. <<h, j>>[1] = h /\ <<h, j>>[2] = j
        OBVIOUS
      <4> QED BY <1>3, <3>2, <3>3, <4>1
    <3> QED BY <2>3, <3>4, <3>5 DEF Parte, i, j, h
  <2> QED BY <2>2, <2>3
<1>4. 0 \in B
  <2> DEFINE b == [r \in T |-> r[1]]
  <2>1. Vale(b, 0)
    <3> SUFFICES ASSUME NEW r \in T, r[2] - r[1] <= 0 PROVE b[r] = Parte(x, b, r)
      OBVIOUS
    <3>1. r[2] - r[1] <= 1 /\ b[r] = r[1]
      BY <1>1, <1>n
    <3> HIDE DEF b
    <3> QED BY <3>1 DEF Parte
  <2> HIDE DEF b, Vale
  <2>2. \E d : Vale(d, 0)
    BY <2>1
  <2> QED BY <1>n, <2>2
<1>5. ASSUME NEW k \in 1 .. n, k - 1 \in B PROVE k \in B
  <2>1. k \in Nat /\ k \in 0 .. n /\ k - 1 \in Nat /\ (k - 1) + 1 = k
    BY <1>n
  <2>2. PICK b : Vale(b, k - 1)
    BY <1>5
  <2> DEFINE d == [r \in T |-> IF r[2] - r[1] <= k - 1 THEN b[r] ELSE Parte(x, b, r)]
  <2>3. \A r \in T : r[2] - r[1] <= k - 1 => b[r] = d[r]
    OBVIOUS
  <2>4. ASSUME NEW r \in T, r[2] - r[1] <= k PROVE d[r] = Parte(x, d, r)
    <3>1. d[r] = Parte(x, b, r)
      BY <2>2
    <3> HIDE DEF d
    <3>2. Parte(x, b, r) = Parte(x, d, r)
      BY <1>3, <2>1, <2>3, <2>4
    <3> QED BY <3>1, <3>2
  <2> HIDE DEF d
  <2>5. Vale(d, k)
    BY <2>4
  <2> QED BY <2>1, <2>5
<1> HIDE DEF B
<1>6. n \in B
  <2>1. 0 .. n \subseteq B
    BY <1>4, <1>5, <1>n, HastaEl
  <2> QED BY <1>n, <2>1
<1>7. PICK b : Vale(b, n)
  BY <1>6 DEF B
<1> DEFINE d == [r \in T |-> b[r]]
<1>8. \A r \in T : r[2] - r[1] <= n
  BY <1>1, <1>n
<1>9. \A r \in T : b[r] = d[r]
  OBVIOUS
<1>10. ASSUME NEW r \in T PROVE d[r] = Parte(x, d, r)
  <2>1. b[r] = Parte(x, b, r)
    BY <1>7, <1>8
  <2>2. r[2] - r[1] <= n + 1
    BY <1>1, <1>n
  <2> HIDE DEF d
  <2>3. Parte(x, b, r) = Parte(x, d, r)
    BY <1>3, <1>9, <1>n, <2>2
  <2> QED BY <1>9, <2>1, <2>3
<1>11. d = [r \in T |-> d[r]]
  OBVIOUS
<1> HIDE DEF d
<1>12. d = [r \in T |-> Parte(x, d, r)]
  BY <1>10, <1>11
<1> QED BY <1>12 DEF EsBusca, T

(* The search keeps what it looks for between its ends.                     *)
LEMMA BiseccionCuadra ==
  ASSUME NEW x, x.saldo \in Nat, x.saldo > 0, \A p \in 0 .. x.saldo : Exceso(x, p) \in Int,
         Exceso(x, 0) <= 0, Exceso(x, x.saldo) > 0
  PROVE  LET p == Biseccion(x) IN
         p \in 0 .. x.saldo - 1 /\ Exceso(x, p) <= 0 /\ Exceso(x, p + 1) > 0
<1> DEFINE n == x.saldo
           T == Tramos(x)
           b == CHOOSE d : EsBusca(x, d)
           E(p) == Exceso(x, p)
           Cierto(p) == p \in 0 .. n - 1 /\ E(p) <= 0 /\ E(p + 1) > 0
           Entre(r) == r[1] < r[2] /\ E(r[1]) <= 0 /\ E(r[2]) > 0
           B == {k \in 0 .. n : \A r \in T : r[2] - r[1] <= k /\ Entre(r) => Cierto(b[r])}
<1>1. EsBusca(x, b)
  BY HayBusca
<1>2. \A r \in T : b[r] = Parte(x, b, r)
  <2> HIDE DEF b
  <2> QED BY <1>1 DEF EsBusca
<1>3. \A r \in T : r[1] \in 0 .. n /\ r[2] \in 0 .. n
  BY DEF Tramos
<1>4. \A i, j \in 0 .. n : <<i, j>> \in T
  BY DEF Tramos
<1>5. n \in Nat /\ n > 0 /\ \A p \in 0 .. n : E(p) \in Int
  OBVIOUS
<1>p. \A r : Parte(x, b, r) =
        IF r[2] - r[1] <= 1 THEN r[1]
        ELSE IF E((r[1] + r[2]) \div 2) > 0 THEN b[<<r[1], (r[1] + r[2]) \div 2>>]
        ELSE b[<<(r[1] + r[2]) \div 2, r[2]>>]
  BY DEF Parte
<1> HIDE DEF T, b, n, E
<1>6. 0 \in B
  <2>1. \A r \in T : r[1] < r[2] => ~(r[2] - r[1] <= 0)
    BY <1>3, <1>5
  <2> QED BY <1>5, <2>1
<1>7. ASSUME NEW k \in 1 .. n, k - 1 \in B PROVE k \in B
  <2>1. k \in Nat /\ k \in 0 .. n
    BY <1>5
  <2>2. ASSUME NEW r \in T, r[2] - r[1] <= k, Entre(r) PROVE Cierto(b[r])
    <3> DEFINE i == r[1]
               j == r[2]
               h == (i + j) \div 2
    <3>1. i \in 0 .. n /\ j \in 0 .. n /\ i \in Nat /\ j \in Nat /\ i < j /\ E(i) <= 0 /\ E(j) > 0
          /\ j - i <= k
      BY <1>3, <1>5, <2>2
    <3>2. b[r] = IF j - i <= 1 THEN i ELSE IF E(h) > 0 THEN b[<<i, h>>] ELSE b[<<h, j>>]
      BY <1>2, <1>p
    <3> HIDE DEF i, j, h, Cierto
    <3>3. CASE j - i <= 1
      <4>1. b[r] = i /\ j = i + 1 /\ i \in 0 .. n - 1
        BY <1>5, <3>1, <3>2, <3>3
      <4> QED BY <3>1, <4>1 DEF Cierto
    <3>4. CASE ~(j - i <= 1)
      <4>1. h \in Nat /\ i < h /\ h < j
        BY <3>1, <3>4, Medio DEF h
      <4>2. h \in 0 .. n /\ h - i <= k - 1 /\ j - h <= k - 1
        BY <1>5, <2>1, <3>1, <4>1
      <4>3. <<i, h>> \in T /\ <<h, j>> \in T /\ E(h) \in Int
        BY <1>4, <1>5, <3>1, <4>2
      <4>4. \A s \in T : s[2] - s[1] <= k - 1 /\ Entre(s) => Cierto(b[s])
        BY <1>7
      <4>5. <<i, h>>[1] = i /\ <<i, h>>[2] = h /\ <<h, j>>[1] = h /\ <<h, j>>[2] = j
        OBVIOUS
      <4>6. CASE E(h) > 0
        <5>1. Entre(<<i, h>>) /\ <<i, h>>[2] - <<i, h>>[1] <= k - 1
          BY <3>1, <4>1, <4>2, <4>5, <4>6
        <5>2. b[r] = b[<<i, h>>]
          BY <3>2, <3>4, <4>6
        <5> HIDE DEF Entre
        <5> QED BY <4>3, <4>4, <5>1, <5>2
      <4>7. CASE ~(E(h) > 0)
        <5>1. Entre(<<h, j>>) /\ <<h, j>>[2] - <<h, j>>[1] <= k - 1
          BY <3>1, <4>1, <4>2, <4>3, <4>5, <4>7
        <5>2. b[r] = b[<<h, j>>]
          BY <3>2, <3>4, <4>7
        <5> HIDE DEF Entre
        <5> QED BY <4>3, <4>4, <5>1, <5>2
      <4> QED BY <4>6, <4>7
    <3> QED BY <3>3, <3>4
  <2> HIDE DEF Cierto, Entre
  <2> QED BY <2>1, <2>2
<1>8. n \in B
  <2> HIDE DEF B
  <2>1. 0 .. n \subseteq B
    BY <1>5, <1>6, <1>7, HastaEl
  <2> QED BY <1>5, <2>1
<1>9. Cierto(b[<<0, n>>])
  <2> DEFINE s == <<0, n>>
  <2>1. s \in T /\ s[1] = 0 /\ s[2] = n
    BY <1>4, <1>5
  <2>2. E(0) <= 0 /\ E(n) > 0
    BY DEF E, n
  <2> HIDE DEF s, Cierto
  <2>3. Entre(s) /\ s[2] - s[1] <= n
    BY <1>5, <2>1, <2>2
  <2>4. Cierto(b[s])
    BY <1>8, <2>1, <2>3
  <2> QED BY <2>4 DEF s
<1>10. Biseccion(x) = b[<<0, n>>]
  BY BiseccionEs DEF b, n
<1> QED BY <1>9, <1>10 DEF E, n

LEMMA MenorDeDos ==
  ASSUME NEW a \in Int, NEW b \in Int
  PROVE  Min({a, b}) = IF a <= b THEN a ELSE b
BY DEF Min

LEMMA MayorDeDos ==
  ASSUME NEW a \in Int, NEW b \in Int
  PROVE  Max({a, b}) = IF a >= b THEN a ELSE b
BY DEF Max

(* The premium with the temporary annuity.                                  *)
Gasto(x, p) == Prima(x, p) + x.d * p

LEMMA BalanceEs ==
  ASSUME NEW x \in Balances, NEW p \in Nat
  PROVE  LET z == Gasto(x, p) IN
         /\ z \in Nat /\ Comision(x, p) \in Nat
         /\ p = 0 => z <= 5 /\ Comision(x, p) = 0
         /\ p = 200 => z >= 600
<1> DEFINE A == x.adef * p
           D == x.d * p
           K == x.kan * p
           q == x.qins
           u == Min({K, 60})
           v == Max({A + q, Min({x.saldo, 3000})})
<1>1. x.adef \in {3, 7} /\ q \in {0, 5} /\ x.d \in {1, 4} /\ x.kan \in {1, 9} /\ x.saldo = 200
  BY DEF Balances
<1>2. A \in {3 * p, 7 * p} /\ D \in {1 * p, 4 * p} /\ K \in {1 * p, 9 * p}
  BY <1>1
<1>3. Prima(x, p) = A + q /\ Comision(x, p) = u * v
  BY DEF Prima, Comision
<1> HIDE DEF A, D, K, q
<1>4. A \in Nat /\ D \in Nat /\ K \in Nat /\ q \in 0 .. 5
  BY <1>1, <1>2
<1>5. u = IF K <= 60 THEN K ELSE 60
  BY <1>4, MenorDeDos
<1>6. Min({x.saldo, 3000}) = 200
  <2>1. x.saldo \in Int /\ 3000 \in Int /\ x.saldo <= 3000
    BY <1>1
  <2> QED BY <1>1, <2>1, MenorDeDos
<1>7. v = IF A + q >= 200 THEN A + q ELSE 200
  <2>1. A + q \in Int /\ 200 \in Int
    BY <1>4
  <2> QED BY <1>6, <2>1, MayorDeDos
<1> HIDE DEF u, v
<1>8. u \in Nat /\ v \in Nat /\ (K = 0 => u = 0)
  BY <1>4, <1>5, <1>7
<1>9. u * v \in Nat /\ (K = 0 => u * v = 0)
  BY <1>8
<1>10. p = 0 => A = 0 /\ D = 0 /\ K = 0
  BY <1>2
<1>11. p = 200 => A >= 600
  BY <1>2
<1>12. Gasto(x, p) = A + q + D
  BY <1>3 DEF D, Gasto
<1> DEFINE z == Gasto(x, p)
           c == Comision(x, p)
<1>13. z = A + q + D /\ c = u * v
  BY <1>3, <1>12
<1> HIDE DEF z, c
<1>14. /\ z \in Nat /\ c \in Nat
       /\ p = 0 => z <= 5 /\ c = 0
       /\ p = 200 => z >= 600
  <2>1. z \in Nat /\ c \in Nat
    BY <1>4, <1>9, <1>13
  <2>2. p = 0 => z <= 5 /\ c = 0
    BY <1>4, <1>9, <1>10, <1>13
  <2>3. p = 200 => z >= 600
    BY <1>4, <1>11, <1>13
  <2> QED BY <2>1, <2>2, <2>3
<1> QED BY <1>14 DEF z, c

LEMMA ExcesoEs ==
  ASSUME NEW x \in Balances, NEW p \in Nat
  PROVE  Exceso(x, p) = (Gasto(x, p) - 200) * 200 + Comision(x, p)
<1>1. x.saldo = 200
  BY DEF Balances
<1> DEFINE a == Prima(x, p)
           b == x.d * p
<1>2. Exceso(x, p) = (a + (b - x.saldo)) * x.saldo + Comision(x, p)
  BY DEF Exceso
<1>3. a \in Int /\ b \in Int
  <2>1. x.adef \in Int /\ x.qins \in Int /\ x.d \in Int
    BY DEF Balances
  <2> QED BY <2>1 DEF Prima
<1>4. Gasto(x, p) = a + b
  BY DEF Gasto
<1> HIDE DEF a, b
<1>5. a + (b - 200) = (a + b) - 200
  BY <1>3
<1> QED BY <1>1, <1>2, <1>4, <1>5

LEMMA DiferidaBien == DiferidaCuadra
<1> SUFFICES ASSUME NEW x \in Balances
             PROVE  LET p == Biseccion(x)
                        gasto(q) == Gasto(x, q) * x.saldo + Comision(x, q) IN
                    gasto(p) <= x.saldo * x.saldo /\ gasto(p + 1) > x.saldo * x.saldo
  BY DEF DiferidaCuadra, Gasto
<1> DEFINE z(q) == Gasto(x, q)
           c(q) == Comision(x, q)
           e(q) == Exceso(x, q)
           p == Biseccion(x)
<1>1. x.saldo = 200
  BY DEF Balances
<1>2. \A q \in Nat : e(q) = (z(q) - 200) * 200 + c(q)
  BY ExcesoEs
<1>3. \A q \in Nat : /\ z(q) \in Nat /\ c(q) \in Nat
                     /\ q = 0 => z(q) <= 5 /\ c(q) = 0
                     /\ q = 200 => z(q) >= 600
  BY BalanceEs
<1>4. p \in 0 .. 199 /\ e(p) <= 0 /\ e(p + 1) > 0
  <2>1. x.saldo \in Nat /\ x.saldo > 0
    BY <1>1
  <2> HIDE DEF z, c, p
  <2>2. \A q \in Nat : e(q) \in Int
    <3> SUFFICES ASSUME NEW q \in Nat PROVE e(q) \in Int
      OBVIOUS
    <3>1. e(q) = (z(q) - 200) * 200 + c(q) /\ z(q) \in Nat /\ c(q) \in Nat
      BY <1>2, <1>3
    <3> HIDE DEF e
    <3> QED BY <3>1
  <2>3. e(0) <= 0
    <3>1. e(0) = (z(0) - 200) * 200 + c(0) /\ z(0) \in Nat /\ z(0) <= 5 /\ c(0) = 0
      BY <1>2, <1>3
    <3> HIDE DEF e
    <3> QED BY <3>1
  <2>4. e(200) > 0
    <3>1. e(200) = (z(200) - 200) * 200 + c(200) /\ z(200) \in Nat /\ z(200) >= 600 /\ c(200) \in Nat
      BY <1>2, <1>3
    <3> HIDE DEF e
    <3> QED BY <3>1
  <2>5. /\ \A q \in 0 .. x.saldo : Exceso(x, q) \in Int
        /\ Exceso(x, 0) <= 0 /\ Exceso(x, x.saldo) > 0
    BY <1>1, <2>2, <2>3, <2>4
  <2>6. /\ Biseccion(x) \in 0 .. x.saldo - 1 /\ Exceso(x, Biseccion(x)) <= 0
        /\ Exceso(x, Biseccion(x) + 1) > 0
    BY <2>1, <2>5, BiseccionCuadra
  <2> QED BY <1>1, <2>6 DEF p
<1> DEFINE g(q) == z(q) * 200 + c(q)
<1> HIDE DEF z, c, e, p
<1>5. g(p) <= 200 * 200
  <2> DEFINE a == z(p)
             b == c(p)
  <2>1. a \in Nat /\ b \in Nat
    BY <1>3, <1>4
  <2>2. (a - 200) * 200 + b <= 0
    BY <1>2, <1>4
  <2> HIDE DEF a, b
  <2>3. a * 200 + b <= 200 * 200
    BY <2>1, <2>2
  <2> QED BY <2>3 DEF a, b
<1>6. g(p + 1) > 200 * 200
  <2> DEFINE a == z(p + 1)
             b == c(p + 1)
  <2>1. a \in Nat /\ b \in Nat
    BY <1>3, <1>4
  <2>2. (a - 200) * 200 + b > 0
    BY <1>2, <1>4
  <2> HIDE DEF a, b
  <2>3. a * 200 + b > 200 * 200
    BY <2>1, <2>2
  <2> QED BY <2>3 DEF a, b
<1> QED BY <1>1, <1>5, <1>6 DEF z, c, p

-----------------------------------------------------------------------------
(* The simulator: the table of the family *)

LEMMA Juntas ==
  ASSUME NEW U, NEW s \in Seq(U), NEW t \in Seq(U)
  PROVE  s \o t \in Seq(U) /\ Len(s \o t) = Len(s) + Len(t)
OBVIOUS

(* The rows of the table: who is simulated, each with an age.               *)
LEMMA FilasBien ==
  ASSUME NEW f, NEW c, Admitida(f, c)
  PROVE  LET filas == FamiliaMostrada(f, c) IN
         /\ Len(filas) = 1 + Len(Hijos(f)) + (IF Conyuge(f) = Nulo THEN 0 ELSE 1)
         /\ \A i \in DOMAIN filas : filas[i].edad # Nulo /\ filas[i].edad \in 0 .. 100
         /\ Escenario(f) = "renta_temporal_rvd" => Len(filas) = 1 /\ RescateOpcionI(f) = 0
<1> DEFINE hs == Hijos(f)
           n == Len(hs)
           filas == FamiliaMostrada(f, c)
           a == FilaFamilia("causante", c)
           b == FilaFamilia("conyuge", f.conyuge)
           B == IF EnBlanco(f.conyuge) THEN << >> ELSE <<b>>
           H == [i \in 1 .. n |-> FilaFamilia("hijo", hs[i])]
           U == {x \in {a, b} \cup {H[i] : i \in 1 .. n} : x.edad \in 0 .. 100}
<1>1. /\ FormularioValido(f) /\ FamiliaValida(f) /\ EdadesValidas(f, c) /\ CausanteValido(c)
      /\ Reconstruida(f)
  BY DEF Admitida, FormularioValido, Simula
<1>2. f.conyuge \in Personas /\ Nulo \notin Personas
  BY SimuladorAssumption DEF Admitida, Enviados
<1>3. Conyuge(f) = Nulo <=> EnBlanco(f.conyuge)
  BY <1>2 DEF Conyuge
<1>4. n \in Nat /\ DOMAIN hs = 1 .. n
  <2>1. hs \in Seq(Completas)
    BY <1>1, FamiliaCompleta DEF Admitida
  <2> HIDE DEF hs
  <2> QED BY <2>1
<1>5. filas = <<a>> \o B \o H
  BY <1>4 DEF FamiliaMostrada
<1>6. a \in U
  <2>1. Edad(c.nac) \in 0 .. 100
    <3>1. RangoCausante(f) \subseteq 0 .. 100
      BY DEF RangoCausante
    <3> QED BY <1>1, <3>1 DEF EdadesValidas
  <2>2. a.edad = Edad(c.nac)
    BY <1>1 DEF CausanteValido, Completa, FilaFamilia
  <2> HIDE DEF a, b, H
  <2> QED BY <2>1, <2>2
<1>7. ~EnBlanco(f.conyuge) => b \in U
  <2> SUFFICES ASSUME ~EnBlanco(f.conyuge) PROVE b \in U
    OBVIOUS
  <2>1. Edad(f.conyuge.nac) \in 46 .. 96 /\ f.conyuge.nac # Nulo
    BY <1>1, <1>3 DEF EdadesValidas, FamiliaValida, Completa
  <2>2. b.edad = Edad(f.conyuge.nac)
    BY <2>1 DEF FilaFamilia
  <2> HIDE DEF a, b, H
  <2>3. b.edad \in 0 .. 100
    BY <2>1, <2>2
  <2> QED BY <2>3
<1>8. \A i \in 1 .. n : H[i] \in U
  <2> SUFFICES ASSUME NEW i \in 1 .. n PROVE H[i] \in U
    OBVIOUS
  <2>1. Edad(hs[i].nac) \in 0 .. 41 /\ hs[i].nac # Nulo
    BY <1>1, <1>4 DEF EdadesValidas, FamiliaValida, Completa
  <2>2. H[i].edad = Edad(hs[i].nac)
    BY <2>1 DEF FilaFamilia
  <2> HIDE DEF a, b, H
  <2>3. H[i].edad \in 0 .. 100
    BY <2>1, <2>2
  <2> QED BY <2>3
<1>9. H \in Seq(U) /\ Len(H) = n
  <2> DEFINE h(i) == FilaFamilia("hijo", hs[i])
  <2>1. H = [i \in 1 .. n |-> h(i)] /\ \A i \in 1 .. n : h(i) \in U
    BY <1>8
  <2> HIDE DEF h, U, n, H
  <2> QED BY <1>4, <2>1
<1> HIDE DEF U, H, a, b, n
<1>10. /\ B \in Seq(U) /\ Len(B) = IF Conyuge(f) = Nulo THEN 0 ELSE 1
  BY <1>3, <1>7
<1> HIDE DEF B, filas
<1>11. <<a>> \in Seq(U) /\ Len(<<a>>) = 1
  BY <1>6
<1>12. filas \in Seq(U) /\ Len(filas) = 1 + Len(B) + n
  <2> DEFINE C == <<a>> \o B
  <2>1. C \in Seq(U) /\ Len(C) = Len(<<a>>) + Len(B)
    BY <1>10, <1>11, Juntas
  <2>2. filas = C \o H
    BY <1>5
  <2> HIDE DEF C
  <2>3. filas \in Seq(U) /\ Len(filas) = Len(C) + Len(H)
    BY <1>9, <2>1, <2>2, Juntas
  <2>4. Len(<<a>>) = 1
    BY <1>11
  <2> QED BY <1>4, <1>9, <1>10, <2>1, <2>3, <2>4
<1>13. ASSUME NEW i \in DOMAIN filas PROVE filas[i].edad # Nulo /\ filas[i].edad \in 0 .. 100
  <2>1. filas[i] \in U
    BY <1>12
  <2>2. filas[i].edad \in 0 .. 100
    BY <2>1 DEF U
  <2>3. 0 .. 100 \subseteq Int /\ Nulo \notin Int
    BY SimuladorAssumption
  <2> QED BY <2>2, <2>3
<1>14. Len(filas) = 1 + n + (IF Conyuge(f) = Nulo THEN 0 ELSE 1)
  BY <1>4, <1>10, <1>12
<1>15. Escenario(f) = "renta_temporal_rvd" => Len(filas) = 1 /\ RescateOpcionI(f) = 0
  <2> SUFFICES ASSUME Escenario(f) = "renta_temporal_rvd"
               PROVE  Len(filas) = 1 /\ RescateOpcionI(f) = 0
    OBVIOUS
  <2>1. f.diferidos > 0
    BY DEF Escenario
  <2>2. Conyuge(f) = Nulo /\ hs = << >> /\ f.garantia = 0
    BY <1>1, <2>1 DEF Reconstruida
  <2>3. n = 0
    BY <2>2 DEF n
  <2>4. RescateOpcionI(f) = 0
    BY <2>2 DEF RescateOpcionI
  <2> QED BY <1>14, <2>2, <2>3, <2>4
<1> QED BY <1>13, <1>14, <1>15 DEF filas, n

-----------------------------------------------------------------------------
(* The simulator: the evidence *)

Suceso(p, f, c) ==
  [actor |-> p, escenario |-> Escenario(f), detalle |-> Detalle(f, c),
   codigo |-> Codigo(Entradas(f, c))]

Validos(p) == {f \in Formularios[p] : FamiliaValida(f)}

Sucesos ==
  UNION {{Suceso(p, f, c) : f \in Validos(p), c \in Causantes} : p \in Procesos}

PasosSim == {"ocioso", "formulario", "generar", "registrar", "entregar", "respondida"}

Peticiones ==
  [paso : PasosSim, lead : Causantes \cup {Nulo}, form : Enviados \cup {Nulo}]

(* The request q of p has what its step needs.                              *)
Bien(p, q) ==
  /\ q.paso # "ocioso" => q.lead \in Causantes
  /\ q.paso \in {"generar", "registrar", "entregar"} => q.form \in Validos(p)
  /\ q.form # Nulo => Admitida(q.form, q.lead)

Escrito(evs, p, q) ==
  q.paso = "entregar" => \E i \in DOMAIN evs : evs[i] = Suceso(p, q.form, q.lead)

Respalda(ev, x) ==
  /\ ev.actor = x.usuario /\ ev.codigo = x.codigo
  /\ "rvd" \in x.opciones <=> ev.escenario = "renta_temporal_rvd"

Respaldada(evs, x) == \E i \in DOMAIN evs : Respalda(evs[i], x)

Expedientes == [causante : Causantes, de : Procesos]

(* Before a PDF is handed over its event is written, and an event keeps its *)
(* lead.                                                                    *)
SimInv ==
  /\ pension \in Expedientes \cup {Nulo}
  /\ peticion \in [Procesos -> Peticiones]
  /\ \A p \in Procesos : Bien(p, peticion[p])
  /\ eventos \in Seq(Sucesos)
  /\ \A p \in Procesos : Escrito(eventos, p, peticion[p])
  /\ \A x \in fichas : Respaldada(eventos, x)
  /\ eventos # << >> => pension # Nulo

LEMMA SimInicio == InitSim => SimInv
<1> SUFFICES ASSUME InitSim PROVE SimInv
  OBVIOUS
<1> USE DEF InitSim
<1>1. pension \in Expedientes
  BY DEF Expedientes
<1>2. \A p \in Procesos : peticion[p] = Ocioso
  OBVIOUS
<1>3. Ocioso \in Peticiones /\ Ocioso.paso = "ocioso" /\ Ocioso.form = Nulo
  BY DEF Ocioso, Peticiones, PasosSim
<1>4. peticion \in [Procesos -> Peticiones]
  BY <1>3
<1>5. \A p \in Procesos : Bien(p, peticion[p]) /\ Escrito(eventos, p, peticion[p])
  BY <1>2, <1>3 DEF Bien, Escrito
<1>6. eventos = << >> /\ fichas = {}
  OBVIOUS
<1> QED BY <1>1, <1>4, <1>5, <1>6 DEF SimInv

(* One more event: those there were stay where they were.                   *)
LEMMA UnSucesoMas ==
  ASSUME NEW evs \in Seq(Sucesos), NEW ev \in Sucesos
  PROVE  /\ Append(evs, ev) \in Seq(Sucesos) /\ Append(evs, ev) # << >>
         /\ \E i \in DOMAIN Append(evs, ev) : Append(evs, ev)[i] = ev
         /\ \A i \in DOMAIN evs : i \in DOMAIN Append(evs, ev) /\ Append(evs, ev)[i] = evs[i]
<1> DEFINE a == Append(evs, ev)
           n == Len(evs)
<1>1. n \in Nat /\ a \in Seq(Sucesos) /\ Len(a) = n + 1 /\ a[n + 1] = ev
  OBVIOUS
<1>2. DOMAIN a = 1 .. n + 1 /\ DOMAIN evs = 1 .. n
  BY <1>1
<1>3. \A i \in 1 .. n : a[i] = evs[i]
  OBVIOUS
<1> HIDE DEF a, n
<1>4. n + 1 \in DOMAIN a /\ a # << >>
  BY <1>1, <1>2
<1>5. \A i \in 1 .. n : i \in DOMAIN a
  BY <1>1, <1>2
<1> QED BY <1>1, <1>2, <1>3, <1>4, <1>5 DEF a

(* A step of the request of p that writes nothing, or what it had to write. *)
LEMMA SimPaso ==
  ASSUME SimInv, NEW p \in Procesos, NEW r \in Peticiones, Bien(p, r),
         peticion' = [peticion EXCEPT ![p] = r], UNCHANGED pension,
         \/ eventos' = eventos
         \/ /\ \E ev \in Sucesos : eventos' = Append(eventos, ev)
            /\ pension # Nulo,
         Escrito(eventos', p, r),
         \A x \in fichas' : x \in fichas \/ Respaldada(eventos', x)
  PROVE  SimInv'
<1> USE DEF SimInv
<1>1. eventos' \in Seq(Sucesos) /\ (eventos' # << >> => pension # Nulo)
  BY UnSucesoMas
<1>2. \A i \in DOMAIN eventos : i \in DOMAIN eventos' /\ eventos'[i] = eventos[i]
  BY UnSucesoMas
<1>3. peticion' \in [Procesos -> Peticiones]
  OBVIOUS
<1>4. \A q \in Procesos : peticion'[q] = IF q = p THEN r ELSE peticion[q]
  OBVIOUS
<1>5. \A q \in Procesos : Bien(q, peticion'[q])
  BY <1>4
<1>6. \A q \in Procesos : Escrito(eventos, q, peticion[q]) => Escrito(eventos', q, peticion[q])
  BY <1>2 DEF Escrito
<1>7. \A q \in Procesos : Escrito(eventos', q, peticion'[q])
  BY <1>4, <1>6
<1>8. \A x : Respaldada(eventos, x) => Respaldada(eventos', x)
  BY <1>2 DEF Respaldada
<1>9. \A x \in fichas' : Respaldada(eventos', x)
  BY <1>8
<1> QED BY <1>1, <1>3, <1>5, <1>7, <1>9

LEMMA SimSiguiente == SimInv /\ [NextSim]_varsSim => SimInv'
<1> SUFFICES ASSUME SimInv, [NextSim]_varsSim PROVE SimInv'
  OBVIOUS
<1>0. /\ peticion \in [Procesos -> Peticiones] /\ eventos \in Seq(Sucesos)
      /\ pension \in Expedientes \cup {Nulo}
      /\ \A p \in Procesos : Bien(p, peticion[p]) /\ Escrito(eventos, p, peticion[p])
  BY DEF SimInv
<1>o. ASSUME NEW p \in Procesos PROVE Ocioso \in Peticiones /\ Bien(p, Ocioso) /\ Ocioso.paso = "ocioso"
  BY DEF Ocioso, Peticiones, PasosSim, Bien
<1>f. \A p \in Procesos : Validos(p) \subseteq Enviados
  BY DEF Validos, Enviados
<1>1. ASSUME NEW p \in Procesos, Leer(p) PROVE SimInv'
  <2> DEFINE r == [paso |-> "formulario", lead |-> pension.causante, form |-> Nulo]
  <2>1. peticion' = [peticion EXCEPT ![p] = r] /\ UNCHANGED <<pension, eventos, fichas>>
    BY <1>1 DEF Leer
  <2>2. pension.causante \in Causantes
    BY <1>0, <1>1 DEF Leer, PuedeVer, Expedientes
  <2>3. r \in Peticiones /\ Bien(p, r) /\ r.paso = "formulario"
    BY <2>2 DEF Peticiones, PasosSim, Bien
  <2> HIDE DEF r
  <2>4. Escrito(eventos', p, r)
    BY <2>3 DEF Escrito
  <2> QED BY <2>1, <2>3, <2>4, SimPaso
<1>2. ASSUME NEW p \in Procesos, Rechazar(p) \/ CaidaSim(p) PROVE SimInv'
  <2>1. peticion' = [peticion EXCEPT ![p] = Ocioso] /\ UNCHANGED <<pension, eventos, fichas>>
    BY <1>2 DEF Rechazar, CaidaSim
  <2>2. Escrito(eventos', p, Ocioso)
    BY <1>o DEF Escrito
  <2> QED BY <1>o, <2>1, <2>2, SimPaso
<1>3. ASSUME NEW p \in Procesos, Simular(p) PROVE SimInv'
  <2>1. PICK f \in Formularios[p] :
          /\ Aceptado(f, peticion[p].lead)
          /\ peticion' = [peticion EXCEPT ![p].form = f,
               ![p].paso = IF f.intent = "descargar_pdf" THEN "generar" ELSE "respondida"]
          /\ UNCHANGED <<pension, eventos, fichas>>
    BY <1>3 DEF Simular
  <2> DEFINE s == IF f.intent = "descargar_pdf" THEN "generar" ELSE "respondida"
             r == [peticion[p] EXCEPT !.form = f, !.paso = s]
  <2>2. peticion' = [peticion EXCEPT ![p] = r]
    BY <1>0, <2>1
  <2>3. s \in {"generar", "respondida"}
    OBVIOUS
  <2>4. peticion[p] \in Peticiones /\ peticion[p].paso = "formulario" /\ Bien(p, peticion[p])
    BY <1>0, <1>3 DEF Simular, EnPasoSim
  <2>5. f \in Validos(p)
    BY <2>1 DEF Aceptado, FormularioValido, Validos
  <2>6. f \in Enviados
    BY <1>f, <2>5
  <2>a. Admitida(f, peticion[p].lead)
    BY <2>1, <2>6 DEF Aceptado, Admitida
  <2> HIDE DEF s
  <2>7. r \in Peticiones /\ r.paso = s /\ r.form = f /\ r.lead = peticion[p].lead
    BY <2>3, <2>4, <2>6 DEF Peticiones, PasosSim
  <2> HIDE DEF r
  <2>8. Bien(p, r)
    BY <2>3, <2>4, <2>5, <2>7, <2>a DEF Bien
  <2>9. Escrito(eventos', p, r)
    BY <2>3, <2>7 DEF Escrito
  <2> QED BY <2>1, <2>2, <2>7, <2>8, <2>9, SimPaso
<1>4. ASSUME NEW p \in Procesos, GenerarPdf(p) PROVE SimInv'
  <2> DEFINE r == [peticion[p] EXCEPT !.paso = "registrar"]
  <2>1. peticion[p] \in Peticiones /\ peticion[p].paso = "generar" /\ Bien(p, peticion[p])
    BY <1>0, <1>4 DEF GenerarPdf, EnPasoSim
  <2>2. r \in Peticiones /\ r.paso = "registrar" /\ r.form = peticion[p].form /\ r.lead = peticion[p].lead
    BY <2>1 DEF Peticiones, PasosSim
  <2>3. \/ peticion' = [peticion EXCEPT ![p] = r]
        \/ peticion' = [peticion EXCEPT ![p] = Ocioso]
    BY <1>0, <1>4 DEF GenerarPdf
  <2> HIDE DEF r
  <2>4. Bien(p, r) /\ Escrito(eventos', p, r) /\ Escrito(eventos', p, Ocioso)
    BY <1>o, <2>1, <2>2 DEF Bien, Escrito
  <2>5. UNCHANGED <<pension, eventos, fichas>>
    BY <1>4 DEF GenerarPdf
  <2> QED BY <1>o, <2>2, <2>3, <2>4, <2>5, SimPaso
<1>5. ASSUME NEW p \in Procesos, Registrar(p) PROVE SimInv'
  <2> DEFINE r == [peticion[p] EXCEPT !.paso = "entregar"]
             ev == EventoDe(p)
  <2>1. peticion[p] \in Peticiones /\ peticion[p].paso = "registrar" /\ Bien(p, peticion[p])
    BY <1>0, <1>5 DEF Registrar, EnPasoSim
  <2>2. r \in Peticiones /\ r.paso = "entregar" /\ r.form = peticion[p].form /\ r.lead = peticion[p].lead
    BY <2>1 DEF Peticiones, PasosSim
  <2>3. ev = Suceso(p, peticion[p].form, peticion[p].lead)
    BY DEF EventoDe, Suceso
  <2>4. peticion[p].form \in Validos(p) /\ peticion[p].lead \in Causantes
    BY <2>1 DEF Bien
  <2>5. ev \in Sucesos
    BY <2>3, <2>4 DEF Sucesos
  <2>6. \/ /\ pension # Nulo /\ eventos' = Append(eventos, ev)
           /\ peticion' = [peticion EXCEPT ![p] = r]
        \/ /\ eventos' = eventos /\ peticion' = [peticion EXCEPT ![p] = Ocioso]
        \/ /\ pension # Nulo /\ eventos' = Append(eventos, ev)
           /\ peticion' = [peticion EXCEPT ![p] = Ocioso]
    BY <1>0, <1>5 DEF Registrar, SinEvento
  <2> HIDE DEF r, ev
  <2>7. UNCHANGED <<pension, fichas>>
    BY <1>5 DEF Registrar
  <2>8. CASE pension # Nulo /\ eventos' = Append(eventos, ev) /\ peticion' = [peticion EXCEPT ![p] = r]
    <3>1. Bien(p, r)
      BY <2>1, <2>2, <2>4 DEF Bien
    <3>2. \E i \in DOMAIN eventos' : eventos'[i] = ev
      BY <1>0, <2>5, <2>8, UnSucesoMas
    <3>3. Escrito(eventos', p, r)
      BY <2>2, <2>3, <3>2 DEF Escrito
    <3> QED BY <2>2, <2>5, <2>7, <2>8, <3>1, <3>3, SimPaso
  <2>9. CASE peticion' = [peticion EXCEPT ![p] = Ocioso]
    <3>1. Escrito(eventos', p, Ocioso)
      BY <1>o DEF Escrito
    <3> QED BY <1>o, <2>5, <2>6, <2>7, <2>9, <3>1, SimPaso
  <2> QED BY <2>6, <2>8, <2>9
<1>6. ASSUME NEW p \in Procesos, Entregar(p) PROVE SimInv'
  <2> DEFINE r == [peticion[p] EXCEPT !.paso = "respondida"]
             f == peticion[p].form
             x == [usuario |-> p, codigo |-> EventoDe(p).codigo, opciones |-> Opciones(f)]
  <2>1. peticion[p] \in Peticiones /\ peticion[p].paso = "entregar" /\ Bien(p, peticion[p])
    BY <1>0, <1>6 DEF Entregar, EnPasoSim
  <2>2. r \in Peticiones /\ r.paso = "respondida" /\ r.form = f /\ r.lead = peticion[p].lead
    BY <2>1 DEF Peticiones, PasosSim
  <2>3. peticion' = [peticion EXCEPT ![p] = r]
    BY <1>0, <1>6 DEF Entregar
  <2>4. PICK i \in DOMAIN eventos : eventos[i] = Suceso(p, f, peticion[p].lead)
    BY <1>0, <2>1 DEF Escrito
  <2>5. "rvd" \in Opciones(f) <=> Escenario(f) = "renta_temporal_rvd"
    BY DEF Opciones, Escenario
  <2>6. Respalda(eventos[i], x)
    BY <2>4, <2>5 DEF Respalda, Suceso, EventoDe
  <2>7. fichas' = fichas \cup {x} /\ UNCHANGED <<pension, eventos>>
    BY <1>6 DEF Entregar
  <2> HIDE DEF r, x, f
  <2>b. f = peticion[p].form
    BY DEF f
  <2>8. Bien(p, r) /\ Escrito(eventos', p, r)
    BY <2>1, <2>2, <2>b DEF Bien, Escrito
  <2>9. Respaldada(eventos', x)
    BY <2>6, <2>7 DEF Respaldada
  <2> QED BY <2>2, <2>3, <2>7, <2>8, <2>9, SimPaso
<1>7. CASE Reasignar
  <2>1. PICK p \in Procesos : pension' = [pension EXCEPT !.de = p]
    BY <1>7 DEF Reasignar
  <2>2. pension \in Expedientes /\ UNCHANGED <<peticion, eventos, fichas>>
    BY <1>0, <1>7 DEF Reasignar
  <2>3. pension' \in Expedientes
    BY <2>1, <2>2 DEF Expedientes
  <2>4. Nulo \notin Expedientes
    BY SimuladorAssumption DEF Expedientes
  <2> QED BY <2>2, <2>3, <2>4 DEF SimInv
<1>8. CASE BorrarLead
  BY <1>8 DEF BorrarLead, SimInv
<1>9. CASE UNCHANGED varsSim
  BY <1>9 DEF varsSim, SimInv
<1> QED BY <1>1, <1>2, <1>3, <1>4, <1>5, <1>6, <1>7, <1>8, <1>9 DEF NextSim

LEMMA SucesoFiel == \A ev \in Sucesos : Codigo(ev.detalle) = ev.codigo
<1> SUFFICES ASSUME NEW p \in Procesos, NEW f \in Validos(p), NEW c \in Causantes
             PROVE  Codigo(Detalle(f, c)) = Codigo(Entradas(f, c))
  BY DEF Sucesos, Suceso
<1>1. f \in Enviados /\ FamiliaValida(f)
  BY DEF Validos, Enviados
<1> QED BY <1>1, CodigoDelDetalle

(* What is shown is of a form and a causante that were let through.         *)
LEMMA ResultadoBien == SimInv => ResultadoCoherente
<1> SUFFICES ASSUME SimInv, NEW p \in Resueltas
             PROVE  LET f == peticion[p].form
                        c == peticion[p].lead
                        filas == FamiliaMostrada(f, c) IN
                    /\ Len(filas) = 1 + Len(Hijos(f)) + (IF Conyuge(f) = Nulo THEN 0 ELSE 1)
                    /\ \A i \in DOMAIN filas : filas[i].edad # Nulo /\ filas[i].edad \in 0 .. 100
                    /\ Escenario(f) = "renta_temporal_rvd" => Len(filas) = 1 /\ RescateOpcionI(f) = 0
                    /\ RepartoCoherente(f, c) /\ RescateDeLaGarantia(f)
                    /\ f.diferidos > 0 => DiferidaCuadra
  BY DEF ResultadoCoherente
<1> DEFINE f == peticion[p].form
           c == peticion[p].lead
<1>1. Admitida(f, c)
  BY DEF Resueltas, SimInv, Bien
<1> HIDE DEF f, c
<1>2. RepartoCoherente(f, c) /\ RescateDeLaGarantia(f) /\ DiferidaCuadra
  BY <1>1, RepartoBien, RescateBien, DiferidaBien
<1> QED BY <1>1, <1>2, FilasBien DEF f, c

(* What a user is shown of a simulation is right, for every form that the   *)
(* checks let through: who is in the table and their ages, how the pension  *)
(* is shared among the survivors month by month, the rescue of the          *)
(* guarantee and the balance of a deferred annuity.  And no study leaves    *)
(* without its evidence, whatever fails: the event of every PDF delivered   *)
(* is there, with the user, the scenario and the code of the PDF, and the   *)
(* inputs that it keeps give that code again.                               *)
THEOREM SimulacionSiempreFiel == SpecSim => []SimulacionFiel
<1>1. SimInv => EvidenciaSuficiente
  <2> SUFFICES ASSUME SimInv PROVE EvidenciaSuficiente
    OBVIOUS
  <2>1. \A i \in DOMAIN eventos : eventos[i] \in Sucesos
    BY DEF SimInv
  <2>2. \A i \in DOMAIN eventos : Codigo(eventos[i].detalle) = eventos[i].codigo
    BY <2>1, SucesoFiel
  <2>3. \A x \in fichas : \E i \in DOMAIN eventos : Respalda(eventos[i], x)
    BY DEF SimInv, Respaldada
  <2>4. eventos # << >> => pension # Nulo
    BY DEF SimInv
  <2> QED BY <2>2, <2>3, <2>4 DEF EvidenciaSuficiente, Respalda
<1>2. SimInv => SimulacionFiel
  BY <1>1, ResultadoBien DEF SimulacionFiel
<1> QED BY SimInicio, SimSiguiente, <1>2, PTL DEF SpecSim
=============================================================================
