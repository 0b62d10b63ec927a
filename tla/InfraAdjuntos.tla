--------------------------- MODULE InfraAdjuntos ---------------------------
(***************************************************************************)
(* The S3 bucket of the attachments and adjuntos_s3_infra.py, which        *)
(* applies, verifies and rolls back the bucket, its policy, the role of    *)
(* GuardDuty, the permission of the application and the malware plan.      *)
(*                                                                         *)
(* One command runs at a time; each of its AWS calls is a step and it may  *)
(* fail or die at any of them.  Meanwhile the application uploads          *)
(* attachments, GuardDuty scans them, and Elastic Beanstalk may recreate   *)
(* the environment, which loses the inline policy of its role.  The        *)
(* settings of the bucket that are always written together (tags, public   *)
(* access, ownership, encryption, lifecycle) are one flag.                 *)
(***************************************************************************)
EXTENDS Naturals

CONSTANTS
  NoHay,            \* no value
  Adjuntos,         \* the real attachments the application may upload
  MaxOrdenes,       \* bound: commands run
  MaxRecreaciones,  \* bound: recreations of the environment
  PLAN_RETRIES      \* attempts to create the plan (6 in the code)

ASSUME BoundsInfra ==
  /\ {MaxOrdenes, MaxRecreaciones, PLAN_RETRIES} \subseteq Nat
  /\ Adjuntos \cap {"limpio", "eicar"} = {}
  /\ NoHay \notin [ajustes : BOOLEAN, politica : {"falta", "otra", "esperada"}, versionado : BOOLEAN]
  /\ NoHay \notin [confianza : BOOLEAN, permisos : BOOLEAN]

Pruebas == {"limpio", "eicar"}
Objetos == Adjuntos \cup Pruebas

VARIABLES
  bucket,   \* NoHay or [ajustes, politica, versionado]
  rolGD,    \* the role of GuardDuty: NoHay or [confianza, permisos]
  permiso,  \* the inline policy of the application's role
  plan,     \* the malware plan: NoHay or [estado, conforme]
  objetos,  \* each object: absent or the state of its scan
  orden,    \* the command that runs, or NoHay
  hist      \* what the properties look back at

varsInfra == <<bucket, rolGD, permiso, plan, objetos, orden, hist>>
recursos == <<bucket, rolGD, permiso, plan, objetos>>

-----------------------------------------------------------------------------
(* The application, GuardDuty and Elastic Beanstalk *)

PlanActivo == plan # NoHay /\ plan.estado = "ACTIVE"

(* GuardDuty scans what is uploaded while the plan is active, no more. *)
Subido == IF PlanActivo THEN "sin_escanear" ELSE "sin_plan"

SubirAdjunto(o) ==
  /\ o \in Adjuntos /\ bucket # NoHay /\ permiso # "falta" /\ objetos[o] = "ausente"
  /\ objetos' = [objetos EXCEPT ![o] = Subido]
  /\ hist' = IF orden # NoHay /\ orden.listado THEN [hist EXCEPT !.tarde = @ \cup {o}] ELSE hist
  /\ UNCHANGED <<bucket, rolGD, permiso, plan, orden>>

Escanear(o) ==
  /\ PlanActivo /\ objetos[o] = "sin_escanear"
  /\ objetos' = [objetos EXCEPT ![o] = IF o = "eicar" THEN "amenaza" ELSE "sin_amenazas"]
  /\ UNCHANGED <<bucket, rolGD, permiso, plan, orden, hist>>

PlanCambia ==
  /\ plan # NoHay /\ plan.estado = "PENDING"
  /\ \E estado \in {"ACTIVE", "ERROR"} : plan' = [plan EXCEPT !.estado = estado]
  /\ UNCHANGED <<bucket, rolGD, permiso, objetos, orden, hist>>

RecrearEntorno ==
  /\ hist.recreado < MaxRecreaciones
  /\ permiso' = "falta"
  /\ hist' = [hist EXCEPT !.recreado = @ + 1]
  /\ orden' = IF orden = NoHay THEN NoHay ELSE [orden EXCEPT !.recreado = TRUE]
  /\ UNCHANGED <<bucket, rolGD, plan, objetos>>
-----------------------------------------------------------------------------
(* plan, and the end of apply and rollback: what FALTA or DIFIERE. *)

Si(falla, nombre) == IF falla THEN {nombre} ELSE {}

FaltasDelBucket ==
  IF bucket = NoHay THEN {"bucket"}
  ELSE Si(~bucket.ajustes, "ajustes") \cup Si(bucket.versionado, "versionado")
         \cup Si(bucket.politica # "esperada", "politica")

FaltasDeRoles ==
  Si(rolGD = NoHay \/ ~rolGD.confianza, "rol_de_GuardDuty")
    \cup Si(rolGD = NoHay \/ ~rolGD.permisos, "permisos_del_rol")
    \cup Si(permiso # "esperado", "permiso_de_la_app")

FaltaPlan == Si(~PlanActivo \/ ~plan.conforme, "plan")

inspect == FaltasDelBucket \cup FaltasDeRoles \cup FaltaPlan

-----------------------------------------------------------------------------
(* The command *)

EnPaso(paso) == orden # NoHay /\ orden.paso = paso
Ir(paso) == orden' = [orden EXCEPT !.paso = paso]
FinDeOrden == orden' = NoHay

Empezar ==
  /\ orden = NoHay /\ hist.ordenes < MaxOrdenes
  /\ \E paso \in {"bucket", "probar", "listar"} :
       orden' = [paso |-> paso, listado |-> FALSE, recreado |-> FALSE, intentos |-> 0,
                 planAjeno |-> FALSE, falla |-> FALSE]
  /\ hist' = [hist EXCEPT !.ordenes = @ + 1, !.pasa = FALSE]
  /\ UNCHANGED recursos

(* An AWS error ends the command, and so does the death of the process.    *)
(* verify cleans its two objects in its finally, if it is still alive. *)
Abortar ==
  /\ orden # NoHay
  /\ \/ UNCHANGED objetos
     \/ /\ orden.paso \in {"leer", "probar_eicar", "esperar_escaneo"}
        /\ objetos' = [o \in Objetos |-> IF o \in Pruebas THEN "ausente" ELSE objetos[o]]
  /\ FinDeOrden
  /\ UNCHANGED <<bucket, rolGD, permiso, plan, hist>>

(* apply, steps 1 to 3: the bucket and its settings; an existing bucket    *)
(* with versioning is refused, after its settings were written. *)
AplicarBucket ==
  /\ EnPaso("bucket")
  /\ bucket' = IF bucket = NoHay
                 THEN [ajustes |-> FALSE, politica |-> "falta", versionado |-> FALSE] ELSE bucket
  /\ Ir("ajustes")
  /\ UNCHANGED <<rolGD, permiso, plan, objetos, hist>>

(* Mutant: the settings without the look at the versioning. *)
AplicarAjustesSinMirar ==
  /\ EnPaso("ajustes")
  /\ bucket' = [bucket EXCEPT !.ajustes = TRUE]
  /\ Ir("rol")
  /\ UNCHANGED <<rolGD, permiso, plan, objetos, hist>>

AplicarAjustes ==
  /\ EnPaso("ajustes")
  /\ bucket' = [bucket EXCEPT !.ajustes = TRUE]
  /\ IF bucket.versionado THEN FinDeOrden ELSE Ir("rol")
  /\ UNCHANGED <<rolGD, permiso, plan, objetos, hist>>

(* Steps 4 to 7. *)
AplicarRol ==
  /\ EnPaso("rol")
  /\ rolGD' = [confianza |-> TRUE, permisos |-> rolGD # NoHay /\ rolGD.permisos]
  /\ Ir("permisos_del_rol")
  /\ UNCHANGED <<bucket, permiso, plan, objetos, hist>>

AplicarPermisosDelRol ==
  /\ EnPaso("permisos_del_rol")
  /\ rolGD' = [rolGD EXCEPT !.permisos = TRUE]
  /\ Ir("permiso_de_la_app")
  /\ UNCHANGED <<bucket, permiso, plan, objetos, hist>>

(* The permission comes before the policy.  Over a bucket that an           *)
(* interrupted rollback left without policy, the promise of the earlier     *)
(* apply ends here. *)
AplicarPermisoApp ==
  /\ EnPaso("permiso_de_la_app")
  /\ permiso' = "esperado"
  /\ hist' = [hist EXCEPT !.aplicado = @ /\ bucket.politica = "esperada"]
  /\ Ir("politica")
  /\ UNCHANGED <<bucket, rolGD, plan, objetos>>

AplicarPolitica ==
  /\ EnPaso("politica")
  /\ bucket' = [bucket EXCEPT !.politica = "esperada"]
  /\ Ir("plan")
  /\ UNCHANGED <<rolGD, permiso, plan, objetos, hist>>

(* Step 8: a plan of the bucket, whatever it says, is left alone. *)
BuscarPlan ==
  /\ EnPaso("plan")
  /\ orden' = [orden EXCEPT !.paso = IF plan = NoHay THEN "crear_plan" ELSE "esperar_plan",
                            !.planAjeno = plan # NoHay]
  /\ UNCHANGED <<recursos, hist>>

(* The role may not have propagated yet: some attempts fail. *)
CrearPlan ==
  /\ EnPaso("crear_plan")
  /\ \/ /\ plan' = [estado |-> "PENDING", conforme |-> TRUE]
        /\ Ir("esperar_plan")
     \/ /\ orden.intentos + 1 < PLAN_RETRIES
        /\ orden' = [orden EXCEPT !.intentos = @ + 1]
        /\ UNCHANGED plan
     \/ orden.intentos + 1 = PLAN_RETRIES /\ FinDeOrden /\ UNCHANGED plan
  /\ UNCHANGED <<bucket, rolGD, permiso, objetos, hist>>

EsperarPlan ==
  /\ EnPaso("esperar_plan") /\ plan.estado # "PENDING"
  /\ FinDeOrden
  /\ hist' = [hist EXCEPT !.aplicado = @ \/ plan.estado = "ACTIVE"]
  /\ UNCHANGED recursos

(* verify: one object without threats, read at once and after its scan, and *)
(* one with the antivirus test. *)
Legible(o) == bucket.politica = "esperada" => objetos[o] = "sin_amenazas"

SubirLimpio ==
  /\ EnPaso("probar") /\ bucket # NoHay
  /\ objetos' = [objetos EXCEPT !["limpio"] = Subido]
  /\ Ir("leer")
  /\ UNCHANGED <<bucket, rolGD, permiso, plan, hist>>

(* Readable and not scanned is a failure; readable and scanned meanwhile    *)
(* proves nothing. *)
LeerSinEscanear ==
  /\ EnPaso("leer")
  /\ orden' = [orden EXCEPT !.paso = "probar_eicar",
                 !.falla = @ \/ (Legible("limpio") /\ objetos["limpio"] # "sin_amenazas")]
  /\ UNCHANGED <<recursos, hist>>

SubirEicar ==
  /\ EnPaso("probar_eicar")
  /\ objetos' = [objetos EXCEPT !["eicar"] = Subido]
  /\ Ir("esperar_escaneo")
  /\ UNCHANGED <<bucket, rolGD, permiso, plan, hist>>

(* Both tags arrive or the waits run out; then the finally deletes both. *)
EsperarEscaneo ==
  /\ EnPaso("esperar_escaneo")
  /\ orden' = [orden EXCEPT !.paso = "permiso_final",
                 !.falla = @ \/ objetos["limpio"] # "sin_amenazas" \/ ~Legible("limpio")
                             \/ objetos["eicar"] # "amenaza" \/ Legible("eicar")
                             \/ bucket.politica # "esperada"]
  /\ objetos' = [o \in Objetos |-> IF o \in Pruebas THEN "ausente" ELSE objetos[o]]
  /\ UNCHANGED <<bucket, rolGD, permiso, plan, hist>>

SimularPermiso ==
  /\ EnPaso("permiso_final")
  /\ FinDeOrden
  /\ hist' = [hist EXCEPT !.pasa = ~orden.falla /\ permiso = "esperado"]
  /\ UNCHANGED recursos

(* rollback: refused if the bucket holds a real attachment. *)
Reales == {o \in Adjuntos : objetos[o] # "ausente"}

(* Mutant: the listing whose result nobody looks at. *)
ListarSinMirar ==
  /\ EnPaso("listar")
  /\ orden' = [orden EXCEPT !.paso = "borrar_plan", !.listado = TRUE]
  /\ UNCHANGED <<recursos, hist>>

ListarAdjuntos ==
  /\ EnPaso("listar")
  /\ orden' = IF bucket # NoHay /\ Reales # {} THEN NoHay
              ELSE [orden EXCEPT !.paso = "borrar_plan", !.listado = TRUE]
  /\ UNCHANGED <<recursos, hist>>

BorrarPlan ==
  /\ EnPaso("borrar_plan")
  /\ plan' = NoHay
  /\ Ir("quitar_permiso")
  /\ UNCHANGED <<bucket, rolGD, permiso, objetos, hist>>

QuitarPermiso ==
  /\ EnPaso("quitar_permiso")
  /\ permiso' = "falta"
  /\ Ir(IF bucket = NoHay THEN "borrar_rol" ELSE "quitar_politica")
  /\ UNCHANGED <<bucket, rolGD, plan, objetos, hist>>

QuitarPolitica ==
  /\ EnPaso("quitar_politica")
  /\ bucket' = [bucket EXCEPT !.politica = "falta"]
  /\ Ir("vaciar")
  /\ UNCHANGED <<rolGD, permiso, plan, objetos, hist>>

(* Every object of the listing goes, one by one, real or not. *)
VaciarBucket(o) ==
  /\ EnPaso("vaciar") /\ objetos[o] # "ausente"
  /\ objetos' = [objetos EXCEPT ![o] = "ausente"]
  /\ hist' = IF o \in Adjuntos THEN [hist EXCEPT !.perdidos = @ \cup {o}] ELSE hist
  /\ UNCHANGED <<bucket, rolGD, permiso, plan, orden>>

BorrarBucket ==
  /\ EnPaso("vaciar") /\ \A o \in Objetos : objetos[o] = "ausente"
  /\ bucket' = NoHay
  /\ hist' = [hist EXCEPT !.aplicado = FALSE]
  /\ Ir("borrar_rol")
  /\ UNCHANGED <<rolGD, permiso, plan, objetos>>

BorrarRol ==
  /\ EnPaso("borrar_rol")
  /\ IF rolGD # NoHay /\ rolGD.permisos
       THEN rolGD' = [rolGD EXCEPT !.permisos = FALSE] /\ UNCHANGED orden
       ELSE rolGD' = NoHay /\ FinDeOrden
  /\ UNCHANGED <<bucket, permiso, plan, objetos, hist>>
-----------------------------------------------------------------------------
(* Nothing yet, or what an earlier or partial setup, by hand too, left. *)
InitInfra ==
  /\ bucket \in {NoHay} \cup
       [ajustes : BOOLEAN, politica : {"falta", "otra", "esperada"}, versionado : BOOLEAN]
  /\ rolGD \in {NoHay} \cup [confianza : BOOLEAN, permisos : BOOLEAN]
  /\ permiso \in {"falta", "otro", "esperado"}
  /\ plan \in {NoHay} \cup [estado : {"ACTIVE"}, conforme : BOOLEAN]
  /\ objetos = [o \in Objetos |-> "ausente"]
  /\ orden = NoHay
  /\ hist = [ordenes |-> 0, recreado |-> 0, aplicado |-> FALSE, pasa |-> FALSE,
             tarde |-> {}, perdidos |-> {}]

Mundo ==
  \/ \E o \in Adjuntos : SubirAdjunto(o)
  \/ \E o \in Objetos : Escanear(o)
  \/ PlanCambia \/ RecrearEntorno

Aplicar ==
  \/ AplicarBucket \/ AplicarAjustes \/ AplicarRol \/ AplicarPermisosDelRol
  \/ AplicarPermisoApp \/ AplicarPolitica \/ BuscarPlan \/ CrearPlan \/ EsperarPlan

Verificar == SubirLimpio \/ LeerSinEscanear \/ SubirEicar \/ EsperarEscaneo \/ SimularPermiso

Revertir ==
  \/ ListarAdjuntos \/ BorrarPlan \/ QuitarPermiso \/ QuitarPolitica
  \/ \E o \in Objetos : VaciarBucket(o)
  \/ BorrarBucket \/ BorrarRol

NextInfra == Empezar \/ Abortar \/ Mundo \/ Aplicar \/ Verificar \/ Revertir

SpecInfra == InitInfra /\ [][NextInfra]_varsInfra
-----------------------------------------------------------------------------
(* Once an apply ended well, the application never can read an attachment   *)
(* that was not scanned clean, whatever command fails or dies half way,     *)
(* until a rollback has deleted the bucket, or has died after the policy    *)
(* and another apply gives the permission before it puts the policy back.   *)
(* And a rollback deletes no attachment but those uploaded after it had     *)
(* looked at the bucket. *)
BucketSeguro ==
  /\ hist.aplicado /\ permiso # "falta" => bucket # NoHay /\ bucket.politica = "esperada"
  /\ hist.perdidos \subseteq hist.tarde

(* An apply that ends well leaves everything as expected, from whatever it  *)
(* found, but for two things: the permission of the application, if the     *)
(* environment was recreated meanwhile, and a plan that was there before.   *)
(* A verify that passes has met the policy and an active plan. *)
OrdenesVeraces ==
  [][/\ orden # NoHay /\ orden.paso = "esperar_plan" /\ orden' = NoHay /\ PlanActivo
          /\ UNCHANGED permiso /\ hist'.aplicado
        => inspect \subseteq Si(orden.recreado, "permiso_de_la_app") \cup Si(orden.planAjeno, "plan")
     /\ hist'.pasa /\ ~hist.pasa => PlanActivo /\ bucket.politica = "esperada"]_varsInfra

(* The bucket and its commands keep both promises: BucketSeguro in every    *)
(* state, OrdenesVeraces in every step, over the commands apply, verify and *)
(* rollback of adjuntos_s3_infra.py. *)
InfraSegura == []BucketSeguro /\ OrdenesVeraces
=============================================================================
