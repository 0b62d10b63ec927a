------------------------------ MODULE DatosDev ------------------------------
(***************************************************************************)
(* The two tools a person runs against the data of DEV while the           *)
(* application serves: scripts/dev_reset_leads.py deletes every lead and   *)
(* attachment and seeds new ones, scripts/dev_usuarios.py edits the secret *)
(* of the users and tpi.asesores.  Database, bucket and secret share no    *)
(* transaction, and a person reads a plan and types a phrase in between.   *)
(* The guards on the host, the database, its user and the AWS account are  *)
(* taken as passed: without them a command ends and has touched nothing.   *)
(***************************************************************************)
EXTENDS FiniteSets, Naturals

CONSTANTS
  Nadie,
  Coordinadores,     \* the users coordinador.ejemploN, each with its name
  Sembrados,         \* the leads of the plan of a reset
  Terminales,        \* consoles a person runs a command from
  MaxComandos        \* commands ever run

VARIABLES
  lead,       \* tpi.leads as the others see it: estado, asesor, marks; or Nadie
  archivos,    \* the leads that have an attachment in the bucket
  secreto,    \* the users of AUTH_USERS_JSON and the number of its version
  asesores,   \* rows of tpi.asesores by name, which is unique
  tablas,     \* the foreign keys of the schema, fixed: pairs <<table, referred>>
  comando,      \* the command of each console
  subiendo,   \* leads with a note whose file is uploaded and not yet written
  pasado      \* history: commands run, crossings, resets that broke off

varsDatos == <<lead, archivos, secreto, asesores, tablas, comando, subiendo, pasado>>

Viejo == "viejo"                     \* a lead from before the reset
Nuevo == "nuevo_ingreso"             \* a lead the intake adds meanwhile
Leads == {Viejo, Nuevo} \cup Sembrados
Socio == "socio"                     \* a user with role ceo, and his display name
Otro  == "otro"                      \* a user somebody adds in the AWS console

(* Names of different kinds differ, and no value at all is no row.         *)
ASSUME ConsolasAssumption ==
  /\ {Viejo, Nuevo} \cap Sembrados = {}
  /\ {Socio, Otro, "asesora"} \cap Coordinadores = {}
  /\ Nadie \notin Coordinadores \cup {Socio, Otro, "asesora"}
  /\ Nadie \notin [rol : {"asesor", "socio"}, atiende : BOOLEAN]
  /\ Nadie \notin [estado : {"nuevo", "asignado"},
                   asesor : Coordinadores \cup {Socio, Otro, "asesora", Nadie}, marca : BOOLEAN]

(***************************************************************************)
(* dev_usuarios: edition of the secret.  A user is his name, his role and  *)
(* the advisor he is bound to.                                             *)
(***************************************************************************)
Usuario(u, rol, asesor) == [usuario |-> u, rol |-> rol, asesor |-> asesor]

Nombres(us) == {x.usuario : x \in us}

EntradaUsuario(k) == Usuario(k, "coordinator", k)

(* Faulty variant: the secret becomes the users that were asked for.       *)
AgregarSoloNuevos(us, nuevos) == {x \in nuevos : x.usuario \notin Nombres(us)}

AgregarUsuarios(us, nuevos) == us \cup {x \in nuevos : x.usuario \notin Nombres(us)}

QuitarUsuarios(us) == {x \in us : x.usuario \notin Coordinadores}

SociosDelSecreto(us) == {x.usuario : x \in {y \in us : y.rol \in {"ceo", "cto"}}}

CoordinadoresDelSecreto(us) == {x \in us : x.rol = "coordinator"}

(* The parser of the application: some user, no name twice, known roles;   *)
(* and each user just added is a coordinator with his advisor.             *)
Valida(us, esperados) ==
  /\ us # {}
  /\ \A x, y \in us : x.usuario = y.usuario => x = y
  /\ \A x \in us : x.rol \in {"ceo", "cto", "coordinator", "advisor"}
  /\ \A k \in esperados : \E x \in us :
       x.usuario = k /\ x.rol = "coordinator" /\ x.asesor # Nadie

Fila(rol, atiende) == [rol |-> rol, atiende |-> atiende]

AsesoresActivos == {a \in DOMAIN asesores : asesores[a] # Nadie /\ asesores[a].rol = "asesor"}

(***************************************************************************)
(* dev_reset_leads: the tables that depend on leads or personas, and the   *)
(* plan of the leads to seed.                                              *)
(***************************************************************************)
Conocidas == {"leads", "personas", "asignaciones", "citas", "auditoria"}

Dependen ==
  LET cierre[n \in Nat] ==
        IF n = 0 THEN {"leads", "personas"}
        ELSE cierre[n - 1] \cup {fk[1] : fk \in {f \in tablas : f[2] \in cierre[n - 1]}}
  IN  cierre[Cardinality(tablas)]

DependientesInesperados == Dependen \ Conocidas

FilaLead(estado, asesor) == [estado |-> estado, asesor |-> asesor, marca |-> FALSE]

(* Half of the plan is nuevo and without advisor, as the first entry of    *)
(* REPARTO; the rest is drawn among the advisors read at the start.        *)
PlanesDeLeads(as) ==
  {p \in [Sembrados -> {FilaLead("nuevo", Nadie)} \cup {FilaLead("asignado", a) : a \in as}] :
     \E s \in Sembrados : p[s].estado = "asignado"}

Libre == [que |-> "libre", paso |-> "libre", visto |-> {}, version |-> 0,
          asesores |-> {}, plan |-> Nadie, borrados |-> {}]

InitDatos ==
  /\ lead = [l \in Leads |-> IF l = Viejo THEN FilaLead("nuevo", Nadie) ELSE Nadie]
  /\ archivos = {}
  /\ secreto = [usuarios |-> {Usuario(Socio, "ceo", Nadie)}, version |-> 0]
  /\ asesores = [n \in Coordinadores \cup {Socio, Otro, "asesora"} |->
                   IF n = "asesora" THEN Fila("asesor", FALSE) ELSE Nadie]
  /\ tablas \in {{<<"leads", "personas">>, <<"citas", "leads">>},
                 {<<"leads", "personas">>, <<"citas", "leads">>, <<"encuestas", "citas">>}}
  /\ comando = [t \in Terminales |-> Libre]
  /\ subiendo = {}
  /\ pasado = [comandos |-> 0, cruce |-> FALSE, roto |-> FALSE, tarde |-> {}, ingresos |-> 0]

Poner(t, cambio) == comando' = [comando EXCEPT ![t] = cambio]

Fin(t) == Poner(t, Libre)

Contado(h) == [h EXCEPT !.comandos = @ + 1]

Empieza(t) == comando[t].paso = "libre" /\ pasado.comandos < MaxComandos

EnReinicio(t) == comando[t].que = "reinicio"

(* The rows a reset has deleted and not committed: who writes them waits.  *)
Bloqueado(l) == \E t \in Terminales : l \in comando[t].borrados

(* A person reads the plan and does not type the phrase, or it is a        *)
(* simulation.                                                             *)
Desistir(t) ==
  /\ comando[t].paso = "confirmar"
  /\ Fin(t)
  /\ UNCHANGED <<lead, archivos, secreto, asesores, tablas, subiendo, pasado>>

(***************************************************************************)
(* dev_reset_leads.  The objects are listed first, before the transaction. *)
(* With --sin-s3 the bucket is left alone, and so are its files.  The leads *)
(* of a reset get new identifiers: one reset commits, at most.             *)
(***************************************************************************)
ListarBucket(t) ==
  /\ Empieza(t) /\ \A o \in Terminales : ~EnReinicio(o)
  /\ \A s \in Sembrados : lead[s] = Nadie
  /\ \E claves \in {archivos, {}} :
       /\ Poner(t, [Libre EXCEPT !.que = "reinicio", !.paso = "mirar", !.visto = claves])
       /\ pasado' = [Contado(pasado) EXCEPT !.tarde = @ \cup (archivos \ claves)]
  /\ UNCHANGED <<lead, archivos, secreto, asesores, tablas, subiendo>>

(* Tables it does not know, or nobody to assign to: it stops.              *)
MirarBase(t) ==
  /\ comando[t].paso = "mirar"
  /\ IF DependientesInesperados # {} \/ AsesoresActivos = {} THEN Fin(t)
     ELSE Poner(t, [comando[t] EXCEPT !.paso = "confirmar", !.asesores = AsesoresActivos])
  /\ UNCHANGED <<lead, archivos, secreto, asesores, tablas, subiendo, pasado>>

BorrarTodo(t) ==
  /\ comando[t].paso = "confirmar" /\ EnReinicio(t)
  /\ Poner(t, [comando[t] EXCEPT !.paso = "personas",
                            !.borrados = {l \in Leads : lead[l] # Nadie}])
  /\ UNCHANGED <<lead, archivos, secreto, asesores, tablas, subiendo, pasado>>

(* A lead that the intake committed after the first DELETE still refers to *)
(* its persona: the foreign key fails the transaction.                     *)
Sembrar(t) ==
  /\ comando[t].paso = "personas"
  /\ IF \E l \in Leads : lead[l] # Nadie /\ l \notin comando[t].borrados THEN Fin(t)
     ELSE \E p \in PlanesDeLeads(comando[t].asesores) :
            Poner(t, [comando[t] EXCEPT !.paso = "s3", !.plan = p])
  /\ UNCHANGED <<lead, archivos, secreto, asesores, tablas, subiendo, pasado>>

(* Faulty variant: the objects are left in the bucket.                     *)
SaltarObjetos(t) ==
  /\ comando[t].paso = "s3"
  /\ Poner(t, [comando[t] EXCEPT !.paso = "confirmada", !.visto = {}])
  /\ UNCHANGED <<lead, archivos, secreto, asesores, tablas, subiendo, pasado>>

(* One batch of what was listed, with or without an error; an error, even  *)
(* of part of a batch, reverts the transaction.                            *)
BorrarLotes(t) ==
  /\ comando[t].paso = "s3"
  /\ \/ /\ comando[t].visto = {}
        /\ Poner(t, [comando[t] EXCEPT !.paso = "confirmada"]) /\ UNCHANGED <<archivos, pasado>>
     \/ \E lote \in SUBSET comando[t].visto \ {{}} :
          /\ archivos' = archivos \ lote
          /\ \/ Poner(t, [comando[t] EXCEPT !.visto = @ \ lote]) /\ UNCHANGED pasado
             \/ Fin(t) /\ pasado' = [pasado EXCEPT !.roto = TRUE]
  /\ UNCHANGED <<lead, secreto, asesores, tablas, subiendo>>

(* conn.commit(), which the connection may lose.                           *)
Comprometer(t) ==
  /\ comando[t].paso = "confirmada"
  /\ \/ /\ lead' = [l \in Leads |->
                      IF l \in Sembrados THEN comando[t].plan[l]
                      ELSE IF l \in comando[t].borrados THEN Nadie ELSE lead[l]]
        /\ UNCHANGED pasado
     \/ UNCHANGED lead /\ pasado' = [pasado EXCEPT !.roto = TRUE]
  /\ Fin(t)
  /\ UNCHANGED <<archivos, secreto, asesores, tablas, subiendo>>

(***************************************************************************)
(* The application meanwhile: the intake, and a note with a file (the      *)
(* object first, then the row; without the row the object is taken back).  *)
(***************************************************************************)
Ingresar ==
  /\ pasado.ingresos = 0
  /\ lead' = [lead EXCEPT ![Nuevo] = FilaLead("nuevo", Nadie)]
  /\ pasado' = [pasado EXCEPT !.ingresos = 1]
  /\ UNCHANGED <<archivos, secreto, asesores, tablas, comando, subiendo>>

AdjuntarArchivo(l) ==
  /\ lead[l] # Nadie /\ ~lead[l].marca /\ l \notin archivos \cup subiendo
  /\ archivos' = archivos \cup {l} /\ subiendo' = subiendo \cup {l}
  /\ pasado' = IF \E t \in Terminales : EnReinicio(t)
               THEN [pasado EXCEPT !.tarde = @ \cup {l}] ELSE pasado
  /\ UNCHANGED <<lead, secreto, asesores, tablas, comando>>

EscribirNota(l) ==
  /\ l \in subiendo /\ ~Bloqueado(l)
  /\ subiendo' = subiendo \ {l}
  /\ IF lead[l] # Nadie
     THEN lead' = [lead EXCEPT ![l].marca = TRUE] /\ UNCHANGED archivos
     ELSE archivos' = archivos \ {l} /\ UNCHANGED lead
  /\ UNCHANGED <<secreto, asesores, tablas, comando, pasado>>

(***************************************************************************)
(* dev_usuarios asesores, socios and marcar-coordinadores: what exists is  *)
(* read, a person confirms, the rows are written in the transaction.       *)
(***************************************************************************)
MirarAsesores(t) ==
  /\ Empieza(t)
  /\ LET faltan == {k \in Coordinadores : asesores[k] = Nadie} IN
       /\ faltan # {}
       /\ Poner(t, [Libre EXCEPT !.que = "asesores", !.paso = "confirmar", !.visto = faltan])
  /\ pasado' = Contado(pasado)
  /\ UNCHANGED <<lead, archivos, secreto, asesores, tablas, subiendo>>

(* The unique name fails the insert of a row that another command created. *)
CrearAsesores(t) ==
  /\ comando[t].paso = "confirmar" /\ comando[t].que = "asesores"
  /\ asesores' = IF \E k \in comando[t].visto : asesores[k] # Nadie THEN asesores
                 ELSE [n \in DOMAIN asesores |->
                         IF n \in comando[t].visto THEN Fila("asesor", FALSE) ELSE asesores[n]]
  /\ Fin(t)
  /\ UNCHANGED <<lead, archivos, secreto, tablas, subiendo, pasado>>

MirarSocios(t) ==
  /\ Empieza(t)
  /\ LET socios == SociosDelSecreto(secreto.usuarios) IN
       /\ socios # {}
       /\ Poner(t, [Libre EXCEPT !.que = "socios", !.paso = "confirmar", !.visto = socios,
                              !.asesores = {s \in socios : asesores[s] # Nadie}])
  /\ pasado' = Contado(pasado)
  /\ UNCHANGED <<lead, archivos, secreto, asesores, tablas, subiendo>>

CrearSocios(t) ==
  /\ comando[t].paso = "confirmar" /\ comando[t].que = "socios"
  /\ asesores' = IF \E s \in comando[t].visto \ comando[t].asesores : asesores[s] # Nadie
                 THEN asesores
                 ELSE [n \in DOMAIN asesores |->
                         IF n \in comando[t].visto THEN Fila("socio", TRUE) ELSE asesores[n]]
  /\ Fin(t)
  /\ UNCHANGED <<lead, archivos, secreto, tablas, subiendo, pasado>>

MarcarCoordinadores(t) ==
  /\ Empieza(t)
  /\ LET ks == CoordinadoresDelSecreto(secreto.usuarios) IN
       /\ ks # {} /\ \A x \in ks : x.asesor # Nadie
       /\ asesores' = [n \in DOMAIN asesores |->
                         IF asesores[n] # Nadie /\ \E x \in ks : x.asesor = n
                         THEN [asesores[n] EXCEPT !.atiende = TRUE] ELSE asesores[n]]
  /\ pasado' = Contado(pasado)
  /\ UNCHANGED <<lead, archivos, secreto, tablas, comando, subiendo>>

(***************************************************************************)
(* dev_usuarios agregar and quitar: read the secret, confirm, write the    *)
(* whole of it as a new version, whatever version is there by then.        *)
(***************************************************************************)
LeerSecreto(t, que, us, esperados) ==
  /\ Empieza(t)
  /\ us # secreto.usuarios /\ Valida(us, esperados)
  /\ Poner(t, [Libre EXCEPT !.que = que, !.paso = "confirmar", !.plan = us,
                         !.version = secreto.version])
  /\ pasado' = Contado(pasado)
  /\ UNCHANGED <<lead, archivos, secreto, asesores, tablas, subiendo>>

(* Faulty variant: users are added without an advisor of their own.        *)
PedirAgregarSinAsesor(t) ==
  LET us == AgregarUsuarios(secreto.usuarios, {EntradaUsuario(k) : k \in Coordinadores}) IN
  LeerSecreto(t, "agregar", us, Nombres(us \ secreto.usuarios))

PedirAgregar(t) ==
  LET us == AgregarUsuarios(secreto.usuarios, {EntradaUsuario(k) : k \in Coordinadores}) IN
  /\ \A k \in Coordinadores : asesores[k] # Nadie
  /\ LeerSecreto(t, "agregar", us, Nombres(us \ secreto.usuarios))

PedirQuitar(t) == LeerSecreto(t, "quitar", QuitarUsuarios(secreto.usuarios), {})

EscribirSecreto(t) ==
  /\ comando[t].paso = "confirmar" /\ comando[t].que \in {"agregar", "quitar"}
  /\ \/ /\ secreto' = [usuarios |-> comando[t].plan, version |-> secreto.version + 1]
        /\ pasado' = [pasado EXCEPT !.cruce = @ \/ secreto.version # comando[t].version]
     \/ UNCHANGED <<secreto, pasado>>                     \* the call failed
  /\ Fin(t)
  /\ UNCHANGED <<lead, archivos, asesores, tablas, subiendo>>

(* Somebody adds a Socio in the AWS console.                               *)
EditarSecreto ==
  /\ Otro \notin Nombres(secreto.usuarios)
  /\ secreto' = [usuarios |-> secreto.usuarios \cup {Usuario(Otro, "cto", Nadie)},
                 version |-> secreto.version + 1]
  /\ UNCHANGED <<lead, archivos, asesores, tablas, comando, subiendo, pasado>>

Comando(t) ==
  \/ Desistir(t)
  \/ ListarBucket(t) \/ MirarBase(t) \/ BorrarTodo(t) \/ Sembrar(t) \/ BorrarLotes(t)
  \/ Comprometer(t)
  \/ MirarAsesores(t) \/ CrearAsesores(t) \/ MirarSocios(t) \/ CrearSocios(t)
  \/ MarcarCoordinadores(t)
  \/ PedirAgregar(t) \/ PedirQuitar(t) \/ EscribirSecreto(t)

NextDatos ==
  \/ \E t \in Terminales : Comando(t)
  \/ Ingresar \/ EditarSecreto
  \/ \E l \in Leads : AdjuntarArchivo(l) \/ EscribirNota(l)

SpecDatos == InitDatos /\ [][NextDatos]_varsDatos

(***************************************************************************)
(* Properties.                                                             *)
(***************************************************************************)

(* What the tools leave behind, with the application and a second console  *)
(* at work.  (1) A note keeps its file unless a reset is about to delete   *)
(* its lead or broke off after the bucket, which no rollback restores.     *)
(* (2) A file without a note was left by a reset that broke off, by one    *)
(* with --sin-s3, or was uploaded once the bucket had been listed.  (3) The leads are the   *)
(* old ones or the seeded ones, never some of each, and a seeded lead has  *)
(* an advisor exactly when it is no longer nuevo.  (4) A coordinator who   *)
(* can log in is bound to the row of the advisor with his own name.        *)
DatosCoherentes ==
  /\ \A l \in Leads : lead[l] # Nadie /\ lead[l].marca =>
       l \in archivos \/ Bloqueado(l) \/ pasado.roto
  /\ \A l \in archivos :
       \/ lead[l] # Nadie /\ lead[l].marca
       \/ l \in subiendo \cup pasado.tarde \/ pasado.roto
  /\ \A s \in Sembrados : lead[s] # Nadie =>
       /\ lead[Viejo] = Nadie /\ \A r \in Sembrados : lead[r] # Nadie
       /\ lead[s].estado = "nuevo" <=> lead[s].asesor = Nadie
  /\ \A x \in secreto.usuarios : x.rol = "coordinator" =>
       x.asesor = x.usuario /\ asesores[x.asesor] # Nadie

(* A command only takes the users coordinador.ejemploN out of the secret   *)
(* and keeps the others, unless it overwrites a version it did not read:   *)
(* put-secret-value has no condition.  Nobody is left out of the first     *)
(* version even so.                                                        *)
SecretoSinPerdidas ==
  [][/\ \A x \in secreto.usuarios \ secreto'.usuarios :
         x.usuario \in Coordinadores \/ pasado'.cruce
     /\ Socio \in Nombres(secreto'.usuarios)]_varsDatos
=============================================================================
