--------------------------- MODULE LeadAttachments ---------------------------
(***************************************************************************)
(* Attachments of the follow-up notes.  A file lives as an S3 object       *)
(* leads/<id_lead>/<uuid>, its note keeps a mark [adjunto:<tipo>:<uuid>],  *)
(* and tpi.auditoria keeps an event: three stores and no transaction       *)
(* between them.  Every call that one of them answers, or fails to, is a   *)
(* step of its own; a call that fails may have had its effect.             *)
(*                                                                         *)
(* The write handlers are coroutines without an await inside the service,  *)
(* so an instance runs one at a time on its event loop (Lazos); the view   *)
(* is a plain function and runs in a thread (Hilos).  Two loops are two    *)
(* instances on one database and bucket.                                   *)
(***************************************************************************)
EXTENDS CrmRules, FiniteSets

CONSTANTS
  Leads, Asesores, Usuarios, Rol, Ficha,
  Adjuntos,            \* uuids the server may draw (uuid4)
  Archivos,            \* the files users choose, by what the validation reads
  PermiteIncrustados,  \* ATTACHMENTS_ALLOW_PDF_EMBEDDED_FILES
  MaxArchivos,         \* MAX_FILES_PER_NOTE
  Lazos, Hilos,
  Nada

ASSUME AdjuntosAssumption == Nada \notin Adjuntos \cup {"pdf", "pdfe", "png", "jpg"}

VARIABLES
  lead,       \* existe, advisors with an active assignment, marks of the note
  objeto,     \* verified_type of the object of each key, or Nada
  limpio,     \* keys that GuardDuty tagged NO_THREATS_FOUND
  auditoria,  \* the events of the attachments
  pc,         \* where each loop or thread is, "libre" between requests
  ll,         \* its request
  fallidos    \* history: attachments that a failure or a cleanup of the lead met

datos == <<lead, objeto, limpio, auditoria>>
vars  == <<lead, objeto, limpio, auditoria, pc, ll, fallidos>>

Procesos == Lazos \cup Hilos
Tipos    == {"pdf", "pdfe", "png", "jpg"}
Marcas   == [tipo : Tipos, id : Adjuntos]
Claves   == Leads \X Adjuntos
Acciones == {"adjunto_subido", "adjunto_rechazado", "adjunto_visto", "adjunto_eliminado"}

(***************************************************************************)
(* validate_attachment_content.  A file is a record of what is read of it: *)
(* emptiness, size over 10 MiB, signature, sound structure, pixels over    *)
(* the limit and the names of a PDF in their order.                        *)
(***************************************************************************)
NombresProhibidos == {"JS", "JavaScript", "Launch", "Encrypt"}

Verificacion(f) ==
  LET malos == {i \in DOMAIN f.nombres : f.nombres[i] \in NombresProhibidos}
      incrustado == \E i \in DOMAIN f.nombres : f.nombres[i] = "EmbeddedFile" IN
  CASE f.vacio -> "empty_file"
    [] ~f.vacio /\ f.grande -> "too_large"
    [] ~f.vacio /\ ~f.grande /\ f.firma = Nada -> "unsupported_type"
    [] ~f.vacio /\ ~f.grande /\ f.firma # Nada /\ ~f.entero -> "invalid_content"
    [] OTHER ->
        IF f.firma # "pdf" THEN IF f.pixeles THEN "too_many_pixels" ELSE f.firma
        ELSE IF malos # {} THEN f.nombres[CHOOSE i \in malos : \A j \in malos : i <= j]
        ELSE IF incrustado /\ ~PermiteIncrustados THEN "pdf_embedded_files"
        ELSE IF incrustado THEN "pdfe" ELSE "pdf"

Acepta(f) == Verificacion(f) \in Tipos

(***************************************************************************)
(* Who may do what.  asig[l] only grows (CrmLedger), so the ownership that *)
(* the route checks before reading the files, and the service again before *)
(* the uploads, is one check.                                              *)
(***************************************************************************)
EnCartera(u, l) == TieneCartera(Rol[u]) => Ficha[u] \in lead[l].asig

VeLead(u, l) == lead[l].existe /\ EnCartera(u, l)

PuedeLimpiar(u) == EsSuperuser(Rol[u]) \/ Rol[u] \in {"tester", "admin"}

(* A request in progress: what it was asked, the marks it will write (or    *)
(* found in the note) and the ones whose object it still has to delete.    *)
Libre == [op |-> "libre", por |-> Nada, lead |-> Nada, marcas |-> {}, subidos |-> {}]

(* The server draws the uuid of an upload: never one drawn before.         *)
Sorteados ==
  {a \in Adjuntos :
     \/ \E p \in Procesos : \E m \in ll[p].marcas : m.id = a
     \/ \E l \in Leads : objeto[<<l, a>>] # Nada
     \/ \E l \in Leads : \E m \in lead[l].activas \cup lead[l].eliminadas : m.id = a
     \/ \E e \in auditoria : e.id = a
     \/ a \in fallidos}

Init ==
  /\ lead = [l \in Leads |-> [existe |-> TRUE, asig |-> {}, activas |-> {}, eliminadas |-> {}]]
  /\ objeto = [c \in Claves |-> Nada]
  /\ limpio = {}
  /\ auditoria = {}
  /\ pc = [p \in Procesos |-> "libre"]
  /\ ll = [p \in Procesos |-> Libre]
  /\ fallidos = {}

(***************************************************************************)
(* Steps shared by the handlers.                                           *)
(***************************************************************************)
Ir(p, s) == pc' = [pc EXCEPT ![p] = s] /\ UNCHANGED ll

Fin(p) == pc' = [pc EXCEPT ![p] = "libre"] /\ ll' = [ll EXCEPT ![p] = Libre]

Ids(ms) == {m.id : m \in ms}

Culpar(as) == fallidos' = fallidos \cup as

(* A new request of u on a free loop or thread. *)
Recibir(p, op, u, l, ms, s) ==
  /\ pc[p] = "libre"
  /\ pc' = [pc EXCEPT ![p] = s]
  /\ ll' = [ll EXCEPT ![p] = [op |-> op, por |-> u, lead |-> l, marcas |-> ms, subidos |-> {}]]
  /\ UNCHANGED <<datos, fallidos>>

(* An event per attachment.  _audit swallows an insert that fails.         *)
Auditar(p, accion, as) ==
  auditoria' = auditoria \cup {[accion |-> accion, lead |-> ll[p].lead, id |-> a] : a \in as}

(* storage.delete: done, or an exception with or without its effect.       *)
BorrarEnS3(c, s) ==
  \/ s = "hecho" /\ objeto' = [objeto EXCEPT ![c] = Nada] /\ UNCHANGED fallidos
  \/ s = "error" /\ Culpar({c[2]}) /\ objeto' \in {objeto, [objeto EXCEPT ![c] = Nada]}

(***************************************************************************)
(* POST /leads/{id}/comments with files: all of them pass the validation   *)
(* or none is uploaded; then upload each, append the note with its marks,  *)
(* audit each.  When a step fails what was uploaded is deleted.            *)
(***************************************************************************)
RecibirNota(p) ==
  \E u \in Usuarios, l \in Leads, as \in SUBSET (Adjuntos \ Sorteados) :
  \E f \in [as -> Archivos] :
    /\ p \in Lazos
    /\ PuedeEscribir(Rol[u]) /\ EnCartera(u, l)
    /\ as # {} /\ Cardinality(as) <= MaxArchivos
    /\ \A a \in as : Acepta(f[a])
    /\ Recibir(p, "nota", u, l, {[tipo |-> Verificacion(f[a]), id |-> a] : a \in as}, "subir")

(* One file is refused: its code is audited and nothing is uploaded.       *)
RechazarNota(p) ==
  \E u \in Usuarios, l \in Leads, f \in Archivos :
    /\ p \in Lazos /\ pc[p] = "libre"
    /\ PuedeEscribir(Rol[u]) /\ EnCartera(u, l)
    /\ ~Acepta(f)
    /\ auditoria' = auditoria \cup {[accion |-> "adjunto_rechazado", lead |-> l, id |-> Nada]}
    /\ UNCHANGED <<lead, objeto, limpio, pc, ll, fallidos>>

Subir(p) ==
  /\ pc[p] = "subir" /\ ll[p].subidos # ll[p].marcas
  /\ \E m \in ll[p].marcas \ ll[p].subidos :
       \/ /\ objeto' = [objeto EXCEPT ![<<ll[p].lead, m.id>>] = m.tipo]
          /\ ll' = [ll EXCEPT ![p].subidos = @ \cup {m}]
          /\ UNCHANGED <<pc, fallidos>>
       \/ /\ objeto' \in {objeto, [objeto EXCEPT ![<<ll[p].lead, m.id>>] = m.tipo]}
          /\ Culpar({m.id})
          /\ Ir(p, "deshacer")
  /\ UNCHANGED <<lead, limpio, auditoria>>

(* Faulty variant: the note is written before its files are uploaded.      *)
AnotarPrimero(p) ==
  /\ pc[p] = "subir" /\ ll[p].subidos = {} /\ VeLead(ll[p].por, ll[p].lead)
  /\ lead' = [lead EXCEPT ![ll[p].lead].activas = @ \cup ll[p].marcas]
  /\ Ir(p, "auditar")
  /\ UNCHANGED <<objeto, limpio, auditoria, fallidos>>

(* The UPDATE of the note carries the ownership predicate.                 *)
Anotar(p) ==
  /\ pc[p] = "subir" /\ ll[p].subidos = ll[p].marcas
  /\ LET l == ll[p].lead
         anotado == [lead EXCEPT ![l].activas = @ \cup ll[p].marcas] IN
       \/ VeLead(ll[p].por, l) /\ lead' = anotado /\ Ir(p, "auditar") /\ UNCHANGED fallidos
       \/ ~VeLead(ll[p].por, l) /\ Ir(p, "deshacer") /\ UNCHANGED <<lead, fallidos>>
       \/ /\ lead' \in {lead} \cup (IF VeLead(ll[p].por, l) THEN {anotado} ELSE {})
          /\ Culpar(Ids(ll[p].marcas))
          /\ Ir(p, "deshacer")
  /\ UNCHANGED <<objeto, limpio, auditoria>>

(* Faulty variant: what was uploaded for a note that was not written stays. *)
NoDeshacer(p) ==
  /\ pc[p] = "deshacer"
  /\ Fin(p) /\ UNCHANGED <<datos, fallidos>>

(* _delete_uploaded_best_effort *)
Deshacer(p) ==
  /\ pc[p] = "deshacer"
  /\ \/ /\ ll[p].subidos = {}
        /\ Fin(p) /\ UNCHANGED <<datos, fallidos>>
     \/ /\ \E m \in ll[p].subidos :
             /\ \E s \in {"hecho", "error"} : BorrarEnS3(<<ll[p].lead, m.id>>, s)
             /\ ll' = [ll EXCEPT ![p].subidos = @ \ {m}]
        /\ UNCHANGED <<lead, limpio, auditoria, pc>>

(* One event per file; an insert that fails is swallowed (_audit).          *)
AuditarSubida(p) ==
  /\ pc[p] = "auditar" /\ ll[p].op = "nota"
  /\ \E ms \in SUBSET ll[p].subidos : Auditar(p, "adjunto_subido", Ids(ms))
  /\ Fin(p)
  /\ UNCHANGED <<lead, objeto, limpio, fallidos>>

(***************************************************************************)
(* GET /leads/{id}/adjuntos/{uuid}: visibility and mark, then the object,  *)
(* which the bucket policy gives only once tagged clean, then the event.   *)
(***************************************************************************)
PedirVista(p) ==
  \E u \in Usuarios, l \in Leads :
    /\ p \in Hilos
    /\ VeLead(u, l)
    /\ \E m \in lead[l].activas : Recibir(p, "vista", u, l, {m}, "leer")

LeerObjeto(p) ==
  /\ pc[p] = "leer"
  /\ LET m == CHOOSE x \in ll[p].marcas : TRUE
         c == <<ll[p].lead, m.id>> IN
       \/ c \in limpio /\ objeto[c] = m.tipo /\ Auditar(p, "adjunto_visto", {m.id})
       \/ UNCHANGED auditoria        \* missing, denied, another type, network
  /\ Fin(p)
  /\ UNCHANGED <<lead, objeto, limpio, fallidos>>

(***************************************************************************)
(* POST .../eliminar, by a Socio: the object first, then the mark, then    *)
(* the event.                                                              *)
(***************************************************************************)
PedirBorrado(p) ==
  \E u \in Usuarios, l \in Leads :
    /\ p \in Lazos
    /\ EsSuperuser(Rol[u]) /\ VeLead(u, l)
    /\ \E m \in lead[l].activas : Recibir(p, "borrado", u, l, {m}, "borrar")

BorrarObjeto(p) ==
  /\ pc[p] = "borrar" /\ ll[p].op = "borrado"
  /\ \E m \in ll[p].marcas :
       \/ BorrarEnS3(<<ll[p].lead, m.id>>, "hecho") /\ Ir(p, "reemplazar")
       \/ BorrarEnS3(<<ll[p].lead, m.id>>, "error") /\ Fin(p)
  /\ UNCHANGED <<lead, limpio, auditoria>>

Reemplazado(l, ms) ==
  [lead EXCEPT ![l].activas = @ \ ms, ![l].eliminadas = @ \cup (lead[l].activas \cap ms)]

(* Faulty variant: the deletion is audited before the mark is replaced, so  *)
(* that a failure in between leaves an event of what did not happen.        *)
AuditarSinReemplazar(p) ==
  /\ pc[p] = "reemplazar"
  /\ Auditar(p, "adjunto_eliminado", Ids(ll[p].marcas))
  /\ Ir(p, "auditar")
  /\ UNCHANGED <<lead, objeto, limpio, fallidos>>

(* replace_attachment_mark: a row without the mark, or no row, is left     *)
(* alone and the result is not looked at.                                  *)
ReemplazarMarca(p) ==
  /\ pc[p] = "reemplazar"
  /\ \/ lead' = Reemplazado(ll[p].lead, ll[p].marcas) /\ Ir(p, "auditar") /\ UNCHANGED fallidos
     \/ /\ lead' \in {lead, Reemplazado(ll[p].lead, ll[p].marcas)}
        /\ Culpar(Ids(ll[p].marcas)) /\ Fin(p)
  /\ UNCHANGED <<objeto, limpio, auditoria>>

AuditarBorrado(p) ==
  /\ pc[p] = "auditar" /\ ll[p].op = "borrado"
  /\ \E ms \in SUBSET ll[p].marcas : Auditar(p, "adjunto_eliminado", Ids(ms))
  /\ Fin(p)
  /\ UNCHANGED <<lead, objeto, limpio, fallidos>>

(***************************************************************************)
(* POST .../cleanup of a test lead: the objects of the marks it reads,     *)
(* with best effort, and then the row, which an assignment protects.       *)
(***************************************************************************)
PedirLimpieza(p) ==
  \E u \in Usuarios, l \in Leads :
    /\ p \in Lazos
    /\ PuedeLimpiar(u) /\ lead[l].existe
    /\ Recibir(p, "limpieza", u, l, lead[l].activas, "borrar")

BorrarAdjuntos(p) ==
  /\ pc[p] = "borrar" /\ ll[p].op = "limpieza" /\ ll[p].subidos # ll[p].marcas
  /\ \E m \in ll[p].marcas \ ll[p].subidos :
       /\ \E s \in {"hecho", "error"} : BorrarEnS3(<<ll[p].lead, m.id>>, s)
       /\ ll' = [ll EXCEPT ![p].subidos = @ \cup {m}]
  /\ UNCHANGED <<lead, limpio, auditoria, pc>>

(* The marks of a lead that stays have lost their objects; the objects of  *)
(* marks written after the note was read lose their lead.                  *)
BorrarLead(p) ==
  /\ pc[p] = "borrar" /\ ll[p].op = "limpieza" /\ ll[p].subidos = ll[p].marcas
  /\ LET l == ll[p].lead
         sinFila == [lead EXCEPT ![l].existe = FALSE, ![l].activas = {}, ![l].eliminadas = {}] IN
       /\ \/ lead' = lead                            \* blocked, failed, not found
          \/ lead[l].asig = {} /\ lead' = sinFila
       /\ Culpar(Ids(ll[p].marcas \cup lead[l].activas))
  /\ Fin(p)
  /\ UNCHANGED <<objeto, limpio, auditoria>>

(***************************************************************************)
(* The rest of the world.                                                  *)
(***************************************************************************)
Escanear ==
  /\ \E c \in Claves : objeto[c] # Nada /\ limpio' = limpio \cup {c}
  /\ UNCHANGED <<lead, objeto, auditoria, pc, ll, fallidos>>

Asignar ==
  /\ \E l \in Leads, r \in Asesores :
       lead[l].existe /\ lead[l].asig = {} /\ lead' = [lead EXCEPT ![l].asig = {r}]
  /\ UNCHANGED <<objeto, limpio, auditoria, pc, ll, fallidos>>

Caida(p) ==
  /\ p \in Lazos /\ pc[p] # "libre"
  /\ Culpar(Ids(ll[p].marcas))
  /\ Fin(p)
  /\ UNCHANGED datos

Paso(p) ==
  \/ RecibirNota(p) \/ RechazarNota(p) \/ Subir(p) \/ Anotar(p) \/ Deshacer(p)
  \/ AuditarSubida(p) \/ PedirVista(p) \/ LeerObjeto(p)
  \/ PedirBorrado(p) \/ BorrarObjeto(p) \/ ReemplazarMarca(p) \/ AuditarBorrado(p)
  \/ PedirLimpieza(p) \/ BorrarAdjuntos(p) \/ BorrarLead(p)
  \/ Caida(p)

Next == (\E p \in Procesos : Paso(p)) \/ Escanear \/ Asignar

Spec == Init /\ [][Next]_vars

(***************************************************************************)
(* Properties.                                                             *)
(***************************************************************************)

(* The values of the three stores and of the requests in progress          *)
(* (tpi.leads.comentarios, the bucket, tpi.auditoria).                     *)
TypeOK ==
  /\ lead \in [Leads -> [existe : BOOLEAN, asig : SUBSET Asesores,
                         activas : SUBSET Marcas, eliminadas : SUBSET Marcas]]
  /\ objeto \in [Claves -> Tipos \cup {Nada}]
  /\ limpio \subseteq Claves
  /\ auditoria \subseteq [accion : Acciones, lead : Leads, id : Adjuntos \cup {Nada}]
  /\ pc \in [Procesos -> {"libre", "subir", "deshacer", "auditar", "leer", "borrar",
                          "reemplazar"}]
  /\ ll \in [Procesos -> [op : {"libre", "nota", "vista", "borrado", "limpieza"},
                          por : Usuarios \cup {Nada}, lead : Leads \cup {Nada},
                          marcas : SUBSET Marcas, subidos : SUBSET Marcas]]
  /\ fallidos \subseteq Adjuntos

(* A call that has deleted the object of m and not yet dealt with the note. *)
QuitandoObjeto(l, m) ==
  \E p \in Lazos :
    /\ ll[p].lead = l
    /\ \/ pc[p] = "reemplazar" /\ m \in ll[p].marcas
       \/ ll[p].op = "limpieza" /\ m \in ll[p].subidos

(* An active mark of a note always has its object, of the type the mark    *)
(* says, unless the call that deletes it is under way or a failure (S3,    *)
(* database, crash) or a cleanup of the lead met that attachment: the      *)
(* upload-then-note and object-then-mark orders leave no other gap.        *)
MarcaConObjeto ==
  /\ TypeOK
  /\ \A l \in Leads : \A m \in lead[l].activas :
       objeto[<<l, m.id>>] = m.tipo \/ QuitandoObjeto(l, m) \/ m.id \in fallidos

(* An object in the bucket belongs to an active mark, or to the call that  *)
(* uploads it or takes it back, unless a failure or a cleanup met it.      *)
SinHuerfanos ==
  \A c \in Claves : objeto[c] # Nada =>
    \/ c[2] \in Ids(lead[c[1]].activas)
    \/ \E p \in Lazos : ll[p].op = "nota" /\ ll[p].lead = c[1] /\ c[2] \in Ids(ll[p].subidos)
    \/ c[2] \in fallidos

(* The events tell what happened, however the calls cross and fail: what   *)
(* was audited as uploaded got into a note; what was audited as deleted    *)
(* has neither object nor active mark, although a second Socio deleted it  *)
(* too; what was audited as seen had passed the scan.                      *)
AuditoriaVeraz ==
  \A e \in auditoria :
    /\ e.accion = "adjunto_subido" =>
         ~lead[e.lead].existe \/ e.id \in Ids(lead[e.lead].activas \cup lead[e.lead].eliminadas)
    /\ e.accion = "adjunto_eliminado" =>
         objeto[<<e.lead, e.id>>] = Nada /\ e.id \notin Ids(lead[e.lead].activas)
    /\ e.accion = "adjunto_visto" => <<e.lead, e.id>> \in limpio
=============================================================================
