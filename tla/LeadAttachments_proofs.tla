------------------------ MODULE LeadAttachments_proofs ------------------------
(***************************************************************************)
(* Marks, objects and events of the attachments agree, for any number of   *)
(* leads, files, users, instances and threads.                             *)
(***************************************************************************)
EXTENDS LeadAttachments, TLAPS

(***************************************************************************)
(* The inductive invariant.                                                *)
(***************************************************************************)
(* What a request is about, by the step it is at.                           *)
EnCurso(p) ==
  /\ pc[p] = "libre" <=> ll[p].op = "libre"
  /\ pc[p] \in {"subir", "deshacer"} => ll[p].op = "nota"
  /\ pc[p] = "auditar" => ll[p].op \in {"nota", "borrado"}
  /\ pc[p] = "leer" => ll[p].op = "vista"
  /\ pc[p] = "borrar" => ll[p].op \in {"borrado", "limpieza"}
  /\ pc[p] = "reemplazar" => ll[p].op = "borrado"
  /\ pc[p] # "libre" => ll[p].lead \in Leads /\ (p \in Lazos \/ pc[p] = "leer")
  /\ pc[p] = "libre" => ll[p].marcas = {}
  /\ ll[p].subidos \subseteq ll[p].marcas
  /\ ll[p].op \in {"vista", "borrado"} => \E m \in Marcas : ll[p].marcas = {m}
  /\ \A m, n \in ll[p].marcas : m.id = n.id => m = n

Peticiones == \A p \in Procesos : EnCurso(p)

(* Nobody but p knows the uuid a.                                           *)
Secreto(p, a) ==
  /\ \A l \in Leads : a \notin Ids(lead[l].activas \cup lead[l].eliminadas)
  /\ \A q \in Procesos \ {p} : a \notin Ids(ll[q].marcas)
  /\ \A e \in auditoria : e.id # a

(* Until its note is written, or may have been, nobody knows an upload.     *)
Secretos ==
  \A p \in Procesos : \A a \in Ids(ll[p].marcas) :
    /\ pc[p] = "subir" => Secreto(p, a)
    /\ pc[p] = "deshacer" => Secreto(p, a) \/ a \in fallidos

(* A uuid marks one attachment of a lead, for the note and for everybody.   *)
Unicas ==
  /\ \A l \in Leads : \A m, n \in lead[l].activas \cup lead[l].eliminadas : m.id = n.id => m = n
  /\ \A p \in Procesos : pc[p] \notin {"libre", "subir", "deshacer"} =>
       \A m \in ll[p].marcas : \A n \in lead[ll[p].lead].activas : m.id = n.id => m = n

(* What a note request uploaded is in the bucket until the note is written, *)
(* and in the note afterwards.                                              *)
Subidas ==
  \A p \in Procesos :
    /\ pc[p] = "subir" => \A m \in ll[p].subidos : objeto[<<ll[p].lead, m.id>>] = m.tipo
    /\ pc[p] = "auditar" /\ ll[p].op = "nota" => \A m \in ll[p].marcas :
         ~lead[ll[p].lead].existe \/ m \in lead[ll[p].lead].activas \cup lead[ll[p].lead].eliminadas

(* What a Socio deleted is gone from the bucket, then from the note.        *)
Quitadas ==
  \A p \in Procesos : \A m \in ll[p].marcas :
    /\ pc[p] = "reemplazar" => objeto[<<ll[p].lead, m.id>>] = Nada
    /\ pc[p] = "auditar" /\ ll[p].op = "borrado" =>
         objeto[<<ll[p].lead, m.id>>] = Nada /\ m.id \notin Ids(lead[ll[p].lead].activas)

(* SinHuerfanos, with the note requests that still may delete the object.   *)
ConDueno ==
  \A c \in Claves : objeto[c] # Nada =>
    \/ c[2] \in Ids(lead[c[1]].activas)
    \/ \E p \in Lazos : /\ pc[p] \in {"subir", "deshacer"} /\ ll[p].lead = c[1]
                        /\ c[2] \in Ids(ll[p].subidos)
    \/ c[2] \in fallidos

(* Only a refusal is about no upload.                                       *)
Rechazos == \A e \in auditoria : e.accion # "adjunto_rechazado" => e.id # Nada

Inv ==
  /\ MarcaConObjeto /\ ConDueno /\ AuditoriaVeraz
  /\ Peticiones /\ Secretos /\ Unicas /\ Subidas /\ Quitadas /\ Rechazos

(***************************************************************************)
(* What a step leaves alone, and what it writes.                           *)
(***************************************************************************)
LEMMA Campos ==
  ASSUME TypeOK
  PROVE  /\ \A p \in Procesos :
              /\ ll[p].marcas \subseteq Marcas /\ ll[p].subidos \subseteq Marcas
              /\ ll[p].lead \in Leads \cup {Nada}
         /\ \A l \in Leads : lead[l].activas \subseteq Marcas /\ lead[l].eliminadas \subseteq Marcas
         /\ \A m \in Marcas : m.id \in Adjuntos /\ m.tipo \in Tipos /\ m.tipo # Nada /\ m.id # Nada
BY AdjuntosAssumption DEF TypeOK, Marcas, Tipos

LEMMA Ajenos ==
  ASSUME TypeOK, NEW p \in Procesos, Paso(p), NEW q \in Procesos \ {p}
  PROVE  pc'[q] = pc[q] /\ ll'[q] = ll[q]
<1> USE DEF TypeOK, Ir, Fin, Recibir
<1>1. CASE RecibirNota(p) \/ RechazarNota(p) \/ Subir(p) \/ Anotar(p)
  BY <1>1 DEF RecibirNota, RechazarNota, Subir, Anotar
<1>2. CASE Deshacer(p) \/ AuditarSubida(p) \/ PedirVista(p) \/ LeerObjeto(p)
  BY <1>2 DEF Deshacer, AuditarSubida, PedirVista, LeerObjeto
<1>3. CASE PedirBorrado(p) \/ BorrarObjeto(p) \/ ReemplazarMarca(p) \/ AuditarBorrado(p)
  BY <1>3 DEF PedirBorrado, BorrarObjeto, ReemplazarMarca, AuditarBorrado
<1>4. CASE PedirLimpieza(p) \/ BorrarAdjuntos(p) \/ BorrarLead(p) \/ Caida(p)
  BY <1>4 DEF PedirLimpieza, BorrarAdjuntos, BorrarLead, Caida
<1> QED BY <1>1, <1>2, <1>3, <1>4 DEF Paso

LEMMA EfectoBorrarEnS3 ==
  ASSUME TypeOK, NEW c \in Claves, NEW s \in {"hecho", "error"}, BorrarEnS3(c, s)
  PROVE  /\ objeto' \in [Claves -> Tipos \cup {Nada}]
         /\ \A d \in Claves : d # c => objeto'[d] = objeto[d]
         /\ \/ s = "hecho" /\ objeto'[c] = Nada /\ fallidos' = fallidos
            \/ s = "error" /\ objeto'[c] \in {objeto[c], Nada} /\ fallidos' = fallidos \cup {c[2]}
BY DEF TypeOK, BorrarEnS3, Culpar

(* The end of a request.                                                    *)
LEMMA EfectoFin ==
  ASSUME TypeOK, NEW p \in Procesos, Fin(p)
  PROVE  /\ pc'[p] = "libre" /\ ll'[p] = Libre /\ Libre.op = "libre"
         /\ Libre.marcas = {} /\ Libre.subidos = {}
BY DEF TypeOK, Fin, Libre

(* A note request begins: its uuids are new.                                *)
LEMMA EfectoRecibirNota ==
  ASSUME TypeOK, NEW p \in Procesos, RecibirNota(p)
  PROVE  /\ p \in Lazos /\ pc[p] = "libre" /\ pc'[p] = "subir"
         /\ ll'[p].op = "nota" /\ ll'[p].lead \in Leads /\ ll'[p].subidos = {}
         /\ ll'[p].por \in Usuarios /\ ll'[p].marcas \subseteq Marcas
         /\ \A m, n \in ll'[p].marcas : m.id = n.id => m = n
         /\ \A m \in ll'[p].marcas : m.id \in Adjuntos \ Sorteados
         /\ ll'[p] \in [op : {"nota"}, por : Usuarios, lead : Leads,
                        marcas : SUBSET Marcas, subidos : {{}}]
         /\ UNCHANGED <<lead, objeto, limpio, auditoria, fallidos>>
<1>0. PICK u \in Usuarios, l \in Leads, as \in SUBSET (Adjuntos \ Sorteados) :
        \E f \in [as -> Archivos] :
          /\ p \in Lazos
          /\ \A a \in as : Acepta(f[a])
          /\ Recibir(p, "nota", u, l, {[tipo |-> Verificacion(f[a]), id |-> a] : a \in as}, "subir")
  BY DEF RecibirNota
<1>1. PICK f \in [as -> Archivos] :
        /\ p \in Lazos
        /\ \A a \in as : Acepta(f[a])
        /\ Recibir(p, "nota", u, l, {[tipo |-> Verificacion(f[a]), id |-> a] : a \in as}, "subir")
  BY <1>0
<1> DEFINE ms == {[tipo |-> Verificacion(f[a]), id |-> a] : a \in as}
<1>2. /\ ms \subseteq Marcas
      /\ \A m, n \in ms : m.id = n.id => m = n
      /\ \A m \in ms : m.id \in Adjuntos \ Sorteados
  <2>1. ASSUME NEW m \in ms
        PROVE  /\ m \in Marcas /\ m.id \in as
               /\ m = [tipo |-> Verificacion(f[m.id]), id |-> m.id]
    <3>1. PICK a \in as : m = [tipo |-> Verificacion(f[a]), id |-> a] OBVIOUS
    <3>2. Verificacion(f[a]) \in Tipos /\ a \in Adjuntos BY <1>1 DEF Acepta
    <3> QED BY <3>1, <3>2 DEF Marcas
  <2> HIDE DEF ms
  <2> QED BY <2>1
<1> HIDE DEF ms
<1>3. ll'[p] = [op |-> "nota", por |-> u, lead |-> l, marcas |-> ms, subidos |-> {}]
      /\ pc'[p] = "subir" /\ pc[p] = "libre"
      /\ UNCHANGED <<lead, objeto, limpio, auditoria, fallidos>>
  BY <1>1 DEF Recibir, TypeOK, datos, ms
<1> QED BY <1>1, <1>2, <1>3

(* The other requests begin with marks that their lead has.                 *)
Pide(p) == PedirVista(p) \/ PedirBorrado(p) \/ PedirLimpieza(p)

LEMMA EfectoPide ==
  ASSUME TypeOK, NEW p \in Procesos, Pide(p)
  PROVE  /\ pc[p] = "libre"
         /\ \/ pc'[p] = "leer" /\ ll'[p].op = "vista"
            \/ pc'[p] = "borrar" /\ ll'[p].op \in {"borrado", "limpieza"} /\ p \in Lazos
         /\ ll'[p].lead \in Leads /\ ll'[p].subidos = {}
         /\ ll'[p].marcas \subseteq lead[ll'[p].lead].activas
         /\ ll'[p].op \in {"vista", "borrado"} => \E m \in Marcas : ll'[p].marcas = {m}
         /\ ll'[p] \in [op : {"vista", "borrado", "limpieza"}, por : Usuarios, lead : Leads,
                        marcas : SUBSET Marcas, subidos : {{}}]
         /\ UNCHANGED <<lead, objeto, limpio, auditoria, fallidos>>
<1>0. \A l \in Leads : lead[l].activas \subseteq Marcas
  BY Campos
<1>1. PICK u \in Usuarios, l \in Leads, ms \in SUBSET Marcas,
           o \in {"vista", "borrado", "limpieza"}, s \in {"leer", "borrar"} :
        /\ Recibir(p, o, u, l, ms, s)
        /\ ms \subseteq lead[l].activas
        /\ s = "leer" <=> o = "vista"
        /\ s = "borrar" => p \in Lazos
        /\ o \in {"vista", "borrado"} => \E m \in lead[l].activas : ms = {m}
  <2>1. CASE PedirVista(p)
    <3>1. PICK u \in Usuarios, l \in Leads : \E m \in lead[l].activas :
            Recibir(p, "vista", u, l, {m}, "leer")
      BY <2>1 DEF PedirVista
    <3> QED BY <1>0, <3>1
  <2>2. CASE PedirBorrado(p)
    <3>1. PICK u \in Usuarios, l \in Leads : p \in Lazos /\ \E m \in lead[l].activas :
            Recibir(p, "borrado", u, l, {m}, "borrar")
      BY <2>2 DEF PedirBorrado
    <3> QED BY <1>0, <3>1
  <2>3. CASE PedirLimpieza(p)
    <3>1. PICK u \in Usuarios, l \in Leads :
            p \in Lazos /\ Recibir(p, "limpieza", u, l, lead[l].activas, "borrar")
      BY <2>3 DEF PedirLimpieza
    <3> QED BY <1>0, <3>1
  <2> QED BY <2>1, <2>2, <2>3 DEF Pide
<1>2. ll'[p] = [op |-> o, por |-> u, lead |-> l, marcas |-> ms, subidos |-> {}]
      /\ pc'[p] = s /\ pc[p] = "libre"
      /\ UNCHANGED <<lead, objeto, limpio, auditoria, fallidos>>
  BY <1>1 DEF Recibir, TypeOK, datos
<1> QED BY <1>0, <1>1, <1>2

(* What an upload does to the bucket and to the request, come out well or  *)
(* not.                                                                     *)
Sube(p, m) ==
  /\ <<ll[p].lead, m.id>> \in Claves
  /\ pc[p] = "subir" /\ p \in Lazos /\ ll'[p].marcas = ll[p].marcas
  /\ ll'[p].lead = ll[p].lead /\ ll'[p].op = ll[p].op /\ ll'[p].por = ll[p].por
  /\ objeto' \in [Claves -> Tipos \cup {Nada}]
  /\ \A c \in Claves : c # <<ll[p].lead, m.id>> => objeto'[c] = objeto[c]
  /\ \/ /\ objeto'[<<ll[p].lead, m.id>>] = m.tipo /\ pc'[p] = "subir"
        /\ ll'[p].subidos = ll[p].subidos \cup {m} /\ fallidos' = fallidos
     \/ /\ objeto'[<<ll[p].lead, m.id>>] \in {objeto[<<ll[p].lead, m.id>>], m.tipo}
        /\ pc'[p] = "deshacer" /\ ll'[p].subidos = ll[p].subidos
        /\ fallidos' = fallidos \cup {m.id}
  /\ ll' \in [Procesos -> [op : {"libre", "nota", "vista", "borrado", "limpieza"},
                          por : Usuarios \cup {Nada}, lead : Leads \cup {Nada},
                          marcas : SUBSET Marcas, subidos : SUBSET Marcas]]
  /\ UNCHANGED <<lead, limpio, auditoria>>

LEMMA EfectoSubir ==
  ASSUME TypeOK, Peticiones, NEW p \in Procesos, Subir(p)
  PROVE  \E m \in ll[p].marcas \ ll[p].subidos : Sube(p, m)
<1>1. PICK m \in ll[p].marcas \ ll[p].subidos :
       \/ /\ objeto' = [objeto EXCEPT ![<<ll[p].lead, m.id>>] = m.tipo]
          /\ ll' = [ll EXCEPT ![p].subidos = @ \cup {m}]
          /\ UNCHANGED <<pc, fallidos>>
       \/ /\ objeto' \in {objeto, [objeto EXCEPT ![<<ll[p].lead, m.id>>] = m.tipo]}
          /\ Culpar({m.id})
          /\ Ir(p, "deshacer")
  BY DEF Subir
<1> SUFFICES Sube(p, m) OBVIOUS
<1>2. /\ pc[p] = "subir" /\ ll[p].lead \in Leads /\ m \in Marcas /\ p \in Lazos
      /\ UNCHANGED <<lead, limpio, auditoria>>
  BY Campos DEF Subir, Peticiones, EnCurso
<1>3. <<ll[p].lead, m.id>> \in Claves /\ m.tipo \in Tipos
  BY <1>2 DEF Claves, Marcas
<1> DEFINE c == <<ll[p].lead, m.id>>
<1> HIDE DEF c
<1>4. [objeto EXCEPT ![c] = m.tipo] \in [Claves -> Tipos \cup {Nada}]
      /\ [objeto EXCEPT ![c] = m.tipo][c] = m.tipo
      /\ \A d \in Claves : d # c => [objeto EXCEPT ![c] = m.tipo][d] = objeto[d]
  BY <1>3 DEF TypeOK, c
<1>5. CASE /\ objeto' = [objeto EXCEPT ![c] = m.tipo]
           /\ ll' = [ll EXCEPT ![p].subidos = @ \cup {m}]
           /\ UNCHANGED <<pc, fallidos>>
  <2>1. ll'[p] = [ll[p] EXCEPT !.subidos = @ \cup {m}] BY <1>5 DEF TypeOK
  <2>2. /\ ll'[p].marcas = ll[p].marcas /\ ll'[p].lead = ll[p].lead
        /\ ll'[p].op = ll[p].op /\ ll'[p].por = ll[p].por
        /\ ll'[p].subidos = ll[p].subidos \cup {m}
    BY <2>1 DEF TypeOK
  <2>3. ll'[p] \in [op : {"libre", "nota", "vista", "borrado", "limpieza"},
                    por : Usuarios \cup {Nada}, lead : Leads \cup {Nada},
                    marcas : SUBSET Marcas, subidos : SUBSET Marcas]
    BY <1>2, <2>1 DEF TypeOK
  <2>4. ll' \in [Procesos -> [op : {"libre", "nota", "vista", "borrado", "limpieza"},
                             por : Usuarios \cup {Nada}, lead : Leads \cup {Nada},
                             marcas : SUBSET Marcas, subidos : SUBSET Marcas]]
    BY <1>5, <2>1, <2>3 DEF TypeOK
  <2> QED BY <1>2, <1>3, <1>4, <1>5, <2>2, <2>4 DEF c, Sube
<1>6. CASE /\ objeto' \in {objeto, [objeto EXCEPT ![c] = m.tipo]}
           /\ Culpar({m.id})
           /\ Ir(p, "deshacer")
  BY <1>2, <1>3, <1>4, <1>6 DEF c, Culpar, Ir, TypeOK, Sube
<1> QED BY <1>1, <1>5, <1>6 DEF c

(* The note with the marks of p.                                            *)
LEMMA EfectoAnotar ==
  ASSUME TypeOK, Peticiones, NEW p \in Procesos, Anotar(p)
  PROVE  /\ pc[p] = "subir" /\ p \in Lazos /\ ll[p].subidos = ll[p].marcas
         /\ ll[p].lead \in Leads /\ ll[p].op = "nota"
         /\ UNCHANGED <<objeto, limpio, auditoria, ll>>
         /\ \A l \in Leads \ {ll[p].lead} : lead'[l] = lead[l]
         /\ lead'[ll[p].lead].eliminadas = lead[ll[p].lead].eliminadas
         /\ lead'[ll[p].lead].existe = lead[ll[p].lead].existe
         /\ lead' \in [Leads -> [existe : BOOLEAN, asig : SUBSET Asesores,
                               activas : SUBSET Marcas, eliminadas : SUBSET Marcas]]
         /\ \/ /\ lead'[ll[p].lead].activas = lead[ll[p].lead].activas \cup ll[p].marcas
               /\ pc'[p] = "auditar" /\ fallidos' = fallidos
            \/ lead' = lead /\ pc'[p] = "deshacer" /\ fallidos' = fallidos
            \/ /\ lead'[ll[p].lead].activas \in {lead[ll[p].lead].activas,
                                                lead[ll[p].lead].activas \cup ll[p].marcas}
               /\ pc'[p] = "deshacer" /\ fallidos' = fallidos \cup Ids(ll[p].marcas)
<1> DEFINE l == ll[p].lead
           anotado == [lead EXCEPT ![l].activas = @ \cup ll[p].marcas]
           Fila == [existe : BOOLEAN, asig : SUBSET Asesores,
                    activas : SUBSET Marcas, eliminadas : SUBSET Marcas]
<1>1. pc[p] = "subir" /\ l \in Leads /\ p \in Lazos /\ ll[p].marcas \subseteq Marcas
        /\ ll[p].op = "nota"
  BY Campos DEF Anotar, Peticiones, EnCurso
<1>2. /\ anotado \in [Leads -> Fila]
      /\ \A m \in Leads \ {l} : anotado[m] = lead[m]
      /\ anotado[l].eliminadas = lead[l].eliminadas
      /\ anotado[l].existe = lead[l].existe
      /\ anotado[l].activas = lead[l].activas \cup ll[p].marcas
  <2>1. lead[l] \in Fila BY <1>1 DEF TypeOK
  <2>2. /\ anotado[l] = [lead[l] EXCEPT !.activas = @ \cup ll[p].marcas]
        /\ \A m \in Leads \ {l} : anotado[m] = lead[m]
    BY <1>1 DEF TypeOK
  <2>3. /\ anotado[l] \in Fila
        /\ anotado[l].eliminadas = lead[l].eliminadas
        /\ anotado[l].existe = lead[l].existe
        /\ anotado[l].activas = lead[l].activas \cup ll[p].marcas
    BY <1>1, <2>1, <2>2
  <2> QED BY <2>2, <2>3 DEF TypeOK
<1>3. \/ lead' = anotado /\ Ir(p, "auditar") /\ UNCHANGED fallidos
      \/ Ir(p, "deshacer") /\ UNCHANGED <<lead, fallidos>>
      \/ lead' \in {lead, anotado} /\ Culpar(Ids(ll[p].marcas)) /\ Ir(p, "deshacer")
  BY DEF Anotar
<1>4. ll[p].subidos = ll[p].marcas /\ UNCHANGED <<objeto, limpio, auditoria>>
  BY DEF Anotar
<1>5. lead \in [Leads -> Fila] BY DEF TypeOK
<1> HIDE DEF l, anotado, Fila
<1>6. /\ UNCHANGED ll
      /\ \/ lead' = anotado /\ pc'[p] = "auditar" /\ fallidos' = fallidos
         \/ lead' = lead /\ pc'[p] = "deshacer" /\ fallidos' = fallidos
         \/ /\ lead' \in {lead, anotado} /\ pc'[p] = "deshacer"
            /\ fallidos' = fallidos \cup Ids(ll[p].marcas)
  BY <1>3 DEF Ir, Culpar, TypeOK
<1> QED BY <1>1, <1>2, <1>4, <1>5, <1>6 DEF l, Fila

LEMMA EfectoReemplazado ==
  ASSUME TypeOK, NEW l \in Leads, NEW ms \in SUBSET Marcas
  PROVE  /\ Reemplazado(l, ms) \in [Leads -> [existe : BOOLEAN, asig : SUBSET Asesores,
                                           activas : SUBSET Marcas, eliminadas : SUBSET Marcas]]
         /\ \A m \in Leads \ {l} : Reemplazado(l, ms)[m] = lead[m]
         /\ Reemplazado(l, ms)[l].existe = lead[l].existe
         /\ Reemplazado(l, ms)[l].activas = lead[l].activas \ ms
         /\ Reemplazado(l, ms)[l].eliminadas = lead[l].eliminadas \cup (lead[l].activas \cap ms)
<1> DEFINE Fila == [existe : BOOLEAN, asig : SUBSET Asesores,
                    activas : SUBSET Marcas, eliminadas : SUBSET Marcas]
           r == [lead[l] EXCEPT !.activas = @ \ ms, !.eliminadas = @ \cup (lead[l].activas \cap ms)]
<1>1. lead[l] \in Fila /\ lead \in [Leads -> Fila] BY DEF TypeOK
<1>2. r \in Fila /\ r.existe = lead[l].existe /\ r.activas = lead[l].activas \ ms
        /\ r.eliminadas = lead[l].eliminadas \cup (lead[l].activas \cap ms)
  BY <1>1
<1>3. Reemplazado(l, ms)[l] = r /\ (\A m \in Leads \ {l} : Reemplazado(l, ms)[m] = lead[m])
        /\ Reemplazado(l, ms) = [m \in Leads |-> Reemplazado(l, ms)[m]]
  BY <1>1 DEF Reemplazado
<1> HIDE DEF r, Fila
<1>4. Reemplazado(l, ms) \in [Leads -> Fila]
  BY <1>1, <1>2, <1>3
<1> QED BY <1>2, <1>3, <1>4 DEF Fila

LEMMA EfectoReemplazar ==
  ASSUME TypeOK, Peticiones, NEW p \in Procesos, ReemplazarMarca(p)
  PROVE  /\ pc[p] = "reemplazar" /\ ll[p].lead \in Leads /\ ll[p].op = "borrado"
         /\ UNCHANGED <<objeto, limpio, auditoria>>
         /\ \/ /\ lead' = Reemplazado(ll[p].lead, ll[p].marcas)
               /\ pc'[p] = "auditar" /\ ll' = ll /\ fallidos' = fallidos
            \/ /\ lead' \in {lead, Reemplazado(ll[p].lead, ll[p].marcas)} /\ Fin(p)
               /\ fallidos' = fallidos \cup Ids(ll[p].marcas)
BY DEF ReemplazarMarca, Peticiones, EnCurso, TypeOK, Ir, Culpar

(* A lead leaves with its notes, or stays.                                  *)
LEMMA EfectoBorrarLead ==
  ASSUME TypeOK, Peticiones, NEW p \in Procesos, BorrarLead(p)
  PROVE  /\ ll[p].lead \in Leads /\ ll[p].op = "limpieza" /\ Fin(p)
         /\ UNCHANGED <<objeto, limpio, auditoria>>
         /\ fallidos' = fallidos \cup Ids(ll[p].marcas \cup lead[ll[p].lead].activas)
         /\ lead' \in [Leads -> [existe : BOOLEAN, asig : SUBSET Asesores,
                               activas : SUBSET Marcas, eliminadas : SUBSET Marcas]]
         /\ \A l \in Leads \ {ll[p].lead} : lead'[l] = lead[l]
         /\ \/ lead' = lead
            \/ /\ lead'[ll[p].lead].existe = FALSE
               /\ lead'[ll[p].lead].activas = {} /\ lead'[ll[p].lead].eliminadas = {}
<1> DEFINE l == ll[p].lead
           Fila == [existe : BOOLEAN, asig : SUBSET Asesores,
                    activas : SUBSET Marcas, eliminadas : SUBSET Marcas]
           r == [lead[l] EXCEPT !.existe = FALSE, !.activas = {}, !.eliminadas = {}]
           sinFila == [lead EXCEPT ![l].existe = FALSE, ![l].activas = {}, ![l].eliminadas = {}]
<1>1. /\ l \in Leads /\ ll[p].op = "limpieza" /\ Fin(p)
      /\ UNCHANGED <<objeto, limpio, auditoria>>
      /\ fallidos' = fallidos \cup Ids(ll[p].marcas \cup lead[l].activas)
      /\ lead' \in {lead, sinFila}
  BY DEF BorrarLead, Peticiones, EnCurso, Culpar
<1>2. lead[l] \in Fila /\ lead \in [Leads -> Fila] BY <1>1 DEF TypeOK
<1>3. r \in Fila /\ r.existe = FALSE /\ r.activas = {} /\ r.eliminadas = {} BY <1>2
<1>4. sinFila[l] = r /\ (\A m \in Leads \ {l} : sinFila[m] = lead[m])
        /\ sinFila = [m \in Leads |-> sinFila[m]]
  BY <1>1, <1>2
<1> HIDE DEF l, Fila, r, sinFila
<1>5. sinFila \in [Leads -> Fila] BY <1>2, <1>3, <1>4
<1> QED BY <1>1, <1>2, <1>3, <1>4, <1>5 DEF l, Fila

(* The loop or thread between requests, or the end of one.                  *)
LEMMA EfectoDeshacer ==
  ASSUME TypeOK, Peticiones, NEW p \in Procesos, Deshacer(p)
  PROVE  /\ pc[p] = "deshacer" /\ ll[p].lead \in Leads /\ ll[p].op = "nota" /\ p \in Lazos
         /\ UNCHANGED <<lead, limpio, auditoria>>
         /\ \/ ll[p].subidos = {} /\ Fin(p) /\ UNCHANGED <<objeto, fallidos>>
            \/ \E m \in ll[p].subidos :
                 /\ \E s \in {"hecho", "error"} : BorrarEnS3(<<ll[p].lead, m.id>>, s)
                 /\ <<ll[p].lead, m.id>> \in Claves
                 /\ ll' = [ll EXCEPT ![p].subidos = @ \ {m}] /\ pc' = pc
<1>1. pc[p] = "deshacer" /\ ll[p].lead \in Leads /\ ll[p].op = "nota" /\ p \in Lazos
  BY DEF Deshacer, Peticiones, EnCurso
<1>2. \A m \in ll[p].subidos : <<ll[p].lead, m.id>> \in Claves
  BY <1>1, Campos DEF Claves
<1> QED BY <1>1, <1>2 DEF Deshacer, datos

LEMMA EfectoBorrarObjeto ==
  ASSUME TypeOK, Peticiones, NEW p \in Procesos, BorrarObjeto(p)
  PROVE  /\ pc[p] = "borrar" /\ ll[p].op = "borrado" /\ ll[p].lead \in Leads /\ p \in Lazos
         /\ UNCHANGED <<lead, limpio, auditoria>>
         /\ \E m \in Marcas :
              /\ ll[p].marcas = {m} /\ <<ll[p].lead, m.id>> \in Claves
              /\ \/ BorrarEnS3(<<ll[p].lead, m.id>>, "hecho") /\ pc'[p] = "reemplazar" /\ ll' = ll
                 \/ BorrarEnS3(<<ll[p].lead, m.id>>, "error") /\ Fin(p)
<1>1. /\ pc[p] = "borrar" /\ ll[p].op = "borrado" /\ ll[p].lead \in Leads /\ p \in Lazos
      /\ UNCHANGED <<lead, limpio, auditoria>>
  BY DEF BorrarObjeto, Peticiones, EnCurso
<1>2. PICK m \in Marcas : ll[p].marcas = {m}
  BY <1>1 DEF Peticiones, EnCurso
<1>3. <<ll[p].lead, m.id>> \in Claves
  BY <1>1, <1>2 DEF Claves, Marcas
<1> QED BY <1>1, <1>2, <1>3 DEF BorrarObjeto, Ir, TypeOK

LEMMA EfectoBorrarAdjuntos ==
  ASSUME TypeOK, Peticiones, NEW p \in Procesos, BorrarAdjuntos(p)
  PROVE  /\ pc[p] = "borrar" /\ ll[p].op = "limpieza" /\ ll[p].lead \in Leads /\ p \in Lazos
         /\ UNCHANGED <<lead, limpio, auditoria, pc>>
         /\ \E m \in ll[p].marcas \ ll[p].subidos :
              /\ m \in Marcas /\ <<ll[p].lead, m.id>> \in Claves
              /\ \E s \in {"hecho", "error"} : BorrarEnS3(<<ll[p].lead, m.id>>, s)
              /\ ll' = [ll EXCEPT ![p].subidos = @ \cup {m}]
<1>1. /\ pc[p] = "borrar" /\ ll[p].op = "limpieza" /\ ll[p].lead \in Leads /\ p \in Lazos
      /\ UNCHANGED <<lead, limpio, auditoria, pc>>
  BY DEF BorrarAdjuntos, Peticiones, EnCurso
<1>2. \A m \in ll[p].marcas : m \in Marcas /\ <<ll[p].lead, m.id>> \in Claves
  BY <1>1, Campos DEF Claves
<1> QED BY <1>1, <1>2 DEF BorrarAdjuntos

(* A request loses a mark or gains one among those it has dealt with.       *)
LEMMA EfectoSubidos ==
  ASSUME TypeOK, NEW p \in Procesos, NEW ms \in SUBSET Marcas, ll' = [ll EXCEPT ![p].subidos = ms]
  PROVE  /\ ll'[p].subidos = ms /\ ll'[p].marcas = ll[p].marcas /\ ll'[p].lead = ll[p].lead
         /\ ll'[p].op = ll[p].op /\ ll'[p].por = ll[p].por
         /\ ll' \in [Procesos -> [op : {"libre", "nota", "vista", "borrado", "limpieza"},
                                 por : Usuarios \cup {Nada}, lead : Leads \cup {Nada},
                                 marcas : SUBSET Marcas, subidos : SUBSET Marcas]]
<1>0. ll[p] \in [op : {"libre", "nota", "vista", "borrado", "limpieza"},
                 por : Usuarios \cup {Nada}, lead : Leads \cup {Nada},
                 marcas : SUBSET Marcas, subidos : SUBSET Marcas]
  BY DEF TypeOK
<1>1. ll'[p] = [ll[p] EXCEPT !.subidos = ms] /\ \A q \in Procesos \ {p} : ll'[q] = ll[q]
  BY DEF TypeOK
<1>2. /\ ll'[p].subidos = ms /\ ll'[p].marcas = ll[p].marcas /\ ll'[p].lead = ll[p].lead
      /\ ll'[p].op = ll[p].op /\ ll'[p].por = ll[p].por
      /\ ll'[p] \in [op : {"libre", "nota", "vista", "borrado", "limpieza"},
                     por : Usuarios \cup {Nada}, lead : Leads \cup {Nada},
                     marcas : SUBSET Marcas, subidos : SUBSET Marcas]
  BY <1>0, <1>1
<1> QED BY <1>1, <1>2 DEF TypeOK

(* The requests that only tell, or tell nothing, and end.                   *)
Cierra(p) == AuditarSubida(p) \/ LeerObjeto(p) \/ AuditarBorrado(p) \/ Caida(p)

LEMMA EfectoAuditar ==
  ASSUME NEW p \in Procesos, NEW x \in Acciones, NEW as \in SUBSET Ids(ll[p].marcas),
         Auditar(p, x, as)
  PROVE  /\ auditoria \subseteq auditoria'
         /\ \A e \in auditoria' \ auditoria :
              /\ e \in [accion : Acciones, lead : {ll[p].lead}, id : Ids(ll[p].marcas)]
              /\ e.accion = x /\ e.lead = ll[p].lead /\ e.id \in as
<1>1. auditoria' = auditoria \cup {[accion |-> x, lead |-> ll[p].lead, id |-> a] : a \in as}
  BY DEF Auditar
<1>2. ASSUME NEW e \in auditoria' \ auditoria
      PROVE  /\ e \in [accion : Acciones, lead : {ll[p].lead}, id : Ids(ll[p].marcas)]
             /\ e.accion = x /\ e.lead = ll[p].lead /\ e.id \in as
  <2>1. PICK a \in as : e = [accion |-> x, lead |-> ll[p].lead, id |-> a] BY <1>1, <1>2
  <2> QED BY <2>1
<1> QED BY <1>1, <1>2

LEMMA EfectoCierra ==
  ASSUME TypeOK, Peticiones, NEW p \in Procesos, Cierra(p)
  PROVE  /\ pc[p] # "libre" /\ ll[p].lead \in Leads /\ Fin(p)
         /\ UNCHANGED <<lead, objeto, limpio>>
         /\ \/ AuditarSubida(p) /\ pc[p] = "auditar" /\ ll[p].op = "nota" /\ fallidos' = fallidos
            \/ LeerObjeto(p) /\ pc[p] = "leer" /\ ll[p].op = "vista" /\ fallidos' = fallidos
            \/ AuditarBorrado(p) /\ pc[p] = "auditar" /\ ll[p].op = "borrado" /\ fallidos' = fallidos
            \/ Caida(p) /\ auditoria' = auditoria /\ fallidos' = fallidos \cup Ids(ll[p].marcas)
         /\ auditoria \subseteq auditoria'
         /\ \A e \in auditoria' \ auditoria :
              /\ e \in [accion : Acciones, lead : {ll[p].lead}, id : Ids(ll[p].marcas)]
              /\ \/ e.accion = "adjunto_subido" /\ pc[p] = "auditar" /\ ll[p].op = "nota"
                 \/ e.accion = "adjunto_visto" /\ <<e.lead, e.id>> \in limpio
                 \/ e.accion = "adjunto_eliminado" /\ pc[p] = "auditar" /\ ll[p].op = "borrado"
<1> USE DEF Peticiones, EnCurso
<1>0. pc[p] # "libre" /\ ll[p].lead \in Leads
  BY DEF Cierra, AuditarSubida, LeerObjeto, AuditarBorrado, Caida
<1>1. CASE AuditarSubida(p)
  <2>1. PICK ms \in SUBSET ll[p].subidos : Auditar(p, "adjunto_subido", Ids(ms))
    BY <1>1 DEF AuditarSubida
  <2>2. Ids(ms) \in SUBSET Ids(ll[p].marcas) /\ "adjunto_subido" \in Acciones
    BY DEF Ids, Acciones
  <2>3. /\ auditoria \subseteq auditoria'
        /\ \A e \in auditoria' \ auditoria :
             /\ e \in [accion : Acciones, lead : {ll[p].lead}, id : Ids(ll[p].marcas)]
             /\ e.accion = "adjunto_subido"
    BY <2>1, <2>2, EfectoAuditar
  <2>4. pc[p] = "auditar" /\ ll[p].op = "nota" /\ Fin(p) /\ UNCHANGED <<lead, objeto, limpio, fallidos>>
    BY <1>1 DEF AuditarSubida
  <2> QED BY <1>0, <1>1, <2>3, <2>4
<1>2. CASE LeerObjeto(p)
  <2>1. PICK m \in Marcas : ll[p].marcas = {m} BY <1>2 DEF LeerObjeto
  <2>2. (CHOOSE x \in ll[p].marcas : TRUE) = m BY <2>1
  <2>3. Ids(ll[p].marcas) = {m.id} /\ "adjunto_visto" \in Acciones BY <2>1 DEF Ids, Acciones
  <2>4. \/ <<ll[p].lead, m.id>> \in limpio /\ Auditar(p, "adjunto_visto", {m.id})
        \/ UNCHANGED auditoria
    BY <1>2, <2>2 DEF LeerObjeto
  <2>5. /\ auditoria \subseteq auditoria'
        /\ \A e \in auditoria' \ auditoria :
             /\ e \in [accion : Acciones, lead : {ll[p].lead}, id : Ids(ll[p].marcas)]
             /\ e.accion = "adjunto_visto" /\ <<e.lead, e.id>> \in limpio
    <3>1. CASE auditoria' = auditoria BY <3>1
    <3>2. CASE <<ll[p].lead, m.id>> \in limpio /\ Auditar(p, "adjunto_visto", {m.id})
      <4>1. /\ auditoria \subseteq auditoria'
            /\ \A e \in auditoria' \ auditoria :
                 /\ e \in [accion : Acciones, lead : {ll[p].lead}, id : Ids(ll[p].marcas)]
                 /\ e.accion = "adjunto_visto" /\ e.lead = ll[p].lead /\ e.id \in {m.id}
        BY <2>3, <3>2, EfectoAuditar
      <4> QED BY <3>2, <4>1
    <3> QED BY <2>4, <3>1, <3>2
  <2>6. pc[p] = "leer" /\ Fin(p) /\ UNCHANGED <<lead, objeto, limpio, fallidos>>
    BY <1>2 DEF LeerObjeto
  <2> QED BY <1>0, <1>2, <2>5, <2>6
<1>3. CASE AuditarBorrado(p)
  <2>1. PICK ms \in SUBSET ll[p].marcas : Auditar(p, "adjunto_eliminado", Ids(ms))
    BY <1>3 DEF AuditarBorrado
  <2>2. Ids(ms) \in SUBSET Ids(ll[p].marcas) /\ "adjunto_eliminado" \in Acciones
    BY DEF Ids, Acciones
  <2>3. /\ auditoria \subseteq auditoria'
        /\ \A e \in auditoria' \ auditoria :
             /\ e \in [accion : Acciones, lead : {ll[p].lead}, id : Ids(ll[p].marcas)]
             /\ e.accion = "adjunto_eliminado"
    BY <2>1, <2>2, EfectoAuditar
  <2>4. pc[p] = "auditar" /\ ll[p].op = "borrado" /\ Fin(p) /\ UNCHANGED <<lead, objeto, limpio, fallidos>>
    BY <1>3 DEF AuditarBorrado
  <2> QED BY <1>0, <1>3, <2>3, <2>4
<1>4. CASE Caida(p)
  BY <1>0, <1>4 DEF Caida, Culpar, datos
<1> QED BY <1>1, <1>2, <1>3, <1>4 DEF Cierra

(***************************************************************************)
(* Types and requests.                                                     *)
(***************************************************************************)
Linea == [op : {"libre", "nota", "vista", "borrado", "limpieza"},
          por : Usuarios \cup {Nada}, lead : Leads \cup {Nada},
          marcas : SUBSET Marcas, subidos : SUBSET Marcas]

Pasos == {"libre", "subir", "deshacer", "auditar", "leer", "borrar", "reemplazar"}

LEMMA TiposConservan ==
  ASSUME TypeOK, Peticiones, Next
  PROVE  TypeOK'
<1> DEFINE Fila == [existe : BOOLEAN, asig : SUBSET Asesores,
                    activas : SUBSET Marcas, eliminadas : SUBSET Marcas]
           Evento == [accion : Acciones, lead : Leads, id : Adjuntos \cup {Nada}]
<1>1. /\ lead \in [Leads -> Fila] /\ objeto \in [Claves -> Tipos \cup {Nada}]
      /\ limpio \subseteq Claves /\ auditoria \subseteq Evento
      /\ pc \in [Procesos -> Pasos] /\ ll \in [Procesos -> Linea] /\ fallidos \subseteq Adjuntos
  BY DEF TypeOK, Linea, Pasos
<1>2. \A p \in Procesos : Ids(ll[p].marcas) \subseteq Adjuntos
  BY Campos DEF Ids
<1>3. \A l \in Leads : Ids(lead[l].activas) \subseteq Adjuntos
  BY Campos DEF Ids
<1>4. ASSUME NEW p \in Procesos, Paso(p), pc'[p] \in Pasos PROVE pc' \in [Procesos -> Pasos]
  <2>1. pc' = [pc EXCEPT ![p] = pc'[p]]
    BY <1>4 DEF Paso, RecibirNota, RechazarNota, Subir, Anotar, Deshacer, AuditarSubida, PedirVista,
         LeerObjeto, PedirBorrado, BorrarObjeto, ReemplazarMarca, AuditarBorrado, PedirLimpieza,
         BorrarAdjuntos, BorrarLead, Caida, Ir, Fin, Recibir, TypeOK
  <2> QED BY <1>1, <1>4, <2>1
<1>5. ASSUME NEW p \in Procesos, Fin(p) PROVE pc' \in [Procesos -> Pasos] /\ ll' \in [Procesos -> Linea]
  BY <1>1, <1>5 DEF Fin, Libre, Linea, Pasos
<1>6. ASSUME NEW p \in Procesos, NEW o \in {"nota", "vista", "borrado", "limpieza"},
             NEW u \in Usuarios, NEW l \in Leads, NEW ms \in SUBSET Marcas, NEW s \in Pasos,
             Recibir(p, o, u, l, ms, s)
      PROVE  pc' \in [Procesos -> Pasos] /\ ll' \in [Procesos -> Linea]
  BY <1>1, <1>6 DEF Recibir, Linea
<1>7. ASSUME NEW p \in Procesos, Paso(p) PROVE TypeOK'
  <2>0. pc'[p] \in Pasos => pc' \in [Procesos -> Pasos] BY <1>4, <1>7
  <2>1. ll'[p] \in Linea => ll' \in [Procesos -> Linea]
    <3>1. ll' = [ll EXCEPT ![p] = ll'[p]]
      BY <1>7 DEF Paso, RecibirNota, RechazarNota, Subir, Anotar, Deshacer, AuditarSubida, PedirVista,
           LeerObjeto, PedirBorrado, BorrarObjeto, ReemplazarMarca, AuditarBorrado, PedirLimpieza,
           BorrarAdjuntos, BorrarLead, Caida, Ir, Fin, Recibir, TypeOK
    <3> QED BY <1>1, <3>1
  <2>2. ll' \in [Procesos -> Linea] /\ pc' \in [Procesos -> Pasos] /\ lead' \in [Leads -> Fila]
        /\ objeto' \in [Claves -> Tipos \cup {Nada}] /\ limpio' \subseteq Claves
        /\ auditoria' \subseteq Evento /\ fallidos' \subseteq Adjuntos
    <3> HIDE DEF Evento, Fila
    <3>1. CASE RecibirNota(p)
      BY <1>1, <2>0, <2>1, <3>1, EfectoRecibirNota DEF Linea, Pasos
    <3>2. CASE RechazarNota(p)
      <4>1. PICK l \in Leads : auditoria' = auditoria \cup
              {[accion |-> "adjunto_rechazado", lead |-> l, id |-> Nada]}
        BY <3>2 DEF RechazarNota
      <4>2. [accion |-> "adjunto_rechazado", lead |-> l, id |-> Nada] \in Evento
        BY DEF Evento, Acciones
      <4>3. UNCHANGED <<lead, objeto, limpio, pc, ll, fallidos>> BY <3>2 DEF RechazarNota
      <4> QED BY <1>1, <4>1, <4>2, <4>3
    <3>3. CASE Subir(p)
      <4>1. PICK m \in ll[p].marcas \ ll[p].subidos :
              /\ pc'[p] \in {"subir", "deshacer"} /\ objeto' \in [Claves -> Tipos \cup {Nada}]
              /\ ll' \in [Procesos -> Linea]
              /\ fallidos' = fallidos \/ fallidos' = fallidos \cup {m.id}
              /\ UNCHANGED <<lead, limpio, auditoria>>
        <5>1. PICK m \in ll[p].marcas \ ll[p].subidos :
           /\ objeto' \in [Claves -> Tipos \cup {Nada}]
           /\ \/ pc'[p] = "subir" /\ fallidos' = fallidos
              \/ pc'[p] = "deshacer" /\ fallidos' = fallidos \cup {m.id}
           /\ ll' \in [Procesos -> [op : {"libre", "nota", "vista", "borrado", "limpieza"},
                                   por : Usuarios \cup {Nada}, lead : Leads \cup {Nada},
                                   marcas : SUBSET Marcas, subidos : SUBSET Marcas]]
           /\ UNCHANGED <<lead, limpio, auditoria>>
          BY <3>3, EfectoSubir DEF Sube
        <5> QED BY <5>1 DEF Linea
      <4>2. m.id \in Adjuntos BY <1>2 DEF Ids
      <4>3. pc'[p] \in Pasos BY <4>1 DEF Pasos
      <4> QED BY <1>1, <2>0, <4>1, <4>2, <4>3
    <3>4. CASE Anotar(p)
      <4>1. /\ UNCHANGED <<objeto, limpio, auditoria, ll>> /\ lead' \in [Leads -> Fila]
            /\ pc'[p] \in {"auditar", "deshacer"}
            /\ fallidos' = fallidos \/ fallidos' = fallidos \cup Ids(ll[p].marcas)
        BY <3>4, EfectoAnotar DEF Fila
      <4>2. pc'[p] \in Pasos BY <4>1 DEF Pasos
      <4> QED BY <1>1, <1>2, <2>0, <4>1, <4>2
    <3>5. CASE Deshacer(p)
      <4>1. UNCHANGED <<lead, limpio, auditoria>> BY <3>5 DEF Deshacer, datos
      <4>2. CASE Fin(p) /\ UNCHANGED <<objeto, fallidos>> BY <1>1, <1>5, <4>1, <4>2
      <4>3. CASE ~(Fin(p) /\ UNCHANGED <<objeto, fallidos>>)
        <5>1. PICK m \in ll[p].subidos, s \in {"hecho", "error"} :
                /\ BorrarEnS3(<<ll[p].lead, m.id>>, s)
                /\ <<ll[p].lead, m.id>> \in Claves
                /\ ll' = [ll EXCEPT ![p].subidos = @ \ {m}] /\ pc' = pc
          BY <3>5, <4>3, EfectoDeshacer
        <5>2. PICK ms \in SUBSET Marcas : ll' = [ll EXCEPT ![p].subidos = ms]
          <6>1. ll[p].subidos \ {m} \in SUBSET Marcas BY Campos
          <6> QED BY <5>1, <6>1
        <5>3. ll' \in [Procesos -> Linea] BY <5>2, EfectoSubidos DEF Linea
        <5>4. objeto' \in [Claves -> Tipos \cup {Nada}]
              /\ (fallidos' = fallidos \/ fallidos' = fallidos \cup {m.id})
          BY <5>1, EfectoBorrarEnS3
        <5>5. m.id \in Adjuntos BY Campos
        <5> QED BY <1>1, <4>1, <5>1, <5>3, <5>4, <5>5
      <4> QED BY <4>2, <4>3
    <3>6. CASE Cierra(p)
      <4>1. /\ Fin(p) /\ UNCHANGED <<lead, objeto, limpio>>
            /\ fallidos' = fallidos \/ fallidos' = fallidos \cup Ids(ll[p].marcas)
            /\ ll[p].lead \in Leads
            /\ \A e \in auditoria' \ auditoria :
                 e \in [accion : Acciones, lead : {ll[p].lead}, id : Ids(ll[p].marcas)]
        BY <3>6, EfectoCierra
      <4>2. auditoria' \ auditoria \subseteq Evento BY <1>2, <4>1 DEF Evento
      <4> QED BY <1>1, <1>2, <1>5, <4>1, <4>2
    <3>7. CASE Pide(p)
      BY <1>1, <2>0, <2>1, <3>7, EfectoPide DEF Linea, Pasos
    <3>8. CASE BorrarObjeto(p)
      <4>1. PICK m \in Marcas, s \in {"hecho", "error"} :
              /\ BorrarEnS3(<<ll[p].lead, m.id>>, s) /\ <<ll[p].lead, m.id>> \in Claves
              /\ (pc'[p] = "reemplazar" /\ ll' = ll) \/ Fin(p)
        BY <3>8, EfectoBorrarObjeto
      <4>2. objeto' \in [Claves -> Tipos \cup {Nada}]
            /\ (fallidos' = fallidos \/ fallidos' = fallidos \cup {m.id})
        BY <4>1, EfectoBorrarEnS3
      <4>3. m.id \in Adjuntos BY DEF Marcas
      <4>4. UNCHANGED <<lead, limpio, auditoria>> BY <3>8 DEF BorrarObjeto
      <4>5. ll' \in [Procesos -> Linea] /\ pc' \in [Procesos -> Pasos]
        BY <1>1, <1>5, <2>0, <4>1 DEF Pasos
      <4> QED BY <1>1, <4>2, <4>3, <4>4, <4>5
    <3>9. CASE ReemplazarMarca(p)
      <4>1. /\ ll[p].lead \in Leads /\ UNCHANGED <<objeto, limpio, auditoria>>
            /\ lead' \in {lead, Reemplazado(ll[p].lead, ll[p].marcas)}
            /\ (pc'[p] = "auditar" /\ ll' = ll) \/ Fin(p)
            /\ fallidos' = fallidos \/ fallidos' = fallidos \cup Ids(ll[p].marcas)
        BY <3>9, EfectoReemplazar
      <4>2. lead' \in [Leads -> Fila]
        <5>1. ll[p].marcas \in SUBSET Marcas BY Campos
        <5> QED BY <1>1, <4>1, <5>1, EfectoReemplazado DEF Fila
      <4>3. ll' \in [Procesos -> Linea] /\ pc' \in [Procesos -> Pasos]
        BY <1>1, <1>5, <2>0, <4>1 DEF Pasos
      <4> QED BY <1>1, <1>2, <4>1, <4>2, <4>3
    <3>10. CASE BorrarAdjuntos(p)
      <4>1. PICK m \in ll[p].marcas \ ll[p].subidos :
              /\ m \in Marcas /\ <<ll[p].lead, m.id>> \in Claves
              /\ \E s \in {"hecho", "error"} : BorrarEnS3(<<ll[p].lead, m.id>>, s)
              /\ ll' = [ll EXCEPT ![p].subidos = @ \cup {m}]
        BY <3>10, EfectoBorrarAdjuntos
      <4>2. PICK s \in {"hecho", "error"} : BorrarEnS3(<<ll[p].lead, m.id>>, s) BY <4>1
      <4>3. ll' = [ll EXCEPT ![p].subidos = ll[p].subidos \cup {m}]
            /\ ll[p].subidos \cup {m} \in SUBSET Marcas
        BY <4>1, Campos
      <4>4. ll' \in [Procesos -> Linea] BY <4>3, EfectoSubidos DEF Linea
      <4>5. objeto' \in [Claves -> Tipos \cup {Nada}]
            /\ (fallidos' = fallidos \/ fallidos' = fallidos \cup {m.id})
        BY <4>1, <4>2, EfectoBorrarEnS3
      <4>6. m.id \in Adjuntos BY <4>1 DEF Marcas
      <4>7. UNCHANGED <<lead, limpio, auditoria, pc>> BY <3>10 DEF BorrarAdjuntos
      <4> QED BY <1>1, <4>4, <4>5, <4>6, <4>7
    <3>11. CASE BorrarLead(p)
      <4>1. /\ Fin(p) /\ UNCHANGED <<objeto, limpio, auditoria>> /\ lead' \in [Leads -> Fila]
            /\ fallidos' = fallidos \cup Ids(ll[p].marcas \cup lead[ll[p].lead].activas)
            /\ ll[p].lead \in Leads
        BY <3>11, EfectoBorrarLead DEF Fila
      <4>2. Ids(ll[p].marcas \cup lead[ll[p].lead].activas) \subseteq Adjuntos
        BY <1>2, <1>3, <4>1 DEF Ids
      <4> QED BY <1>1, <1>5, <4>1, <4>2
    <3> QED
      BY <1>7, <3>1, <3>2, <3>3, <3>4, <3>5, <3>6, <3>7, <3>8, <3>9, <3>10, <3>11 DEF Paso, Cierra, Pide
  <2> QED BY <2>2 DEF TypeOK, Linea, Pasos
<1>8. CASE Escanear \/ Asignar
  <2>1. CASE Escanear
    <3>1. PICK c \in Claves : limpio' = limpio \cup {c} BY <2>1 DEF Escanear
    <3>2. UNCHANGED <<lead, objeto, auditoria, pc, ll, fallidos>> BY <2>1 DEF Escanear
    <3> QED BY <1>1, <3>1, <3>2 DEF TypeOK
  <2>2. CASE Asignar
    <3>1. PICK l \in Leads, r \in Asesores : lead' = [lead EXCEPT ![l].asig = {r}]
      BY <2>2 DEF Asignar
    <3>2. [lead[l] EXCEPT !.asig = {r}] \in Fila BY <1>1
    <3>3. lead' \in [Leads -> Fila] BY <1>1, <3>1, <3>2
    <3>4. UNCHANGED <<objeto, limpio, auditoria, pc, ll, fallidos>> BY <2>2 DEF Asignar
    <3> QED BY <3>3, <3>4 DEF TypeOK
  <2> QED BY <1>8, <2>1, <2>2
<1> QED BY <1>7, <1>8 DEF Next

(***************************************************************************)
(* What a step of p may do to the rest of the state.                       *)
(***************************************************************************)
Notas(l) == lead[l].activas \cup lead[l].eliminadas

(* Marks only come from the note request that uploaded them, and leave with *)
(* their lead.                                                             *)
LEMMA OrigenNotas ==
  ASSUME TypeOK, Peticiones, NEW p \in Procesos, Paso(p), NEW l \in Leads
  PROVE  /\ lead'[l].existe => lead[l].existe /\ Notas(l) \subseteq Notas(l)'
         /\ \/ lead'[l].activas \subseteq lead[l].activas /\ Notas(l)' \subseteq Notas(l)
            \/ /\ Anotar(p) /\ pc[p] = "subir" /\ l = ll[p].lead
               /\ lead'[l].activas = lead[l].activas \cup ll[p].marcas
               /\ Notas(l)' = Notas(l) \cup ll[p].marcas
<1>1. CASE lead' = lead BY <1>1 DEF Notas
<1>2. CASE Anotar(p)
  BY <1>2, EfectoAnotar DEF Notas
<1>3. CASE ReemplazarMarca(p)
  <2>1. ll[p].marcas \in SUBSET Marcas BY Campos
  <2>2. ll[p].lead \in Leads /\ lead' \in {lead, Reemplazado(ll[p].lead, ll[p].marcas)}
    BY <1>3, EfectoReemplazar
  <2>3. CASE lead' = Reemplazado(ll[p].lead, ll[p].marcas) /\ l = ll[p].lead
    BY <2>1, <2>3, EfectoReemplazado DEF Notas
  <2>4. CASE lead' = Reemplazado(ll[p].lead, ll[p].marcas) /\ l # ll[p].lead
    BY <2>1, <2>2, <2>4, EfectoReemplazado DEF Notas
  <2> QED BY <1>1, <2>2, <2>3, <2>4
<1>4. CASE BorrarLead(p)
  BY <1>4, EfectoBorrarLead DEF Notas
<1>5. CASE ~(Anotar(p) \/ ReemplazarMarca(p) \/ BorrarLead(p))
  BY <1>1, <1>5 DEF Paso, RecibirNota, RechazarNota, Subir, Deshacer, AuditarSubida, PedirVista,
     LeerObjeto, PedirBorrado, BorrarObjeto, AuditarBorrado, PedirLimpieza, BorrarAdjuntos, Caida,
     Recibir, datos
<1> QED BY <1>2, <1>3, <1>4, <1>5

(* A request knows marks it had, marks of a note or uuids drawn now.        *)
LEMMA OrigenMarcas ==
  ASSUME TypeOK, Peticiones, NEW p \in Procesos, Paso(p), NEW m \in ll'[p].marcas
  PROVE  \/ m \in ll[p].marcas
         \/ \E l \in Leads : m \in lead[l].activas
         \/ pc[p] = "libre" /\ m.id \notin Sorteados
<1>1. CASE Fin(p) BY <1>1, EfectoFin
<1>2. CASE ll' = ll BY <1>2
<1>3. CASE RecibirNota(p) BY <1>3, EfectoRecibirNota
<1>4. CASE Pide(p) BY <1>4, EfectoPide
<1>5. CASE Subir(p) BY <1>5, EfectoSubir DEF Sube
<1>6. CASE Deshacer(p) \/ BorrarAdjuntos(p)
  <2>1. ASSUME NEW ms, ll' = [ll EXCEPT ![p].subidos = ms] PROVE ll'[p].marcas = ll[p].marcas
    BY <2>1 DEF TypeOK
  <2>2. Fin(p) \/ \E ms : ll' = [ll EXCEPT ![p].subidos = ms]
    BY <1>6 DEF Deshacer, BorrarAdjuntos
  <2> QED BY <1>1, <2>1, <2>2
<1>7. CASE RechazarNota(p) \/ Anotar(p) BY <1>2, <1>7 DEF RechazarNota, Anotar, Ir
<1>8. CASE BorrarObjeto(p) \/ ReemplazarMarca(p)
  BY <1>1, <1>2, <1>8 DEF BorrarObjeto, ReemplazarMarca, Ir
<1>9. CASE Cierra(p) \/ BorrarLead(p)
  BY <1>1, <1>9 DEF Cierra, AuditarSubida, LeerObjeto, AuditarBorrado, Caida, BorrarLead
<1> QED BY <1>3, <1>4, <1>5, <1>6, <1>7, <1>8, <1>9 DEF Paso, Pide, Cierra

(* An event is about a mark of its request, or about no upload at all.      *)
LEMMA OrigenEventos ==
  ASSUME TypeOK, Peticiones, NEW p \in Procesos, Paso(p), NEW e \in auditoria'
  PROVE  \/ e \in auditoria
         \/ e.accion = "adjunto_rechazado" /\ e.id = Nada
         \/ Cierra(p) /\ e.id \in Ids(ll[p].marcas)
<1>1. CASE RechazarNota(p) BY <1>1 DEF RechazarNota
<1>2. CASE Cierra(p)
  <2>1. \A x \in auditoria' \ auditoria :
          x \in [accion : Acciones, lead : {ll[p].lead}, id : Ids(ll[p].marcas)]
    BY <1>2, EfectoCierra
  <2>2. e \in auditoria \/ e.id \in Ids(ll[p].marcas) BY <2>1
  <2> QED BY <1>2, <2>2
<1>3. CASE ~(RechazarNota(p) \/ Cierra(p))
  BY <1>3 DEF Paso, Cierra, RecibirNota, Subir, Anotar, Deshacer, PedirVista, PedirBorrado,
     BorrarObjeto, ReemplazarMarca, PedirLimpieza, BorrarAdjuntos, BorrarLead, Recibir, datos
<1> QED BY <1>1, <1>2, <1>3

(* Only the objects of its own marks change, and only an upload puts one.   *)
LEMMA OrigenObjetos ==
  ASSUME TypeOK, Peticiones, NEW p \in Procesos, Paso(p), NEW c \in Claves
  PROVE  \/ objeto'[c] = objeto[c]
         \/ /\ c[1] = ll[p].lead /\ c[2] \in Ids(ll[p].marcas)
            /\ \/ Subir(p) /\ pc[p] = "subir"
               \/ /\ objeto'[c] = Nada
                  /\ Deshacer(p) \/ BorrarObjeto(p) \/ BorrarAdjuntos(p)
<1>1. ASSUME NEW m \in ll[p].marcas, NEW s \in {"hecho", "error"},
             BorrarEnS3(<<ll[p].lead, m.id>>, s), <<ll[p].lead, m.id>> \in Claves
      PROVE  \/ objeto'[c] = objeto[c]
             \/ c[1] = ll[p].lead /\ c[2] \in Ids(ll[p].marcas) /\ objeto'[c] = Nada
  <2>1. CASE c = <<ll[p].lead, m.id>>
    BY <1>1, <2>1, EfectoBorrarEnS3 DEF Ids
  <2>2. CASE c # <<ll[p].lead, m.id>>
    BY <1>1, <2>2, EfectoBorrarEnS3
  <2> QED BY <2>1, <2>2
<1>2. ll[p].subidos \subseteq ll[p].marcas BY DEF Peticiones, EnCurso
<1>3. CASE Subir(p)
  <2>1. \E m \in ll[p].marcas \ ll[p].subidos :
          /\ pc[p] = "subir"
          /\ \A d \in Claves : d # <<ll[p].lead, m.id>> => objeto'[d] = objeto[d]
    <3>1. Subir(p) => pc[p] = "subir" BY DEF Subir
    <3>2. \E m \in ll[p].marcas \ ll[p].subidos :
            \A d \in Claves : d # <<ll[p].lead, m.id>> => objeto'[d] = objeto[d]
      <4>1. PICK m \in ll[p].marcas \ ll[p].subidos :
              objeto' \in {objeto, [objeto EXCEPT ![<<ll[p].lead, m.id>>] = m.tipo]}
        BY <1>3 DEF Subir
      <4> QED BY <4>1 DEF TypeOK
    <3> QED BY <1>3, <3>1, <3>2
  <2> QED BY <1>3, <2>1 DEF Ids
<1>4. CASE Deshacer(p)
  <2>1. CASE objeto' = objeto BY <2>1
  <2>2. CASE \E m \in ll[p].subidos, s \in {"hecho", "error"} :
               BorrarEnS3(<<ll[p].lead, m.id>>, s) /\ <<ll[p].lead, m.id>> \in Claves
    BY <1>1, <1>2, <1>4, <2>2
  <2> QED BY <1>4, <2>1, <2>2, EfectoDeshacer
<1>5. CASE BorrarObjeto(p)
  <2>1. \E m \in ll[p].marcas, s \in {"hecho", "error"} :
               BorrarEnS3(<<ll[p].lead, m.id>>, s) /\ <<ll[p].lead, m.id>> \in Claves
    BY <1>5, EfectoBorrarObjeto
  <2> QED BY <1>1, <1>5, <2>1
<1>6. CASE BorrarAdjuntos(p)
  <2>1. \E m \in ll[p].marcas, s \in {"hecho", "error"} :
               BorrarEnS3(<<ll[p].lead, m.id>>, s) /\ <<ll[p].lead, m.id>> \in Claves
    BY <1>6, EfectoBorrarAdjuntos
  <2> QED BY <1>1, <1>6, <2>1
<1>7. CASE ~(Subir(p) \/ Deshacer(p) \/ BorrarObjeto(p) \/ BorrarAdjuntos(p))
  BY <1>7 DEF Paso, RecibirNota, RechazarNota, Anotar, AuditarSubida, PedirVista, LeerObjeto,
     PedirBorrado, ReemplazarMarca, AuditarBorrado, PedirLimpieza, BorrarLead, Caida, Recibir, datos
<1> QED BY <1>3, <1>4, <1>5, <1>6, <1>7

(* What failed is remembered, and what was found clean stays so.            *)
LEMMA Recuerda ==
  ASSUME NEW p \in Procesos, Paso(p)
  PROVE  fallidos \subseteq fallidos' /\ limpio' = limpio
BY DEF Paso, RecibirNota, RechazarNota, Subir, Anotar, Deshacer, AuditarSubida, PedirVista,
   LeerObjeto, PedirBorrado, BorrarObjeto, ReemplazarMarca, AuditarBorrado, PedirLimpieza,
   BorrarAdjuntos, BorrarLead, Caida, Recibir, Culpar, BorrarEnS3, datos

(* A scan or an assignment touches neither marks, objects, events nor calls. *)
LEMMA Entorno ==
  ASSUME TypeOK, Escanear \/ Asignar
  PROVE  /\ UNCHANGED <<objeto, auditoria, pc, ll, fallidos>> /\ limpio \subseteq limpio'
         /\ \A l \in Leads : /\ lead'[l].existe = lead[l].existe
                             /\ lead'[l].activas = lead[l].activas
                             /\ lead'[l].eliminadas = lead[l].eliminadas
<1>1. CASE Escanear BY <1>1 DEF Escanear
<1>2. CASE Asignar
  <2>1. PICK k \in Leads, r \in Asesores : lead' = [lead EXCEPT ![k].asig = {r}]
    BY <1>2 DEF Asignar
  <2>2. ASSUME NEW l \in Leads
        PROVE  /\ lead'[l].existe = lead[l].existe
               /\ lead'[l].activas = lead[l].activas
               /\ lead'[l].eliminadas = lead[l].eliminadas
    BY <2>1 DEF TypeOK
  <2> QED BY <1>2, <2>2 DEF Asignar
<1> QED BY <1>1, <1>2

(***************************************************************************)
(* Each part of the invariant is kept.                                     *)
(***************************************************************************)
LEMMA PeticionesConservan ==
  ASSUME TypeOK, Peticiones, Unicas, NEW p \in Procesos, Paso(p)
  PROVE  Peticiones'
<1>1. ASSUME NEW q \in Procesos \ {p} PROVE EnCurso(q)'
  BY Ajenos DEF Peticiones, EnCurso
<1>2. EnCurso(p)'
  <2>0. EnCurso(p) BY DEF Peticiones
  <2>1. CASE Fin(p) BY <2>1, EfectoFin DEF EnCurso
  <2>2. CASE pc' = pc /\ ll' = ll BY <2>0, <2>2 DEF EnCurso
  <2>3. CASE RecibirNota(p) BY <2>3, EfectoRecibirNota DEF EnCurso
  <2>4. CASE Pide(p)
    <3>1. PICK l \in Leads : ll'[p].lead = l /\ ll'[p].marcas \subseteq lead[l].activas
      BY <2>4, EfectoPide
    <3>2. \A m, n \in ll'[p].marcas : m.id = n.id => m = n BY <3>1 DEF Unicas
    <3> QED BY <2>4, <3>1, <3>2, EfectoPide DEF EnCurso
  <2>5. CASE Subir(p)
    <3>1. /\ pc'[p] \in {"subir", "deshacer"} /\ p \in Lazos /\ ll'[p].marcas = ll[p].marcas
          /\ ll'[p].lead = ll[p].lead /\ ll'[p].op = ll[p].op
          /\ ll'[p].subidos \subseteq ll[p].marcas /\ pc[p] = "subir"
      <4>1. PICK m \in ll[p].marcas \ ll[p].subidos :
              /\ pc'[p] \in {"subir", "deshacer"} /\ p \in Lazos /\ ll'[p].marcas = ll[p].marcas
              /\ ll'[p].lead = ll[p].lead /\ ll'[p].op = ll[p].op /\ pc[p] = "subir"
              /\ ll'[p].subidos = ll[p].subidos \/ ll'[p].subidos = ll[p].subidos \cup {m}
        BY <2>5, EfectoSubir DEF Sube
      <4> QED BY <2>0, <4>1 DEF EnCurso
    <3> QED BY <2>0, <3>1 DEF EnCurso
  <2>6. CASE Anotar(p)
    <3>1. /\ pc'[p] \in {"auditar", "deshacer"} /\ ll' = ll /\ ll[p].op = "nota" /\ p \in Lazos
          /\ ll[p].lead \in Leads /\ pc[p] = "subir"
      BY <2>6, EfectoAnotar
    <3> QED BY <2>0, <3>1 DEF EnCurso
  <2>7. CASE Deshacer(p) \/ BorrarAdjuntos(p)
    <3>1. ASSUME NEW ms \in SUBSET ll[p].marcas, ll' = [ll EXCEPT ![p].subidos = ms], pc' = pc
          PROVE EnCurso(p)'
      <4>1. ms \in SUBSET Marcas BY Campos
      <4>2. /\ ll'[p].subidos = ms /\ ll'[p].marcas = ll[p].marcas /\ ll'[p].lead = ll[p].lead
            /\ ll'[p].op = ll[p].op
        BY <3>1, <4>1, EfectoSubidos
      <4> QED BY <2>0, <3>1, <4>2 DEF EnCurso
    <3>2. Fin(p) \/ \E ms \in SUBSET ll[p].marcas : ll' = [ll EXCEPT ![p].subidos = ms] /\ pc' = pc
      <4>1. ll[p].subidos \subseteq ll[p].marcas BY <2>0 DEF EnCurso
      <4>2. CASE Deshacer(p)
        <5>1. CASE Fin(p) BY <5>1
        <5>2. CASE ~Fin(p)
          <6>1. PICK m \in ll[p].subidos : ll' = [ll EXCEPT ![p].subidos = @ \ {m}] /\ pc' = pc
            BY <4>2, <5>2 DEF Deshacer
          <6>2. ll[p].subidos \ {m} \in SUBSET ll[p].marcas BY <4>1
          <6> QED BY <6>1, <6>2
        <5> QED BY <5>1, <5>2
      <4>3. CASE BorrarAdjuntos(p)
        <5>1. PICK m \in ll[p].marcas : ll' = [ll EXCEPT ![p].subidos = @ \cup {m}] /\ pc' = pc
          BY <4>3 DEF BorrarAdjuntos
        <5>2. ll[p].subidos \cup {m} \in SUBSET ll[p].marcas BY <4>1
        <5> QED BY <5>1, <5>2
      <4> QED BY <2>7, <4>2, <4>3
    <3> QED BY <2>1, <3>1, <3>2
  <2>8. CASE BorrarObjeto(p)
    <3>1. /\ ll[p].op = "borrado" /\ ll[p].lead \in Leads /\ p \in Lazos /\ pc[p] = "borrar"
          /\ Fin(p) \/ (pc'[p] = "reemplazar" /\ ll' = ll)
      BY <2>8, EfectoBorrarObjeto
    <3> QED BY <2>0, <2>1, <3>1 DEF EnCurso
  <2>9. CASE ReemplazarMarca(p)
    <3>1. /\ ll[p].op = "borrado" /\ ll[p].lead \in Leads /\ pc[p] = "reemplazar"
          /\ Fin(p) \/ (pc'[p] = "auditar" /\ ll' = ll)
      BY <2>9, EfectoReemplazar
    <3> QED BY <2>0, <2>1, <3>1 DEF EnCurso
  <2>10. CASE RechazarNota(p) BY <2>2, <2>10 DEF RechazarNota
  <2>11. CASE Cierra(p) \/ BorrarLead(p) BY <2>1, <2>11, EfectoCierra, EfectoBorrarLead
  <2> QED BY <2>3, <2>4, <2>5, <2>6, <2>7, <2>8, <2>9, <2>10, <2>11 DEF Paso, Pide, Cierra
<1> QED BY <1>1, <1>2 DEF Peticiones

LEMMA SecretosConservan ==
  ASSUME TypeOK, Peticiones, Secretos, NEW p \in Procesos, Paso(p)
  PROVE  Secretos'
<1> SUFFICES ASSUME NEW q \in Procesos, NEW a \in Ids(ll'[q].marcas)
             PROVE  /\ pc'[q] = "subir" => Secreto(q, a)'
                    /\ pc'[q] = "deshacer" => Secreto(q, a)' \/ a \in fallidos'
  BY DEF Secretos
<1>0. fallidos \subseteq fallidos' BY Recuerda
<1>1. CASE q # p
  <2>1. pc'[q] = pc[q] /\ ll'[q] = ll[q] BY <1>1, Ajenos
  <2>2. ASSUME Secreto(q, a) PROVE Secreto(q, a)'
    <3>0. a \in Ids(ll[q].marcas) /\ a \in Adjuntos /\ a # Nada /\ a \notin Ids(ll[p].marcas)
      BY <1>1, <2>1, <2>2, Campos, AdjuntosAssumption DEF Ids, Secreto
    <3>1. ASSUME NEW l \in Leads PROVE a \notin Ids((lead[l].activas \cup lead[l].eliminadas)')
      <4>1. Notas(l)' \subseteq Notas(l) \/ Notas(l)' = Notas(l) \cup ll[p].marcas BY OrigenNotas
      <4>2. a \notin Ids(Notas(l)) BY <2>2 DEF Secreto, Notas
      <4> QED BY <3>0, <4>1, <4>2 DEF Ids, Notas
    <3>2. ASSUME NEW r \in Procesos \ {q} PROVE a \notin Ids(ll'[r].marcas)
      <4>1. CASE r # p BY <2>2, <4>1, Ajenos DEF Secreto
      <4>2. CASE r = p
        <5>1. a \in Sorteados BY <3>0 DEF Sorteados, Ids
        <5>2. \A l \in Leads : a \notin Ids(lead[l].activas) BY <2>2 DEF Secreto, Ids
        <5>3. ASSUME NEW m \in ll'[p].marcas PROVE m.id # a
          BY <3>0, <5>1, <5>2, OrigenMarcas DEF Ids
        <5> QED BY <4>2, <5>3 DEF Ids
      <4> QED BY <4>1, <4>2
    <3>3. ASSUME NEW e \in auditoria' PROVE e.id # a
      BY <2>2, <3>0, OrigenEventos DEF Secreto
    <3> QED BY <3>1, <3>2, <3>3 DEF Secreto
  <2>3. CASE pc[q] = "subir" \/ pc[q] = "deshacer"
    BY <1>0, <2>1, <2>2, <2>3 DEF Secretos
  <2> QED BY <2>1, <2>3
<1>2. CASE q = p
  <2>1. ASSUME Secreto(p, a), lead' = lead, auditoria' = auditoria PROVE Secreto(p, a)'
    BY <2>1, Ajenos DEF Secreto
  <2>2. CASE RecibirNota(p)
    <3>1. /\ pc'[p] = "subir" /\ lead' = lead /\ auditoria' = auditoria
          /\ \A m \in ll'[p].marcas : m.id \in Adjuntos \ Sorteados
      BY <2>2, EfectoRecibirNota
    <3>2. a \in Adjuntos \ Sorteados BY <1>2, <3>1 DEF Ids
    <3>3. Secreto(p, a) BY <3>2 DEF Secreto, Sorteados, Ids
    <3> QED BY <1>2, <2>1, <3>1, <3>3
  <2>3. CASE Subir(p)
    <3>1. /\ pc[p] = "subir" /\ lead' = lead /\ auditoria' = auditoria
          /\ ll'[p].marcas = ll[p].marcas
      BY <2>3, EfectoSubir DEF Sube
    <3>2. Secreto(p, a) BY <1>2, <3>1 DEF Secretos
    <3> QED BY <1>2, <2>1, <3>1, <3>2
  <2>4. CASE Anotar(p)
    <3>1. /\ pc[p] = "subir" /\ auditoria' = auditoria /\ ll' = ll
          /\ \/ pc'[p] = "auditar"
             \/ lead' = lead
             \/ fallidos' = fallidos \cup Ids(ll[p].marcas)
      BY <2>4, EfectoAnotar
    <3>2. pc'[p] \in {"auditar", "deshacer"} BY <2>4, EfectoAnotar
    <3>3. Secreto(p, a) BY <1>2, <3>1 DEF Secretos
    <3> QED BY <1>2, <2>1, <3>1, <3>2, <3>3
  <2>5. CASE Deshacer(p)
    <3>1. CASE Fin(p) BY <1>2, <3>1, EfectoFin
    <3>2. CASE ~Fin(p)
      <4>1. /\ pc[p] = "deshacer" /\ lead' = lead /\ auditoria' = auditoria
        BY <2>5, EfectoDeshacer
      <4>2. PICK m : ll' = [ll EXCEPT ![p].subidos = @ \ {m}] /\ pc' = pc
        BY <2>5, <3>2 DEF Deshacer
      <4>3. ll'[p].marcas = ll[p].marcas BY <4>2 DEF TypeOK
      <4>4. Secreto(p, a) \/ a \in fallidos BY <1>2, <4>1, <4>3 DEF Secretos
      <4> QED BY <1>0, <1>2, <2>1, <4>1, <4>2, <4>4
    <3> QED BY <3>1, <3>2
  <2>6. CASE ~(RecibirNota(p) \/ Subir(p) \/ Anotar(p) \/ Deshacer(p))
    <3>1. CASE Fin(p) BY <1>2, <3>1, EfectoFin
    <3>2. CASE RechazarNota(p)
      <4>1. pc' = pc /\ ll' = ll /\ pc[p] = "libre" BY <3>2 DEF RechazarNota
      <4> QED BY <1>2, <4>1
    <3>3. CASE Pide(p) BY <1>2, <3>3, EfectoPide
    <3>4. CASE BorrarObjeto(p) BY <1>2, <3>1, <3>4, EfectoBorrarObjeto
    <3>5. CASE ReemplazarMarca(p) BY <1>2, <3>1, <3>5, EfectoReemplazar
    <3>6. CASE BorrarAdjuntos(p) BY <1>2, <3>6, EfectoBorrarAdjuntos
    <3>7. CASE Cierra(p) \/ BorrarLead(p) BY <3>1, <3>7, EfectoCierra, EfectoBorrarLead
    <3> QED BY <2>6, <3>2, <3>3, <3>4, <3>5, <3>6, <3>7 DEF Paso, Pide, Cierra
  <2> QED BY <2>2, <2>3, <2>4, <2>5, <2>6
<1> QED BY <1>1, <1>2

(* The uuids of an upload whose note is not written are nobody else's.      *)
LEMMA SecretosDe ==
  ASSUME Secretos, NEW p \in Procesos, pc[p] = "subir", NEW m \in ll[p].marcas
  PROVE  /\ \A l \in Leads : \A n \in Notas(l) : n.id # m.id
         /\ \A q \in Procesos \ {p} : \A n \in ll[q].marcas : n.id # m.id
         /\ \A e \in auditoria : e.id # m.id
<1>1. Secreto(p, m.id) BY DEF Secretos, Ids
<1> QED BY <1>1 DEF Secreto, Ids, Notas

LEMMA UnicasConservan ==
  ASSUME TypeOK, Peticiones, Secretos, Unicas, NEW p \in Procesos, Paso(p)
  PROVE  Unicas'
<1>1. ASSUME NEW l \in Leads, NEW m \in Notas(l)', NEW n \in Notas(l)', m.id = n.id PROVE m = n
  <2>1. CASE Notas(l)' \subseteq Notas(l) BY <1>1, <2>1 DEF Unicas, Notas
  <2>2. CASE pc[p] = "subir" /\ Notas(l)' = Notas(l) \cup ll[p].marcas
    <3>1. \A x, y \in ll[p].marcas : x.id = y.id => x = y BY DEF Peticiones, EnCurso
    <3>2. \A x, y \in Notas(l) : x.id = y.id => x = y BY DEF Unicas, Notas
    <3>3. \A x \in ll[p].marcas : \A y \in Notas(l) : x.id # y.id BY <2>2, SecretosDe
    <3> QED BY <1>1, <2>2, <3>1, <3>2, <3>3
  <2> QED BY <2>1, <2>2, OrigenNotas
<1>2. ASSUME NEW q \in Procesos, pc'[q] \notin {"libre", "subir", "deshacer"},
             NEW m \in ll'[q].marcas, NEW n \in lead'[ll'[q].lead].activas, m.id = n.id
      PROVE  m = n
  <2>1. CASE q # p
    <3>1. pc'[q] = pc[q] /\ ll'[q] = ll[q] BY <2>1, Ajenos
    <3>2. ll[q].lead \in Leads BY <1>2, <3>1 DEF Peticiones, EnCurso
    <3>3. \A x \in lead[ll[q].lead].activas : m.id = x.id => m = x BY <1>2, <3>1 DEF Unicas
    <3>4. CASE lead'[ll[q].lead].activas \subseteq lead[ll[q].lead].activas
      BY <1>2, <3>1, <3>3, <3>4
    <3>5. CASE pc[p] = "subir" /\ lead'[ll[q].lead].activas = lead[ll[q].lead].activas \cup ll[p].marcas
      <4>1. \A x \in ll[p].marcas : m.id # x.id BY <1>2, <2>1, <3>1, <3>5, SecretosDe
      <4> QED BY <1>2, <3>1, <3>3, <3>5, <4>1
    <3> QED BY <3>2, <3>4, <3>5, OrigenNotas
  <2>2. CASE q = p /\ Pide(p)
    <3>1. m \in lead[ll'[p].lead].activas /\ ll'[p].lead \in Leads /\ lead' = lead
      BY <1>2, <2>2, EfectoPide
    <3> QED BY <1>2, <2>2, <3>1 DEF Unicas
  <2>3. CASE q = p /\ Anotar(p)
    <3>1. /\ pc[p] = "subir" /\ ll' = ll /\ ll[p].lead \in Leads
          /\ lead'[ll[p].lead].activas \subseteq lead[ll[p].lead].activas \cup ll[p].marcas
      BY <2>3, EfectoAnotar
    <3>2. \A x \in lead[ll[p].lead].activas : m.id # x.id BY <1>2, <2>3, <3>1, SecretosDe DEF Notas
    <3>3. \A x \in ll[p].marcas : m.id = x.id => m = x
      BY <1>2, <2>3, <3>1 DEF Peticiones, EnCurso
    <3> QED BY <1>2, <2>3, <3>1, <3>2, <3>3
  <2>4. CASE q = p /\ ~Pide(p) /\ ~Anotar(p)
    <3>1. /\ pc[p] \notin {"libre", "subir", "deshacer"} /\ ll'[p].marcas = ll[p].marcas
          /\ ll'[p].lead = ll[p].lead /\ ~Anotar(p)
      <4>1. CASE Fin(p) BY <1>2, <2>4, <4>1, EfectoFin
      <4>2. CASE RecibirNota(p) BY <1>2, <2>4, <4>2, EfectoRecibirNota
      <4>3. CASE Subir(p)
        <5>1. pc'[p] \in {"subir", "deshacer"} BY <4>3, EfectoSubir DEF Sube
        <5> QED BY <1>2, <2>4, <5>1
      <4>4. CASE RechazarNota(p) BY <1>2, <2>4, <4>4 DEF RechazarNota
      <4>5. CASE Deshacer(p) BY <1>2, <2>4, <4>1, <4>5 DEF Deshacer
      <4>6. CASE BorrarObjeto(p) BY <1>2, <2>4, <4>1, <4>6, EfectoBorrarObjeto
      <4>7. CASE ReemplazarMarca(p) BY <1>2, <2>4, <4>1, <4>7, EfectoReemplazar
      <4>8. CASE BorrarAdjuntos(p)
        <5>1. PICK x : ll' = [ll EXCEPT ![p].subidos = @ \cup {x}] /\ pc' = pc /\ pc[p] = "borrar"
          BY <4>8 DEF BorrarAdjuntos
        <5>2. ll'[p].marcas = ll[p].marcas /\ ll'[p].lead = ll[p].lead BY <5>1 DEF TypeOK
        <5> QED BY <2>4, <5>1, <5>2
      <4>9. CASE Cierra(p) \/ BorrarLead(p) BY <4>1, <4>9, EfectoCierra, EfectoBorrarLead
      <4> QED BY <2>4, <4>2, <4>3, <4>4, <4>5, <4>6, <4>7, <4>8, <4>9 DEF Paso, Pide, Cierra
    <3>2. ll[p].lead \in Leads BY <3>1 DEF Peticiones, EnCurso
    <3>3. lead'[ll[p].lead].activas \subseteq lead[ll[p].lead].activas BY <3>1, <3>2, OrigenNotas
    <3>4. \A x \in lead[ll[p].lead].activas : m.id = x.id => m = x
      BY <1>2, <2>4, <3>1 DEF Unicas
    <3> QED BY <1>2, <2>4, <3>1, <3>3, <3>4
  <2> QED BY <2>1, <2>2, <2>3, <2>4
<1> QED BY <1>1, <1>2 DEF Unicas, Notas

LEMMA SubidasConservan ==
  ASSUME TypeOK, Peticiones, Secretos, Subidas, NEW p \in Procesos, Paso(p)
  PROVE  Subidas'
<1>1. ASSUME NEW q \in Procesos, pc'[q] = "subir", NEW m \in ll'[q].subidos
      PROVE  objeto'[<<ll'[q].lead, m.id>>] = m.tipo
  <2>1. CASE q # p
    <3>1. pc'[q] = pc[q] /\ ll'[q] = ll[q] BY <2>1, Ajenos
    <3>2. m \in ll[q].marcas /\ ll[q].lead \in Leads /\ m \in Marcas
      BY <1>1, <3>1, Campos DEF Peticiones, EnCurso
    <3>3. <<ll[q].lead, m.id>> \in Claves BY <3>2 DEF Claves, Marcas
    <3>4. m.id \notin Ids(ll[p].marcas) BY <1>1, <2>1, <3>1, <3>2, SecretosDe DEF Ids
    <3>5. objeto'[<<ll[q].lead, m.id>>] = objeto[<<ll[q].lead, m.id>>]
      BY <3>3, <3>4, OrigenObjetos
    <3> QED BY <1>1, <3>1, <3>5 DEF Subidas
  <2>2. CASE q = p /\ RecibirNota(p) BY <1>1, <2>2, EfectoRecibirNota
  <2>3. CASE q = p /\ Subir(p)
    <3>0. PICK n \in ll[p].marcas \ ll[p].subidos : Sube(p, n) BY <2>3, EfectoSubir
    <3>1. /\ <<ll[p].lead, n.id>> \in Claves
          /\ pc[p] = "subir" /\ ll'[p].lead = ll[p].lead
          /\ \A c \in Claves : c # <<ll[p].lead, n.id>> => objeto'[c] = objeto[c]
          /\ \/ /\ objeto'[<<ll[p].lead, n.id>>] = n.tipo
                /\ ll'[p].subidos = ll[p].subidos \cup {n}
             \/ pc'[p] = "deshacer"
      BY <3>0 DEF Sube
    <3>2. CASE m = n BY <1>1, <2>3, <3>1, <3>2
    <3>3. CASE m # n
      <4>1. m \in ll[p].subidos BY <1>1, <2>3, <3>1, <3>3
      <4>2. m \in ll[p].marcas BY <4>1 DEF Peticiones, EnCurso
      <4>3. m.id # n.id BY <3>1, <3>3, <4>2 DEF Peticiones, EnCurso
      <4>4. <<ll[p].lead, m.id>> \in Claves BY <3>1, <4>2, Campos DEF Claves
      <4>5. objeto[<<ll[p].lead, m.id>>] = m.tipo BY <3>1, <4>1 DEF Subidas
      <4> QED BY <2>3, <3>1, <4>3, <4>4, <4>5
    <3> QED BY <3>2, <3>3
  <2>4. CASE q = p /\ ~RecibirNota(p) /\ ~Subir(p)
    <3>1. CASE Fin(p) BY <1>1, <2>4, <3>1, EfectoFin
    <3>2. CASE RechazarNota(p)
      <4>1. pc[p] = "libre" /\ pc' = pc BY <3>2 DEF RechazarNota
      <4> QED BY <1>1, <2>4, <4>1
    <3>3. CASE Anotar(p)
      <4>1. pc'[p] \in {"auditar", "deshacer"} BY <3>3, EfectoAnotar
      <4> QED BY <1>1, <2>4, <4>1
    <3>4. CASE Deshacer(p)
      <4>1. pc[p] = "deshacer" /\ (Fin(p) \/ pc' = pc) BY <3>4 DEF Deshacer
      <4> QED BY <1>1, <2>4, <3>1, <4>1
    <3>5. CASE Pide(p) BY <1>1, <2>4, <3>5, EfectoPide
    <3>6. CASE BorrarObjeto(p) BY <1>1, <2>4, <3>1, <3>6, EfectoBorrarObjeto
    <3>7. CASE ReemplazarMarca(p) BY <1>1, <2>4, <3>1, <3>7, EfectoReemplazar
    <3>8. CASE BorrarAdjuntos(p) BY <1>1, <2>4, <3>8, EfectoBorrarAdjuntos
    <3>9. CASE Cierra(p) \/ BorrarLead(p) BY <3>1, <3>9, EfectoCierra, EfectoBorrarLead
    <3> QED BY <2>4, <3>2, <3>3, <3>4, <3>5, <3>6, <3>7, <3>8, <3>9 DEF Paso, Pide, Cierra
  <2> QED BY <2>1, <2>2, <2>3, <2>4
<1>2. ASSUME NEW q \in Procesos, pc'[q] = "auditar", ll'[q].op = "nota", NEW m \in ll'[q].marcas
      PROVE  \/ ~lead'[ll'[q].lead].existe
             \/ m \in lead'[ll'[q].lead].activas \cup lead'[ll'[q].lead].eliminadas
  <2>1. CASE pc[q] = "auditar" /\ ll'[q] = ll[q]
    <3>1. PICK l \in Leads : ll[q].lead = l BY <2>1 DEF Peticiones, EnCurso
    <3>2. ~lead[l].existe \/ m \in Notas(l) BY <1>2, <2>1, <3>1 DEF Subidas, Notas
    <3>3. lead'[l].existe => lead[l].existe /\ Notas(l) \subseteq Notas(l)'
      BY OrigenNotas
    <3>4. Notas(l)' = lead'[l].activas \cup lead'[l].eliminadas BY DEF Notas
    <3> QED BY <2>1, <3>1, <3>2, <3>3, <3>4
  <2>2. CASE q # p BY <1>2, <2>1, <2>2, Ajenos
  <2>3. CASE q = p
    <3>1. CASE Fin(p) BY <1>2, <2>3, <3>1, EfectoFin
    <3>2. CASE RechazarNota(p)
      BY <1>2, <2>1, <2>3, <3>2 DEF RechazarNota
    <3>3. CASE Anotar(p)
      <4>1. /\ ll' = ll /\ ll[p].lead \in Leads
            /\ lead'[ll[p].lead].activas = lead[ll[p].lead].activas \cup ll[p].marcas
        BY <1>2, <2>3, <3>3, EfectoAnotar
      <4> QED BY <1>2, <2>3, <4>1
    <3>4. CASE Deshacer(p)
      <4>1. pc[p] = "deshacer" /\ (Fin(p) \/ pc' = pc) BY <3>4 DEF Deshacer
      <4> QED BY <1>2, <2>3, <3>1, <4>1
    <3>5. CASE Pide(p) BY <1>2, <2>3, <3>5, EfectoPide
    <3>6. CASE BorrarObjeto(p) BY <1>2, <2>3, <3>1, <3>6, EfectoBorrarObjeto
    <3>7. CASE ReemplazarMarca(p) BY <1>2, <2>3, <3>1, <3>7, EfectoReemplazar
    <3>8. CASE BorrarAdjuntos(p) BY <1>2, <2>3, <3>8, EfectoBorrarAdjuntos
    <3>9. CASE Cierra(p) \/ BorrarLead(p) BY <3>1, <3>9, EfectoCierra, EfectoBorrarLead
    <3>10. CASE RecibirNota(p) BY <1>2, <2>3, <3>10, EfectoRecibirNota
    <3>11. CASE Subir(p)
      <4>1. pc'[p] \in {"subir", "deshacer"} BY <3>11, EfectoSubir DEF Sube
      <4> QED BY <1>2, <2>3, <4>1
    <3> QED
      BY <3>2, <3>3, <3>4, <3>5, <3>6, <3>7, <3>8, <3>9, <3>10, <3>11 DEF Paso, Pide, Cierra
  <2> QED BY <2>2, <2>3
<1> QED BY <1>1, <1>2 DEF Subidas

LEMMA QuitadasConservan ==
  ASSUME TypeOK, Peticiones, Secretos, Unicas, Quitadas, NEW p \in Procesos, Paso(p)
  PROVE  Quitadas'
<1>1. SUFFICES ASSUME NEW q \in Procesos, NEW m \in ll'[q].marcas,
                      pc'[q] \in {"reemplazar", "auditar"}, ll'[q].op = "borrado"
               PROVE  /\ objeto'[<<ll'[q].lead, m.id>>] = Nada
                      /\ pc'[q] = "auditar" => m.id \notin Ids(lead'[ll'[q].lead].activas)
  <2>1. Peticiones' BY PeticionesConservan
  <2>2. \A q \in Procesos : pc'[q] = "reemplazar" => ll'[q].op = "borrado"
    BY <2>1 DEF Peticiones, EnCurso
  <2> QED BY <2>2 DEF Quitadas, Ids
<1>2. CASE q # p
  <2>1. pc'[q] = pc[q] /\ ll'[q] = ll[q] BY <1>2, Ajenos
  <2>2. PICK l \in Leads : ll[q].lead = l BY <1>1, <2>1 DEF Peticiones, EnCurso
  <2>3. m \in Marcas BY <2>1, Campos
  <2>4. <<l, m.id>> \in Claves BY <2>3 DEF Claves, Marcas
  <2>5. /\ objeto[<<l, m.id>>] = Nada
        /\ pc[q] = "auditar" => m.id \notin Ids(lead[l].activas)
    BY <1>1, <2>1, <2>2 DEF Quitadas
  <2>6. pc[p] = "subir" => m.id \notin Ids(ll[p].marcas)
    BY <1>2, <2>1, SecretosDe DEF Ids
  <2>7. objeto'[<<l, m.id>>] = Nada
    BY <2>4, <2>5, <2>6, OrigenObjetos
  <2>8. lead'[l].activas \subseteq lead[l].activas
        \/ (pc[p] = "subir" /\ lead'[l].activas = lead[l].activas \cup ll[p].marcas)
    BY OrigenNotas
  <2>9. pc[q] = "auditar" => m.id \notin Ids(lead'[l].activas)
    BY <2>5, <2>6, <2>8 DEF Ids
  <2> QED BY <2>1, <2>2, <2>7, <2>9
<1>3. CASE q = p
  <2>1. ~Fin(p) BY <1>1, <1>3, EfectoFin
  <2>2. CASE RecibirNota(p) BY <1>1, <1>3, <2>2, EfectoRecibirNota
  <2>3. CASE RechazarNota(p)
    <3>1. pc[p] = "libre" /\ pc' = pc BY <2>3 DEF RechazarNota
    <3> QED BY <1>1, <1>3, <3>1
  <2>4. CASE Subir(p)
    <3>1. pc'[p] \in {"subir", "deshacer"} BY <2>4, EfectoSubir DEF Sube
    <3> QED BY <1>1, <1>3, <3>1
  <2>5. CASE Anotar(p) BY <1>1, <1>3, <2>5, EfectoAnotar
  <2>6. CASE Deshacer(p)
    <3>1. pc[p] = "deshacer" /\ (Fin(p) \/ pc' = pc) BY <2>6 DEF Deshacer
    <3> QED BY <1>1, <1>3, <2>1, <3>1
  <2>7. CASE Pide(p) BY <1>1, <1>3, <2>7, EfectoPide
  <2>8. CASE BorrarAdjuntos(p) BY <1>1, <1>3, <2>8, EfectoBorrarAdjuntos
  <2>9. CASE Cierra(p) \/ BorrarLead(p) BY <2>1, <2>9, EfectoCierra, EfectoBorrarLead
  <2>10. CASE BorrarObjeto(p)
    <3>1. PICK n \in Marcas :
              /\ ll[p].marcas = {n} /\ <<ll[p].lead, n.id>> \in Claves
              /\ BorrarEnS3(<<ll[p].lead, n.id>>, "hecho") /\ pc'[p] = "reemplazar" /\ ll' = ll
      BY <1>1, <1>3, <2>1, <2>10, EfectoBorrarObjeto
    <3>2. objeto'[<<ll[p].lead, n.id>>] = Nada BY <3>1, EfectoBorrarEnS3
    <3> QED BY <1>3, <3>1, <3>2
  <2>11. CASE ReemplazarMarca(p)
    <3>1. /\ pc[p] = "reemplazar" /\ ll[p].lead \in Leads /\ objeto' = objeto /\ ll' = ll
          /\ lead' = Reemplazado(ll[p].lead, ll[p].marcas)
      BY <1>1, <1>3, <2>1, <2>11, EfectoReemplazar
    <3>2. ll[p].marcas \in SUBSET Marcas BY Campos
    <3>3. lead'[ll[p].lead].activas = lead[ll[p].lead].activas \ ll[p].marcas
      BY <3>1, <3>2, EfectoReemplazado
    <3>4. objeto[<<ll[p].lead, m.id>>] = Nada BY <1>3, <3>1 DEF Quitadas
    <3>5. \A n \in lead[ll[p].lead].activas : m.id = n.id => m = n
      BY <1>3, <3>1 DEF Unicas
    <3> QED BY <1>3, <3>1, <3>3, <3>4, <3>5 DEF Ids
  <2> QED
    BY <1>3, <2>2, <2>3, <2>4, <2>5, <2>6, <2>7, <2>8, <2>9, <2>10, <2>11 DEF Paso, Pide, Cierra
<1> QED BY <1>2, <1>3

LEMMA RechazosConservan ==
  ASSUME TypeOK, Peticiones, Rechazos, NEW p \in Procesos, Paso(p)
  PROVE  Rechazos'
<1>1. ASSUME NEW e \in auditoria', e.accion # "adjunto_rechazado" PROVE e.id # Nada
  <2>1. \A m \in ll[p].marcas : m.id # Nada BY Campos
  <2>2. e \in auditoria \/ e.id \in Ids(ll[p].marcas) BY <1>1, OrigenEventos
  <2> QED BY <1>1, <2>1, <2>2 DEF Rechazos, Ids
<1> QED BY <1>1 DEF Rechazos

(* Who owns an object: a note, the request that uploads it, or a failure.   *)
LEMMA ConDuenoConserva ==
  ASSUME TypeOK, Peticiones, Quitadas, ConDueno, NEW p \in Procesos, Paso(p)
  PROVE  ConDueno'
<1>1. SUFFICES ASSUME NEW c \in Claves, objeto'[c] # Nada, c[2] \notin fallidos'
               PROVE  \/ c[2] \in Ids(lead'[c[1]].activas)
                      \/ \E q \in Lazos : /\ pc'[q] \in {"subir", "deshacer"} /\ ll'[q].lead = c[1]
                                          /\ c[2] \in Ids(ll'[q].subidos)
  BY DEF ConDueno, Ids
<1>2. c[1] \in Leads /\ c[2] \in Adjuntos /\ c = <<c[1], c[2]>> BY DEF Claves
<1>3. CASE objeto'[c] # objeto[c]
  <2>1. Subir(p) BY <1>1, <1>3, OrigenObjetos
  <2>2. PICK m \in ll[p].marcas \ ll[p].subidos :
          /\ <<ll[p].lead, m.id>> \in Claves
          /\ p \in Lazos /\ ll'[p].lead = ll[p].lead
          /\ \A d \in Claves : d # <<ll[p].lead, m.id>> => objeto'[d] = objeto[d]
          /\ \/ pc'[p] = "subir" /\ ll'[p].subidos = ll[p].subidos \cup {m}
             \/ fallidos' = fallidos \cup {m.id}
    BY <2>1, EfectoSubir DEF Sube
  <2>3. c = <<ll[p].lead, m.id>> BY <1>3, <2>2
  <2>4. pc'[p] = "subir" /\ m \in ll'[p].subidos BY <1>1, <2>2, <2>3
  <2> QED BY <2>2, <2>3, <2>4 DEF Ids
<1>4. CASE objeto'[c] = objeto[c]
  <2>0. c[2] \notin fallidos /\ objeto[c] # Nada BY <1>1, <1>4, Recuerda
  <2>1. CASE c[2] \in Ids(lead[c[1]].activas)
    <3>1. PICK m \in lead[c[1]].activas : c[2] = m.id BY <2>1 DEF Ids
    <3>2. m \in lead'[c[1]].activas
      <4>1. CASE lead'[c[1]] = lead[c[1]] BY <3>1, <4>1
      <4>2. CASE Anotar(p) BY <1>2, <3>1, <4>1, <4>2, EfectoAnotar
      <4>3. CASE ReemplazarMarca(p)
        <5>1. /\ pc[p] = "reemplazar" /\ ll[p].lead \in Leads
              /\ lead' \in {lead, Reemplazado(ll[p].lead, ll[p].marcas)}
          BY <4>3, EfectoReemplazar
        <5>2. ll[p].marcas \in SUBSET Marcas BY Campos
        <5>3. CASE lead' = Reemplazado(ll[p].lead, ll[p].marcas) /\ c[1] = ll[p].lead
          <6>1. lead'[c[1]].activas = lead[c[1]].activas \ ll[p].marcas
            BY <5>1, <5>2, <5>3, EfectoReemplazado
          <6>2. m \notin ll[p].marcas BY <1>2, <2>0, <3>1, <5>1, <5>3 DEF Quitadas
          <6> QED BY <3>1, <6>1, <6>2
        <5>4. CASE lead' = Reemplazado(ll[p].lead, ll[p].marcas) /\ c[1] # ll[p].lead
          <6>1. lead'[c[1]] = lead[c[1]] BY <1>2, <5>1, <5>2, <5>4, EfectoReemplazado
          <6> QED BY <3>1, <6>1
        <5> QED BY <3>1, <5>1, <5>3, <5>4
      <4>4. CASE BorrarLead(p)
        <5>1. /\ fallidos' = fallidos \cup Ids(ll[p].marcas \cup lead[ll[p].lead].activas)
              /\ \A l \in Leads \ {ll[p].lead} : lead'[l] = lead[l]
          BY <4>4, EfectoBorrarLead
        <5>2. c[1] # ll[p].lead BY <1>1, <3>1, <5>1 DEF Ids
        <5> QED BY <1>2, <3>1, <5>1, <5>2
      <4>5. CASE ~(Anotar(p) \/ ReemplazarMarca(p) \/ BorrarLead(p))
        <5>1. lead' = lead
          BY <4>5 DEF Paso, RecibirNota, RechazarNota, Subir, Deshacer, AuditarSubida, PedirVista,
             LeerObjeto, PedirBorrado, BorrarObjeto, AuditarBorrado, PedirLimpieza, BorrarAdjuntos,
             Caida, Recibir, datos
        <5> QED BY <3>1, <5>1
      <4> QED BY <4>2, <4>3, <4>4, <4>5
    <3> QED BY <3>1, <3>2 DEF Ids
  <2>2. ASSUME NEW q \in Lazos, pc[q] \in {"subir", "deshacer"}, ll[q].lead = c[1],
               NEW m \in ll[q].subidos, m.id = c[2]
        PROVE  \/ c[2] \in Ids(lead'[c[1]].activas)
               \/ /\ pc'[q] \in {"subir", "deshacer"} /\ ll'[q].lead = c[1]
                  /\ c[2] \in Ids(ll'[q].subidos)
    <3>0. q \in Procesos BY DEF Procesos
    <3>1. CASE q # p BY <2>2, <3>0, <3>1, Ajenos DEF Ids
    <3>2. CASE q = p
      <4>0. m \in ll[p].marcas BY <3>0, <2>2, <3>2 DEF Peticiones, EnCurso
      <4>1. CASE Subir(p)
        <5>1. PICK n \in ll[p].marcas :
                 /\ ll'[p].lead = ll[p].lead /\ pc'[p] \in {"subir", "deshacer"}
                 /\ ll'[p].subidos = ll[p].subidos \/ ll'[p].subidos = ll[p].subidos \cup {n}
          BY <4>1, EfectoSubir DEF Sube
        <5> QED BY <2>2, <3>2, <5>1 DEF Ids
      <4>2. CASE Anotar(p)
        <5>1. /\ ll' = ll
              /\ \/ lead'[ll[p].lead].activas = lead[ll[p].lead].activas \cup ll[p].marcas
                 \/ pc'[p] = "deshacer"
          BY <4>2, EfectoAnotar
        <5> QED BY <2>2, <3>2, <4>0, <5>1 DEF Ids
      <4>3. CASE Deshacer(p)
        <5>1. ll[p].subidos # {} BY <2>2, <3>2
        <5>2. PICK n \in ll[p].subidos, s \in {"hecho", "error"} :
                 /\ BorrarEnS3(<<ll[p].lead, n.id>>, s)
                 /\ <<ll[p].lead, n.id>> \in Claves
                 /\ ll' = [ll EXCEPT ![p].subidos = @ \ {n}] /\ pc' = pc
          BY <4>3, <5>1, EfectoDeshacer
        <5>3. CASE m = n
          <6>1. objeto'[c] = Nada \/ c[2] \in fallidos'
            BY <1>2, <2>2, <3>2, <5>2, <5>3, EfectoBorrarEnS3
          <6> QED BY <1>1, <6>1
        <5>4. CASE m # n
          <6>1. ll'[p].subidos = ll[p].subidos \ {n} /\ ll'[p].lead = ll[p].lead
            BY <5>2 DEF TypeOK
          <6> QED BY <2>2, <3>2, <5>2, <5>4, <6>1 DEF Ids
        <5> QED BY <5>3, <5>4
      <4>4. CASE Caida(p)
        <5>1. fallidos' = fallidos \cup Ids(ll[p].marcas) BY <4>4 DEF Caida, Culpar
        <5> QED BY <1>1, <2>2, <4>0, <5>1 DEF Ids
      <4>5. CASE ~(Subir(p) \/ Anotar(p) \/ Deshacer(p) \/ Caida(p))
        <5>1. FALSE
          BY <2>2, <3>2, <4>5 DEF Paso, RecibirNota, RechazarNota, AuditarSubida, PedirVista,
             LeerObjeto, PedirBorrado, BorrarObjeto, ReemplazarMarca, AuditarBorrado, PedirLimpieza,
             BorrarAdjuntos, BorrarLead, Recibir
        <5> QED BY <5>1
      <4> QED BY <4>1, <4>2, <4>3, <4>4, <4>5
    <3> QED BY <3>1, <3>2
  <2>3. CASE \E q \in Lazos : /\ pc[q] \in {"subir", "deshacer"} /\ ll[q].lead = c[1]
                              /\ c[2] \in Ids(ll[q].subidos)
    BY <2>2, <2>3 DEF Ids
  <2> QED BY <2>0, <2>1, <2>3 DEF ConDueno
<1> QED BY <1>3, <1>4

(* A mark whose object is being deleted has its object, or a call that      *)
(* will deal with it, or a failure.                                        *)
LEMMA MarcaConserva ==
  ASSUME Inv, NEW p \in Procesos, Paso(p), NEW l \in Leads, NEW m \in lead'[l].activas
  PROVE  objeto'[<<l, m.id>>] = m.tipo \/ QuitandoObjeto(l, m)' \/ m.id \in fallidos'
<1> USE DEF Inv
<1>0. TypeOK BY DEF MarcaConObjeto
<1>1. SUFFICES ASSUME m.id \notin fallidos'
               PROVE  objeto'[<<l, m.id>>] = m.tipo \/ QuitandoObjeto(l, m)'
  OBVIOUS
<1>2. m.id \notin fallidos BY <1>1, Recuerda
<1>3. CASE m \notin lead[l].activas
  <2>1. /\ Anotar(p) /\ pc[p] = "subir" /\ l = ll[p].lead /\ m \in ll[p].marcas
    BY <1>0, <1>3, OrigenNotas
  <2>2. objeto' = objeto /\ ll[p].subidos = ll[p].marcas BY <1>0, <2>1, EfectoAnotar
  <2> QED BY <2>1, <2>2 DEF Subidas
<1>4. CASE m \in lead[l].activas
  <2>0. m \in Marcas /\ m.id \in Adjuntos /\ <<l, m.id>> \in Claves
    BY <1>0, <1>4, Campos DEF Claves
  <2>1. CASE objeto[<<l, m.id>>] = m.tipo
    <3>1. CASE objeto'[<<l, m.id>>] = objeto[<<l, m.id>>] BY <2>1, <3>1
    <3>2. CASE objeto'[<<l, m.id>>] # objeto[<<l, m.id>>]
      <4>1. PICK n \in ll[p].marcas : l = ll[p].lead /\ m.id = n.id
        BY <1>0, <2>0, <3>2, OrigenObjetos DEF Ids
      <4>2. CASE Subir(p)
        <5>1. pc[p] = "subir" BY <4>2 DEF Subir
        <5> QED BY <1>4, <4>1, <5>1, SecretosDe DEF Notas
      <4>3. CASE Deshacer(p)
        <5>1. pc[p] = "deshacer" BY <4>3 DEF Deshacer
        <5>2. Secreto(p, m.id) BY <1>2, <4>1, <5>1 DEF Secretos, Ids
        <5> QED BY <1>4, <5>2 DEF Secreto, Ids
      <4>4. CASE BorrarObjeto(p)
        <5>1. PICK x \in Marcas :
                /\ ll[p].marcas = {x} /\ <<ll[p].lead, x.id>> \in Claves
                /\ \/ BorrarEnS3(<<ll[p].lead, x.id>>, "hecho") /\ pc'[p] = "reemplazar" /\ ll' = ll
                   \/ BorrarEnS3(<<ll[p].lead, x.id>>, "error") /\ Fin(p)
          BY <1>0, <4>4, EfectoBorrarObjeto
        <5>2. pc[p] = "borrar" /\ p \in Lazos BY <1>0, <4>4, EfectoBorrarObjeto
        <5>3. m = n BY <1>4, <4>1, <5>2 DEF Unicas
        <5>4. CASE pc'[p] = "reemplazar" /\ ll' = ll
          <6>1. QuitandoObjeto(l, m)' BY <4>1, <5>2, <5>3, <5>4 DEF QuitandoObjeto
          <6> QED BY <6>1
        <5>5. CASE BorrarEnS3(<<ll[p].lead, x.id>>, "error")
          <6>1. m.id \in fallidos' BY <1>0, <4>1, <5>1, <5>5, EfectoBorrarEnS3
          <6> QED BY <1>1, <6>1
        <5> QED BY <5>1, <5>4, <5>5
      <4>5. CASE BorrarAdjuntos(p)
        <5>1. PICK x \in ll[p].marcas :
                /\ x \in Marcas /\ <<ll[p].lead, x.id>> \in Claves
                /\ \E s \in {"hecho", "error"} : BorrarEnS3(<<ll[p].lead, x.id>>, s)
                /\ ll' = [ll EXCEPT ![p].subidos = @ \cup {x}]
          BY <1>0, <4>5, EfectoBorrarAdjuntos
        <5>2. pc[p] = "borrar" /\ p \in Lazos /\ ll[p].op = "limpieza"
          BY <1>0, <4>5, EfectoBorrarAdjuntos
        <5>3. m = n BY <1>4, <4>1, <5>2 DEF Unicas
        <5>4. x.id = m.id
          <6>1. PICK s \in {"hecho", "error"} : BorrarEnS3(<<ll[p].lead, x.id>>, s) BY <5>1
          <6>2. \A d \in Claves : d # <<ll[p].lead, x.id>> => objeto'[d] = objeto[d]
            BY <1>0, <5>1, <6>1, EfectoBorrarEnS3
          <6> QED BY <2>0, <3>2, <6>2
        <5>5. x = m BY <4>1, <5>1, <5>3, <5>4 DEF Peticiones, EnCurso
        <5>6. /\ m \in ll'[p].subidos /\ ll'[p].op = "limpieza" /\ ll'[p].lead = l
          BY <1>0, <4>1, <5>1, <5>2, <5>5 DEF TypeOK
        <5>7. QuitandoObjeto(l, m)' BY <5>2, <5>6 DEF QuitandoObjeto
        <5> QED BY <5>7
      <4> QED BY <1>0, <2>0, <3>2, <4>2, <4>3, <4>4, <4>5, OrigenObjetos
    <3> QED BY <3>1, <3>2
  <2>2. CASE QuitandoObjeto(l, m)
    <3>1. PICK q \in Lazos :
            /\ ll[q].lead = l
            /\ \/ pc[q] = "reemplazar" /\ m \in ll[q].marcas
               \/ ll[q].op = "limpieza" /\ m \in ll[q].subidos
      BY <2>2 DEF QuitandoObjeto
    <3>2. q \in Procesos BY DEF Procesos
    <3>3. m \in ll[q].marcas BY <3>1, <3>2 DEF Peticiones, EnCurso
    <3>4. CASE q # p
      <4>1. QuitandoObjeto(l, m)' BY <1>0, <3>1, <3>2, <3>4, Ajenos DEF QuitandoObjeto
      <4> QED BY <4>1
    <3>5. CASE q = p
      <4>1. CASE ReemplazarMarca(p)
        <5>1. ll[p].marcas \in SUBSET Marcas BY <1>0, Campos
        <5>2. \/ lead' = Reemplazado(l, ll[p].marcas)
              \/ fallidos' = fallidos \cup Ids(ll[p].marcas)
          BY <1>0, <3>1, <3>5, <4>1, EfectoReemplazar
        <5>3. CASE lead' = Reemplazado(l, ll[p].marcas)
          <6>1. lead'[l].activas = lead[l].activas \ ll[p].marcas
            BY <1>0, <5>1, <5>3, EfectoReemplazado
          <6> QED BY <3>3, <3>5, <6>1
        <5> QED BY <1>1, <3>3, <3>5, <5>2, <5>3 DEF Ids
      <4>2. CASE BorrarAdjuntos(p)
        <5>1. PICK x : ll' = [ll EXCEPT ![p].subidos = @ \cup {x}] BY <4>2 DEF BorrarAdjuntos
        <5>2. ll[p].op = "limpieza" /\ pc[p] = "borrar" BY <4>2 DEF BorrarAdjuntos
        <5>3. ll'[p].op = "limpieza" /\ ll'[p].lead = ll[p].lead /\ m \in ll'[p].subidos
          BY <1>0, <3>1, <3>2, <3>5, <5>1, <5>2 DEF TypeOK
        <5>4. QuitandoObjeto(l, m)' BY <3>1, <3>5, <5>3 DEF QuitandoObjeto
        <5> QED BY <5>4
      <4>3. CASE BorrarLead(p)
        <5>1. fallidos' = fallidos \cup Ids(ll[p].marcas \cup lead[ll[p].lead].activas)
          BY <1>0, <4>3, EfectoBorrarLead
        <5> QED BY <1>1, <3>3, <3>5, <5>1 DEF Ids
      <4>4. CASE Caida(p)
        <5>1. fallidos' = fallidos \cup Ids(ll[p].marcas) BY <4>4 DEF Caida, Culpar
        <5> QED BY <1>1, <3>3, <3>5, <5>1 DEF Ids
      <4>5. CASE ~(ReemplazarMarca(p) \/ BorrarAdjuntos(p) \/ BorrarLead(p) \/ Caida(p))
        <5>1. pc[p] = "reemplazar" \/ (pc[p] = "borrar" /\ ll[p].op = "limpieza")
          <6>1. EnCurso(p) BY DEF Peticiones
          <6>2. pc[p] \in {"libre", "subir", "deshacer", "auditar", "leer", "borrar", "reemplazar"}
            BY <1>0 DEF TypeOK
          <6> QED BY <3>1, <3>5, <6>1, <6>2 DEF EnCurso
        <5>2. FALSE
          BY <4>5, <5>1 DEF Paso, RecibirNota, RechazarNota, Subir, Anotar, Deshacer, AuditarSubida,
             PedirVista, LeerObjeto, PedirBorrado, BorrarObjeto, AuditarBorrado, PedirLimpieza, Recibir
        <5> QED BY <5>2
      <4> QED BY <4>1, <4>2, <4>3, <4>4, <4>5
    <3> QED BY <3>4, <3>5
  <2> QED BY <1>2, <1>4, <2>1, <2>2 DEF MarcaConObjeto
<1> QED BY <1>3, <1>4

(* What was told stays true, and what is told is true.                      *)
LEMMA AuditoriaConserva ==
  ASSUME Inv, NEW p \in Procesos, Paso(p)
  PROVE  AuditoriaVeraz'
<1> USE DEF Inv
<1>0. TypeOK BY DEF MarcaConObjeto
<1>1. ASSUME NEW e \in auditoria', e.accion = "adjunto_subido"
      PROVE  ~lead'[e.lead].existe
             \/ e.id \in Ids(lead'[e.lead].activas \cup lead'[e.lead].eliminadas)
  <2>1. PICK l \in Leads : e.lead = l /\ (~lead[l].existe \/ e.id \in Ids(Notas(l)))
    <3>1. CASE e \in auditoria
      BY <1>0, <1>1, <3>1 DEF AuditoriaVeraz, TypeOK, Notas
    <3>2. CASE e \notin auditoria
      <4>1. Cierra(p) BY <1>0, <1>1, <3>2, OrigenEventos
      <4>2. /\ e \in [accion : Acciones, lead : {ll[p].lead}, id : Ids(ll[p].marcas)]
            /\ pc[p] = "auditar" /\ ll[p].op = "nota" /\ ll[p].lead \in Leads
        <5>1. \A x \in auditoria' \ auditoria :
              /\ x \in [accion : Acciones, lead : {ll[p].lead}, id : Ids(ll[p].marcas)]
              /\ \/ x.accion = "adjunto_subido" /\ pc[p] = "auditar" /\ ll[p].op = "nota"
                 \/ x.accion = "adjunto_visto"
                 \/ x.accion = "adjunto_eliminado"
          BY <1>0, <4>1, EfectoCierra
        <5>2. ll[p].lead \in Leads BY <1>0, <4>1, EfectoCierra
        <5> QED BY <1>1, <3>2, <5>1, <5>2
      <4>3. PICK m \in ll[p].marcas : e.id = m.id BY <4>2 DEF Ids
      <4> QED BY <4>2, <4>3 DEF Subidas, Notas, Ids
    <3> QED BY <3>1, <3>2
  <2>2. lead'[l].existe => lead[l].existe /\ Notas(l) \subseteq Notas(l)' BY <1>0, OrigenNotas
  <2>3. Notas(l)' = lead'[l].activas \cup lead'[l].eliminadas BY DEF Notas
  <2> QED BY <2>1, <2>2, <2>3 DEF Ids
<1>2. ASSUME NEW e \in auditoria', e.accion = "adjunto_eliminado"
      PROVE  objeto'[<<e.lead, e.id>>] = Nada /\ e.id \notin Ids(lead'[e.lead].activas)
  <2>1. /\ e.lead \in Leads /\ e.id \in Adjuntos
        /\ objeto[<<e.lead, e.id>>] = Nada /\ e.id \notin Ids(lead[e.lead].activas)
        /\ pc[p] = "subir" => e.id \notin Ids(ll[p].marcas)
    <3>1. CASE e \in auditoria
      <4>1. e.lead \in Leads /\ e.id \in Adjuntos BY <1>0, <1>2, <3>1 DEF TypeOK, Rechazos
      <4>2. pc[p] = "subir" => e.id \notin Ids(ll[p].marcas) BY <3>1, SecretosDe DEF Ids
      <4> QED BY <1>2, <3>1, <4>1, <4>2 DEF AuditoriaVeraz
    <3>2. CASE e \notin auditoria
      <4>1. Cierra(p) BY <1>0, <1>2, <3>2, OrigenEventos
      <4>2. /\ e \in [accion : Acciones, lead : {ll[p].lead}, id : Ids(ll[p].marcas)]
            /\ pc[p] = "auditar" /\ ll[p].op = "borrado" /\ ll[p].lead \in Leads
        <5>1. \A x \in auditoria' \ auditoria :
              /\ x \in [accion : Acciones, lead : {ll[p].lead}, id : Ids(ll[p].marcas)]
              /\ \/ x.accion = "adjunto_subido"
                 \/ x.accion = "adjunto_visto"
                 \/ x.accion = "adjunto_eliminado" /\ pc[p] = "auditar" /\ ll[p].op = "borrado"
          BY <1>0, <4>1, EfectoCierra
        <5>2. ll[p].lead \in Leads BY <1>0, <4>1, EfectoCierra
        <5> QED BY <1>2, <3>2, <5>1, <5>2
      <4>3. PICK m \in ll[p].marcas : e.id = m.id BY <4>2 DEF Ids
      <4>4. m.id \in Adjuntos BY <1>0, Campos
      <4> QED BY <4>2, <4>3, <4>4 DEF Quitadas
    <3> QED BY <3>1, <3>2
  <2>2. <<e.lead, e.id>> \in Claves BY <2>1 DEF Claves
  <2>3. objeto'[<<e.lead, e.id>>] = Nada BY <1>0, <2>1, <2>2, OrigenObjetos
  <2>4. lead'[e.lead].activas \subseteq lead[e.lead].activas
        \/ (pc[p] = "subir" /\ lead'[e.lead].activas = lead[e.lead].activas \cup ll[p].marcas)
    BY <1>0, <2>1, OrigenNotas
  <2> QED BY <2>1, <2>3, <2>4 DEF Ids
<1>3. ASSUME NEW e \in auditoria', e.accion = "adjunto_visto"
      PROVE  <<e.lead, e.id>> \in limpio'
  <2>0. limpio' = limpio BY Recuerda
  <2>1. CASE e \in auditoria BY <1>3, <2>0, <2>1 DEF AuditoriaVeraz
  <2>2. CASE e \notin auditoria
    <3>1. Cierra(p) BY <1>0, <1>3, <2>2, OrigenEventos
    <3>2. \A x \in auditoria' \ auditoria :
             \/ x.accion = "adjunto_subido"
             \/ x.accion = "adjunto_visto" /\ <<x.lead, x.id>> \in limpio
             \/ x.accion = "adjunto_eliminado"
      BY <1>0, <3>1, EfectoCierra
    <3> QED BY <1>3, <2>0, <2>2, <3>2
  <2> QED BY <2>1, <2>2
<1> QED BY <1>1, <1>2, <1>3 DEF AuditoriaVeraz, Ids

(***************************************************************************)
(* The theorems.                                                           *)
(***************************************************************************)
LEMMA InvInicial ==
  ASSUME Init
  PROVE  Inv
<1>1. TypeOK BY DEF Init, TypeOK, Libre, Marcas
<1>2. ll = [p \in Procesos |-> Libre] /\ pc = [p \in Procesos |-> "libre"]
        /\ Libre.op = "libre" /\ Libre.marcas = {} /\ Libre.subidos = {}
  BY DEF Init, Libre
<1>3. \A l \in Leads : lead[l].activas = {} /\ lead[l].eliminadas = {} BY DEF Init
<1>4. \A c \in Claves : objeto[c] = Nada BY DEF Init
<1>5. auditoria = {} BY DEF Init
<1>6. MarcaConObjeto BY <1>1, <1>3 DEF MarcaConObjeto
<1>7. ConDueno BY <1>4 DEF ConDueno
<1>8. AuditoriaVeraz /\ Rechazos BY <1>5 DEF AuditoriaVeraz, Rechazos
<1>9. Peticiones BY <1>2 DEF Peticiones, EnCurso
<1>10. Secretos /\ Quitadas /\ Subidas BY <1>2 DEF Secretos, Quitadas, Subidas, Ids
<1>11. Unicas BY <1>2, <1>3 DEF Unicas
<1> QED BY <1>6, <1>7, <1>8, <1>9, <1>10, <1>11 DEF Inv

LEMMA PasoInv ==
  ASSUME Inv, [Next]_vars
  PROVE  Inv'
<1>0. TypeOK BY DEF Inv, MarcaConObjeto
<1>1. CASE UNCHANGED vars
  BY <1>1 DEF vars, Inv, MarcaConObjeto, TypeOK, QuitandoObjeto, ConDueno, AuditoriaVeraz, Peticiones,
     EnCurso, Secretos, Secreto, Unicas, Subidas, Quitadas, Rechazos, Ids
<1>2. CASE Escanear \/ Asignar
  <2>1. /\ UNCHANGED <<objeto, auditoria, pc, ll, fallidos>> /\ limpio \subseteq limpio'
        /\ \A l \in Leads : /\ lead'[l].existe = lead[l].existe
                            /\ lead'[l].activas = lead[l].activas
                            /\ lead'[l].eliminadas = lead[l].eliminadas
    BY <1>0, <1>2, Entorno
  <2>2. TypeOK' BY <1>0, <1>2, TiposConservan DEF Inv, Next
  <2>3. MarcaConObjeto'
    BY <2>1, <2>2 DEF Inv, MarcaConObjeto, QuitandoObjeto
  <2>4. ConDueno'
    <3>1. \A c \in Claves : c[1] \in Leads BY DEF Claves
    <3> QED BY <2>1, <3>1 DEF Inv, ConDueno, Ids
  <2>5. AuditoriaVeraz'
    <3>1. \A e \in auditoria : e.lead \in Leads BY <1>0 DEF TypeOK
    <3> QED BY <2>1, <3>1 DEF Inv, AuditoriaVeraz, Ids
  <2>6. Peticiones' /\ Rechazos' BY <2>1 DEF Inv, Peticiones, EnCurso, Rechazos
  <2>7. Secretos' BY <2>1 DEF Inv, Secretos, Secreto, Ids
  <2>8. \A p \in Procesos : pc[p] # "libre" => ll[p].lead \in Leads
    BY DEF Inv, Peticiones, EnCurso
  <2>9. Unicas' BY <2>1, <2>8 DEF Inv, Unicas
  <2>10. Subidas' BY <2>1, <2>8 DEF Inv, Subidas
  <2>11. Quitadas' BY <2>1, <2>8 DEF Inv, Quitadas, Ids
  <2> QED BY <2>3, <2>4, <2>5, <2>6, <2>7, <2>9, <2>10, <2>11 DEF Inv
<1>3. CASE \E p \in Procesos : Paso(p)
  <2>1. PICK p \in Procesos : Paso(p) BY <1>3
  <2>2. TypeOK' BY <1>0, <1>3, TiposConservan DEF Inv, Next
  <2>3. MarcaConObjeto'
    <3>1. \A l \in Leads : \A m \in lead'[l].activas :
            objeto'[<<l, m.id>>] = m.tipo \/ QuitandoObjeto(l, m)' \/ m.id \in fallidos'
      BY <2>1, MarcaConserva
    <3> QED BY <2>2, <3>1 DEF MarcaConObjeto
  <2>4. ConDueno' BY <1>0, <2>1, ConDuenoConserva DEF Inv
  <2>5. AuditoriaVeraz' BY <2>1, AuditoriaConserva
  <2>6. Peticiones' BY <1>0, <2>1, PeticionesConservan DEF Inv
  <2>7. Rechazos' BY <1>0, <2>1, RechazosConservan DEF Inv
  <2>8. Secretos' BY <1>0, <2>1, SecretosConservan DEF Inv
  <2>9. Unicas' BY <1>0, <2>1, UnicasConservan DEF Inv
  <2>10. Subidas' BY <1>0, <2>1, SubidasConservan DEF Inv
  <2>11. Quitadas' BY <1>0, <2>1, QuitadasConservan DEF Inv
  <2> QED BY <2>3, <2>4, <2>5, <2>6, <2>7, <2>8, <2>9, <2>10, <2>11 DEF Inv
<1> QED BY <1>1, <1>2, <1>3 DEF Next

(* The inductive invariant holds in every reachable state.                  *)
THEOREM AdjuntosInvariante == Spec => []Inv
<1>1. Init => Inv BY InvInicial
<1>2. Inv /\ [Next]_vars => Inv' BY PasoInv
<1> QED BY <1>1, <1>2, PTL DEF Spec

(* A mark that a note shows has its object, of the type it says, unless the *)
(* call that deletes it is under way or a failure or a cleanup met it:      *)
(* upload-then-note and object-then-mark leave no other gap, whatever the   *)
(* number of instances, threads, users and files.                          *)
THEOREM AdjuntosMarca == Spec => []MarcaConObjeto
<1>1. Inv => MarcaConObjeto BY DEF Inv
<1> QED BY <1>1, AdjuntosInvariante, PTL

(* No object is left in the bucket without a mark or an upload under way,   *)
(* unless a failure or a cleanup of the lead met it.                        *)
THEOREM AdjuntosSinHuerfanos == Spec => []SinHuerfanos
<1>1. Inv => SinHuerfanos
  <2>1. SUFFICES ASSUME Inv PROVE SinHuerfanos OBVIOUS
  <2>2. \A q \in Lazos : pc[q] \in {"subir", "deshacer"} => ll[q].op = "nota"
    BY <2>1 DEF Inv, Peticiones, EnCurso, Procesos
  <2> QED BY <2>1, <2>2 DEF Inv, ConDueno, SinHuerfanos
<1> QED BY <1>1, AdjuntosInvariante, PTL

(* The audit of the attachments never tells what did not happen.            *)
THEOREM AdjuntosAuditoria == Spec => []AuditoriaVeraz
<1>1. Inv => AuditoriaVeraz BY DEF Inv
<1> QED BY <1>1, AdjuntosInvariante, PTL
================================================================================
