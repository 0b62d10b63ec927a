------------------------------ MODULE LeadIntake ------------------------------
(***************************************************************************)
(* Concurrent calls of registrar_solicitud_idempotente: each one is the    *)
(* transaction of create_solicitud_idempotent, statement by statement      *)
(* under READ COMMITTED, followed by the publication of the lead-created   *)
(* event.  Clients repeat a request when they got no answer, and may reuse *)
(* a key with other data.                                                  *)
(***************************************************************************)
EXTENDS IntakeData, Sequences, SequencesExt

CONSTANTS
  Procs,       \* calls in the threadpool of the API
  Peticiones,  \* the key and payload pairs each client sends, and sends again
  Borrables    \* leads the DEV cleanup may delete

Peticion == [clave : Claves, huella : Huellas]

ASSUME PeticionesAssumption ==
  Peticiones \in [Procs -> SUBSET Peticion] /\ Borrables \subseteq Leads

(* The rows of a table and the threads of a process are finitely many.      *)
ASSUME FinitudAssumption ==
  IsFiniteSet(Claves) /\ IsFiniteSet(Leads) /\ IsFiniteSet(Procs)

Pasos == {"libre", "limpiar", "reservar", "leer", "bloquear", "persona",
          "insertar", "confirmar", "publicar"}

(* What a client is told: 201 with a lead, 409, or the 500 of a replay      *)
(* whose result could not be found.                                         *)
Respuesta == [clave : Claves, huella : Huellas, tipo : {"ok", "conflicto", "sin_resultado"},
              lead : Leads \cup {Nada}]

VARIABLES
  personas, leads, registro, vigencia,  \* committed rows, as in IntakeLedger
  pc,          \* the statement each call runs next
  pet,         \* the request each call serves
  porLimpiar,  \* expired rows the DELETE of each call has still to visit
  limpias,     \* keys whose rows the open transaction of each call deleted
  vista,       \* generation of the row the SELECT ... FOR UPDATE is after
  nueva,       \* whether the call inserted the persona
  hecho,       \* the lead the call committed
  resp,        \* what the last request of each call was answered
  avisos       \* lead-created events published for each lead

intake == <<personas, leads, registro, vigencia>>
llamadas == <<pc, pet, porLimpiar, limpias, vista, nueva, hecho>>
vars == <<intake, llamadas, resp, avisos>>

I == INSTANCE IntakeLedger WITH
       personas <- personas, leads <- leads, registro <- registro, vigencia <- vigencia

TypeOK ==
  /\ I!TypeOK
  /\ pc \in [Procs -> Pasos]
  /\ \A p \in Procs : pet[p] \in Peticiones[p] \cup {Nada}
  /\ porLimpiar \in [Procs -> Seq(Claves \X Nat)]
  /\ limpias \in [Procs -> SUBSET Claves]
  /\ vista \in [Procs -> Nat \cup {Nada}]
  /\ nueva \in [Procs -> BOOLEAN]
  /\ hecho \in [Procs -> Leads \cup {Nada}]
  /\ resp \in [Procs -> Respuesta \cup {Nada}]
  /\ avisos \in [Leads -> Nat]

Init ==
  /\ I!Init
  /\ pc = [p \in Procs |-> "libre"]
  /\ pet = [p \in Procs |-> Nada]
  /\ porLimpiar = [p \in Procs |-> <<>>]
  /\ limpias = [p \in Procs |-> {}]
  /\ vista = [p \in Procs |-> Nada]
  /\ nueva = [p \in Procs |-> FALSE]
  /\ hecho = [p \in Procs |-> Nada]
  /\ resp = [p \in Procs |-> Nada]
  /\ avisos = [l \in Leads |-> 0]

-----------------------------------------------------------------------------
(* Who holds what until the end of its transaction.                         *)
Reservo(q) == pc[q] \in {"persona", "insertar", "confirmar"}

Reservando(p, k) == {q \in Procs \ {p} : Reservo(q) /\ pet[q].clave = k}
Limpiando(p, k) == {q \in Procs \ {p} : k \in limpias[q]}
InsertandoRut(p, rut) == {q \in Procs \ {p} : nueva[q] /\ RutDe[pet[q].huella] = rut}

Ir(p, paso) == pc' = [pc EXCEPT ![p] = paso]

(* Faulty: the rows the transaction deleted stay locked when it ends.       *)
SoltarSinRollback(p) ==
  /\ Ir(p, "libre")
  /\ pet' = [pet EXCEPT ![p] = Nada]
  /\ porLimpiar' = [porLimpiar EXCEPT ![p] = <<>>]
  /\ vista' = [vista EXCEPT ![p] = Nada]
  /\ nueva' = [nueva EXCEPT ![p] = FALSE]
  /\ hecho' = [hecho EXCEPT ![p] = Nada]
  /\ UNCHANGED limpias

(* The end of the transaction and of the call, whatever the outcome. *)
Soltar(p) ==
  /\ Ir(p, "libre")
  /\ pet' = [pet EXCEPT ![p] = Nada]
  /\ porLimpiar' = [porLimpiar EXCEPT ![p] = <<>>]
  /\ limpias' = [limpias EXCEPT ![p] = {}]
  /\ vista' = [vista EXCEPT ![p] = Nada]
  /\ nueva' = [nueva EXCEPT ![p] = FALSE]
  /\ hecho' = [hecho EXCEPT ![p] = Nada]

Responder(p, tipo, l) ==
  resp' = [resp EXCEPT ![p] =
    [clave |-> pet[p].clave, huella |-> pet[p].huella, tipo |-> tipo, lead |-> l]]

Abortar(p) == Soltar(p) /\ UNCHANGED <<intake, resp, avisos>>

(* An answer without effects: the transaction is rolled back. *)
Rechazar(p, tipo) == Soltar(p) /\ Responder(p, tipo, Nada) /\ UNCHANGED <<intake, avisos>>

-----------------------------------------------------------------------------
(* A call begins and its DELETE picks the rows that have expired, in an     *)
(* order SQL leaves open.  Ids for the leads of all open calls are left.    *)
Pedir(p, r) ==
  /\ pc[p] = "libre"
  /\ Cardinality({l \in Leads : leads[l] = Nada}) > Cardinality({q \in Procs : pc[q] # "libre"})
  /\ pet' = [pet EXCEPT ![p] = r]
  /\ \E s \in SetToSeqs({<<k, registro[k].vigencia>> : k \in I!Vencidas}) :
       /\ porLimpiar' = [porLimpiar EXCEPT ![p] = s]
       /\ Ir(p, IF s = <<>> THEN "reservar" ELSE "limpiar")
  /\ resp' = [resp EXCEPT ![p] = Nada]
  /\ UNCHANGED <<intake, limpias, vista, nueva, hecho, avisos>>

(* Faulty: the DELETE skips the rows others are deleting.                   *)
LimpiarSinEsperar(p) ==
  LET s == porLimpiar[p]
      k == Head(s)[1]
      queda == registro[k] # Nada /\ registro[k].vigencia = Head(s)[2] IN
  /\ pc[p] = "limpiar"
  /\ limpias' = [limpias EXCEPT ![p] = IF Limpiando(p, k) = {} /\ queda THEN @ \cup {k} ELSE @]
  /\ porLimpiar' = [porLimpiar EXCEPT ![p] = Tail(s)]
  /\ Ir(p, IF Len(s) = 1 THEN "reservar" ELSE "limpiar")
  /\ UNCHANGED <<intake, pet, vista, nueva, hecho, resp, avisos>>

(* One row of DELETE ... WHERE expires_at <= NOW(): wait for whoever is     *)
(* deleting it and delete it if it is still there.                          *)
LimpiarFila(p) ==
  LET s == porLimpiar[p]
      k == Head(s)[1] IN
  /\ pc[p] = "limpiar"
  /\ Limpiando(p, k) = {}
  /\ limpias' = [limpias EXCEPT ![p] =
       IF registro[k] # Nada /\ registro[k].vigencia = Head(s)[2] THEN @ \cup {k} ELSE @]
  /\ porLimpiar' = [porLimpiar EXCEPT ![p] = Tail(s)]
  /\ Ir(p, IF Len(s) = 1 THEN "reservar" ELSE "limpiar")
  /\ UNCHANGED <<intake, pet, vista, nueva, hecho, resp, avisos>>

(* Faulty: a SELECT looks for the key before a plain INSERT.                *)
ReservarSinEsperar(p) ==
  LET k == pet[p].clave IN
  /\ pc[p] = "reservar"
  /\ Ir(p, IF registro[k] # Nada /\ k \notin limpias[p] THEN "leer" ELSE "persona")
  /\ UNCHANGED <<intake, pet, porLimpiar, limpias, vista, nueva, hecho, resp, avisos>>

(* INSERT ... ON CONFLICT DO NOTHING waits for whoever is inserting the key *)
(* or deleting its row, and does nothing if the key is taken.               *)
Reservar(p) ==
  LET k == pet[p].clave IN
  /\ pc[p] = "reservar"
  /\ Reservando(p, k) = {} /\ Limpiando(p, k) = {}
  /\ Ir(p, IF registro[k] # Nada /\ k \notin limpias[p] THEN "leer" ELSE "persona")
  /\ UNCHANGED <<intake, pet, porLimpiar, limpias, vista, nueva, hecho, resp, avisos>>

(* SELECT ... FOR UPDATE of a taken key finds the row it is after ...       *)
Leer(p) ==
  LET k == pet[p].clave IN
  /\ pc[p] = "leer"
  /\ IF registro[k] = Nada
     THEN Rechazar(p, "sin_resultado")
     ELSE /\ vista' = [vista EXCEPT ![p] = registro[k].vigencia]
          /\ Ir(p, "bloquear")
          /\ UNCHANGED <<intake, pet, porLimpiar, limpias, nueva, hecho, resp, avisos>>

(* Faulty: the fingerprint is not compared.                                 *)
BloquearSinHuella(p) ==
  LET k == pet[p].clave IN
  /\ pc[p] = "bloquear"
  /\ Limpiando(p, k) = {}
  /\ IF registro[k] = Nada \/ registro[k].vigencia # vista[p] \/ registro[k].lead = Nada
     THEN Rechazar(p, "sin_resultado")
     ELSE /\ registro' = I!Sin(limpias[p])
          /\ Responder(p, "ok", registro[k].lead)
          /\ Soltar(p)
          /\ UNCHANGED <<personas, leads, vigencia, avisos>>

(* Faulty: the event is published whether or not the lead is new.           *)
BloquearYAvisar(p) ==
  LET k == pet[p].clave IN
  /\ pc[p] = "bloquear"
  /\ Limpiando(p, k) = {}
  /\ IF registro[k] = Nada \/ registro[k].vigencia # vista[p]
     THEN Rechazar(p, "sin_resultado")
     ELSE IF registro[k].huella # pet[p].huella
     THEN Rechazar(p, "conflicto")
     ELSE IF registro[k].lead = Nada
     THEN Rechazar(p, "sin_resultado")
     ELSE /\ registro' = I!Sin(limpias[p])
          /\ Responder(p, "ok", registro[k].lead)
          /\ Soltar(p)
          /\ avisos' = [avisos EXCEPT ![registro[k].lead] = @ + 1]
          /\ UNCHANGED <<personas, leads, vigencia>>

(* ... waits for whoever is deleting it, and does not see another row that  *)
(* takes its place.  Nothing else is awaited before the commit and the      *)
(* answer, which belong to the same step.                                   *)
Bloquear(p) ==
  LET k == pet[p].clave IN
  /\ pc[p] = "bloquear"
  /\ Limpiando(p, k) = {}
  /\ IF registro[k] = Nada \/ registro[k].vigencia # vista[p]
     THEN Rechazar(p, "sin_resultado")
     ELSE IF registro[k].huella # pet[p].huella
     THEN Rechazar(p, "conflicto")
     ELSE IF registro[k].lead = Nada
     THEN Rechazar(p, "sin_resultado")
     ELSE /\ registro' = I!Sin(limpias[p])
          /\ Responder(p, "ok", registro[k].lead)
          /\ Soltar(p)
          /\ UNCHANGED <<personas, leads, vigencia, avisos>>

(* SELECT id_persona ... WHERE rut *)
BuscarPersona(p) ==
  /\ pc[p] = "persona"
  /\ Ir(p, IF RutDe[pet[p].huella] \in personas THEN "confirmar" ELSE "insertar")
  /\ UNCHANGED <<intake, pet, porLimpiar, limpias, vista, nueva, hecho, resp, avisos>>

(* INSERT INTO tpi.personas: the unique rut waits for whoever is inserting  *)
(* it too, and fails the whole call if that one committed.                  *)
InsertarPersona(p) ==
  LET rut == RutDe[pet[p].huella] IN
  /\ pc[p] = "insertar"
  /\ InsertandoRut(p, rut) = {}
  /\ IF rut \in personas
     THEN Abortar(p)
     ELSE /\ nueva' = [nueva EXCEPT ![p] = TRUE]
          /\ Ir(p, "confirmar")
          /\ UNCHANGED <<intake, pet, porLimpiar, limpias, vista, hecho, resp, avisos>>

(* gen_random_uuid gives an id nobody had; which one makes no difference.   *)
LeadNuevo == CHOOSE l \in Leads : leads[l] = Nada

(* Faulty: the lead is committed before its record.                         *)
ConfirmarSinRegistro(p) ==
  LET k == pet[p].clave IN
  /\ pc[p] = "confirmar"
  /\ leads' = [leads EXCEPT ![LeadNuevo] =
       [clave |-> k, huella |-> pet[p].huella, vigencia |-> vigencia[k], vivo |-> TRUE]]
  /\ registro' = I!Sin(limpias[p])
  /\ hecho' = [hecho EXCEPT ![p] = LeadNuevo]
  /\ personas' = personas \cup {RutDe[pet[p].huella]}
  /\ limpias' = [limpias EXCEPT ![p] = {}]
  /\ nueva' = [nueva EXCEPT ![p] = FALSE]
  /\ Ir(p, "publicar")
  /\ UNCHANGED <<vigencia, pet, porLimpiar, vista, resp, avisos>>

(* The lead, its consents, UPDATE ... SET lead_id and conn.commit(). *)
Confirmar(p) ==
  LET k == pet[p].clave IN
  /\ pc[p] = "confirmar"
  /\ leads' = [leads EXCEPT ![LeadNuevo] =
       [clave |-> k, huella |-> pet[p].huella, vigencia |-> vigencia[k], vivo |-> TRUE]]
  /\ registro' = [I!Sin(limpias[p]) EXCEPT ![k] =
       [huella |-> pet[p].huella, lead |-> LeadNuevo, vigencia |-> vigencia[k]]]
  /\ hecho' = [hecho EXCEPT ![p] = LeadNuevo]
  /\ personas' = personas \cup {RutDe[pet[p].huella]}
  /\ limpias' = [limpias EXCEPT ![p] = {}]
  /\ nueva' = [nueva EXCEPT ![p] = FALSE]
  /\ Ir(p, "publicar")
  /\ UNCHANGED <<vigencia, pet, porLimpiar, vista, resp, avisos>>

(* _publish_lead_created_event: best effort, after the commit, and the 201. *)
Publicar(p) ==
  /\ pc[p] = "publicar"
  /\ avisos' \in {avisos, [avisos EXCEPT ![hecho[p]] = @ + 1]}
  /\ Responder(p, "ok", hecho[p])
  /\ Soltar(p)
  /\ UNCHANGED intake

-----------------------------------------------------------------------------
EsperaA(p) ==
  CASE pc[p] = "limpiar"  -> Limpiando(p, Head(porLimpiar[p])[1])
    [] pc[p] = "reservar" -> Reservando(p, pet[p].clave) \cup Limpiando(p, pet[p].clave)
    [] pc[p] = "bloquear" -> Limpiando(p, pet[p].clave)
    [] pc[p] = "insertar" -> InsertandoRut(p, RutDe[pet[p].huella])
    [] OTHER              -> {}

(* p waits, through others, for itself. *)
EnCiclo(p) ==
  \A S \in SUBSET Procs :
    (EsperaA(p) \subseteq S /\ \A q \in S : EsperaA(q) \subseteq S) => p \in S

(* Postgres aborts one transaction of the cycle; the client gets a 500. *)
DetectarInterbloqueo(p) == EnCiclo(p) /\ Abortar(p)

(* The connection or the process is lost: before the commit nothing         *)
(* happened, after it the event and the answer are lost.                    *)
Caida(p) == pc[p] # "libre" /\ Abortar(p)

(* delete_test_lead, whose own wait for the record is over when it commits. *)
Borrar(l) ==
  /\ l \in Borrables
  /\ \A k \in Claves : registro[k] # Nada /\ registro[k].lead = l =>
       \A q \in Procs : k \notin limpias[q]
  /\ I!Borrar(l)
  /\ UNCHANGED <<llamadas, resp, avisos>>

Vencer(k) == I!Vencer(k) /\ UNCHANGED <<llamadas, resp, avisos>>

Paso(p) ==
  \/ LimpiarFila(p)
  \/ Reservar(p)
  \/ Leer(p)
  \/ Bloquear(p)
  \/ BuscarPersona(p)
  \/ InsertarPersona(p)
  \/ Confirmar(p)
  \/ Publicar(p)

Next ==
  \/ \E p \in Procs :
       \/ \E r \in Peticiones[p] : Pedir(p, r)
       \/ Paso(p)
       \/ DetectarInterbloqueo(p)
       \/ Caida(p)
  \/ \E l \in Leads : Borrar(l)
  \/ \E k \in Claves : Vencer(k)

Spec == Init /\ [][Next]_vars

(* Clients need not send anything and nothing has to fail or expire.        *)
(* Postgres runs a statement that waits for nobody, serves the waiters of a *)
(* row or of a unique key from a queue, and looks for deadlocks.            *)
Fairness ==
  /\ \A p \in Procs : SF_vars(Paso(p))
  /\ WF_vars(\E p \in Procs : DetectarInterbloqueo(p))

FairSpec == Spec /\ Fairness

-----------------------------------------------------------------------------
(* A key creates at most one lead until it expires, however many calls      *)
(* carry it at once and however often they fail and are sent again.         *)
UnLeadPorVigencia == I!UnLeadPorVigencia

(* Every client that is told a lead is told one created with its own key    *)
(* and data, and is told of a conflict only if other data came first.       *)
RespuestasCoherentes ==
  /\ TypeOK
  /\ \A r \in {resp[p] : p \in Procs} \ {Nada} :
       /\ r.tipo = "ok" => /\ leads[r.lead] # Nada
                           /\ leads[r.lead].clave = r.clave /\ leads[r.lead].huella = r.huella
       /\ r.tipo = "conflicto" => \E l \in Leads :
            leads[l] # Nada /\ leads[l].clave = r.clave /\ leads[l].huella # r.huella

(* docs/DECISIONES_TECNICAS.md: the event is published once, after the      *)
(* first commit: never again by a replay, never for a lead rolled back, and *)
(* while a call has it still to do nobody else has done it.                 *)
AvisoUnicoTrasCommit ==
  /\ \A l \in Leads : avisos[l] <= 1 /\ (avisos[l] = 1 => leads[l] # Nada)
  /\ \A p \in Procs : pc[p] = "publicar" => leads[hecho[p]] # Nada /\ avisos[hecho[p]] = 0

(* Keys, replays and personas are always locked in the same order: a cycle  *)
(* of waits needs a call that is still deleting expired keys.               *)
SoloLaLimpiezaInterbloquea ==
  \A p \in Procs : EnCiclo(p) => \E q \in Procs : pc[q] = "limpiar" /\ EnCiclo(q)

(* The calls together behave as the promise, one step per request. *)
ImplementaIntake == I!Spec

(* Every call ends. *)
TodaLlamadaTermina == \A p \in Procs : (pc[p] # "libre") ~> (pc[p] = "libre")

(* docs/DECISIONES_TECNICAS.md:26: "Same key plus same payload returns the  *)
(* existing result".                                                        *)
RepeticionDevuelveResultado ==
  \A p \in Procs : resp[p] # Nada => resp[p].tipo # "sin_resultado"
=============================================================================
