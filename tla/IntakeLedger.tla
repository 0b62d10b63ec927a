----------------------------- MODULE IntakeLedger -----------------------------
(***************************************************************************)
(* What POST /api/v1/leads promises, each request in one step: within the  *)
(* 24 hours an Idempotency-Key lives, the requests that carry it create    *)
(* one lead and all of them are answered with it.  LeadIntake, where each  *)
(* request is a transaction of several statements, implements this.        *)
(***************************************************************************)
EXTENDS IntakeData

VARIABLES
  personas,  \* rut of every row of tpi.personas
  leads,     \* leads created; vivo is FALSE once delete_test_lead removed the row
  registro,  \* tpi.api_idempotency
  vigencia   \* how many times the row of each key has expired

intake == <<personas, leads, registro, vigencia>>

TypeOK ==
  /\ personas \subseteq Ruts
  /\ leads \in [Leads -> Lead \cup {Nada}]
  /\ registro \in [Claves -> Registro \cup {Nada}]
  /\ vigencia \in [Claves -> Nat]

Init ==
  /\ personas = {}
  /\ leads = [l \in Leads |-> Nada]
  /\ registro = [k \in Claves |-> Nada]
  /\ vigencia = [k \in Claves |-> 0]

(* expires_at <= NOW() *)
Vencidas == {k \in Claves : registro[k] # Nada /\ registro[k].vigencia < vigencia[k]}

Sin(borradas) == [k \in Claves |-> IF k \in borradas THEN Nada ELSE registro[k]]

(* A first request: the lead and its key, and some expired keys go. *)
Crear(k, h, l, borradas) ==
  /\ borradas \subseteq Vencidas
  /\ Sin(borradas)[k] = Nada
  /\ leads[l] = Nada
  /\ leads' = [leads EXCEPT ![l] =
       [clave |-> k, huella |-> h, vigencia |-> vigencia[k], vivo |-> TRUE]]
  /\ registro' = [Sin(borradas) EXCEPT ![k] =
       [huella |-> h, lead |-> l, vigencia |-> vigencia[k]]]
  /\ personas' = personas \cup {RutDe[h]}
  /\ UNCHANGED vigencia

(* A repeated request only cleans expired keys. *)
Limpiar(borradas) ==
  /\ borradas \subseteq Vencidas
  /\ registro' = Sin(borradas)
  /\ UNCHANGED <<personas, leads, vigencia>>

(* delete_test_lead; the foreign key of the record is ON DELETE SET NULL. *)
Borrar(l) ==
  /\ leads[l] # Nada /\ leads[l].vivo
  /\ leads' = [leads EXCEPT ![l].vivo = FALSE]
  /\ registro' = [k \in Claves |->
       IF registro[k] # Nada /\ registro[k].lead = l
       THEN [registro[k] EXCEPT !.lead = Nada] ELSE registro[k]]
  /\ UNCHANGED <<personas, vigencia>>

(* 24 hours go by. *)
Vencer(k) ==
  /\ registro[k] # Nada /\ registro[k].vigencia = vigencia[k]
  /\ vigencia[k] < MaxVigencias
  /\ vigencia' = [vigencia EXCEPT ![k] = @ + 1]
  /\ UNCHANGED <<personas, leads, registro>>

Next ==
  \/ \E k \in Claves, h \in Huellas, l \in Leads, b \in SUBSET Claves : Crear(k, h, l, b)
  \/ \E b \in SUBSET Claves : Limpiar(b)
  \/ \E l \in Leads : Borrar(l)
  \/ \E k \in Claves : Vencer(k)

Spec == Init /\ [][Next]_intake

-----------------------------------------------------------------------------
(* A key creates at most one lead until it expires, however many requests   *)
(* carry it and even if the lead is deleted meanwhile.                      *)
UnLeadPorVigencia ==
  \A l, m \in Leads :
    leads[l] # Nada /\ leads[m] # Nada /\ leads[l].clave = leads[m].clave
      /\ leads[l].vigencia = leads[m].vigencia => l = m

(* What a replay would be answered with is a lead that exists, and the one  *)
(* created with that key and that payload for a person on record; a record  *)
(* without lead is the trace of a deleted lead, never of a half-made one.   *)
RegistroFiel ==
  \A k \in Claves : registro[k] # Nada =>
    \E l \in Leads :
      /\ leads[l] # Nada
      /\ leads[l].clave = k /\ leads[l].huella = registro[k].huella
      /\ leads[l].vigencia = registro[k].vigencia
      /\ RutDe[leads[l].huella] \in personas
      /\ registro[k].lead = IF leads[l].vivo THEN l ELSE Nada
=============================================================================
