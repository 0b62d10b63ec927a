------------------------- MODULE IntakeLedger_proofs -------------------------
(***************************************************************************)
(* The promise of POST /api/v1/leads, proved for any number of keys,       *)
(* payloads and leads.                                                     *)
(***************************************************************************)
EXTENDS IntakeLedger, TLAPS

(* A lead belongs to the present life of its key or to an earlier one, and  *)
(* as long as that life lasts its record is in the table: this is why a new *)
(* lead of the same key belongs to a later one.                             *)
LeadConRegistro ==
  \A l \in Leads : leads[l] # Nada =>
    LET k == leads[l].clave IN
    /\ leads[l].vigencia <= vigencia[k]
    /\ leads[l].vigencia = vigencia[k] =>
         registro[k] # Nada /\ registro[k].vigencia = vigencia[k]

IInv == TypeOK /\ LeadConRegistro /\ UnLeadPorVigencia /\ RegistroFiel

(* Deleting records that have expired leaves typed records, and takes none  *)
(* of the present life of a key.                                            *)
LEMMA SinTipos ==
  ASSUME TypeOK, NEW b \in SUBSET Claves, b \subseteq Vencidas
  PROVE  /\ Sin(b) \in [Claves -> Registro \cup {Nada}]
         /\ \A k \in Claves : Sin(b)[k] # Nada => Sin(b)[k] = registro[k]
         /\ \A k \in Claves : registro[k] # Nada /\ registro[k].vigencia = vigencia[k]
              => Sin(b)[k] = registro[k]
<1>1. Sin(b) \in [Claves -> Registro \cup {Nada}]
  BY DEF TypeOK, Sin
<1>2. ASSUME NEW k \in Claves, registro[k] # Nada, registro[k].vigencia = vigencia[k]
      PROVE  k \notin b
  <2>1. registro[k] \in Registro /\ vigencia[k] \in Nat
    BY <1>2 DEF TypeOK
  <2> QED BY <1>2, <2>1 DEF Vencidas, Registro
<1> QED BY <1>1, <1>2 DEF Sin

LEMMA InicioIInv == Init => IInv
BY IntakeAssumption DEF Init, IInv, TypeOK, LeadConRegistro, UnLeadPorVigencia, RegistroFiel

LEMMA CrearIInv ==
  ASSUME IInv, NEW k \in Claves, NEW h \in Huellas, NEW l \in Leads, NEW b \in SUBSET Claves,
         Crear(k, h, l, b)
  PROVE  IInv'
<1> DEFINE nuevo == [clave |-> k, huella |-> h, vigencia |-> vigencia[k], vivo |-> TRUE]
           fila  == [huella |-> h, lead |-> l, vigencia |-> vigencia[k]]
<1>0. TypeOK /\ b \subseteq Vencidas BY DEF IInv, Crear
<1>1. /\ Sin(b) \in [Claves -> Registro \cup {Nada}]
      /\ \A j \in Claves : Sin(b)[j] # Nada => Sin(b)[j] = registro[j]
      /\ \A j \in Claves : registro[j] # Nada /\ registro[j].vigencia = vigencia[j]
           => Sin(b)[j] = registro[j]
  BY <1>0, SinTipos
<1>2. nuevo \in Lead /\ fila \in Registro /\ RutDe[h] \in Ruts
  BY <1>0, IntakeAssumption DEF TypeOK, Lead, Registro
<1>3. nuevo # Nada /\ fila # Nada
  BY <1>2, IntakeAssumption
<1>4. /\ leads[l] = Nada /\ Sin(b)[k] = Nada
      /\ leads' = [leads EXCEPT ![l] = nuevo]
      /\ registro' = [Sin(b) EXCEPT ![k] = fila]
      /\ personas' = personas \cup {RutDe[h]}
      /\ vigencia' = vigencia
  BY DEF Crear
<1>5. /\ leads'[l] = nuevo
      /\ \A m \in Leads : m # l => leads'[m] = leads[m]
      /\ registro'[k] = fila
      /\ \A j \in Claves : j # k => registro'[j] = Sin(b)[j]
  BY <1>0, <1>1, <1>4 DEF TypeOK
<1>6. TypeOK'
  BY <1>0, <1>1, <1>2, <1>4 DEF TypeOK
<1>7. ASSUME NEW m \in Leads, leads[m] # Nada, leads[m].clave = k
      PROVE  leads[m].vigencia # vigencia[k]
  BY <1>1, <1>4, <1>7 DEF IInv, LeadConRegistro
<1>8. LeadConRegistro'
  <2> SUFFICES ASSUME NEW m \in Leads, leads'[m] # Nada
               PROVE  /\ leads'[m].vigencia <= vigencia[leads'[m].clave]
                      /\ leads'[m].vigencia = vigencia[leads'[m].clave] =>
                           /\ registro'[leads'[m].clave] # Nada
                           /\ registro'[leads'[m].clave].vigencia = vigencia[leads'[m].clave]
    BY <1>4 DEF LeadConRegistro
  <2>1. CASE m = l
    <3>1. vigencia[k] \in Nat BY <1>0 DEF TypeOK
    <3> QED BY <1>3, <1>5, <2>1, <3>1
  <2>2. CASE m # l
    <3>1. leads'[m] = leads[m] /\ leads[m] # Nada /\ leads[m].clave \in Claves
      BY <1>0, <1>5, <2>2 DEF TypeOK, Lead
    <3>2. /\ leads[m].vigencia <= vigencia[leads[m].clave]
          /\ leads[m].vigencia = vigencia[leads[m].clave] =>
               /\ registro[leads[m].clave] # Nada
               /\ registro[leads[m].clave].vigencia = vigencia[leads[m].clave]
      BY <3>1 DEF IInv, LeadConRegistro
    <3>3. CASE leads[m].clave = k
      BY <1>7, <3>1, <3>2, <3>3
    <3>4. CASE leads[m].clave # k
      BY <1>1, <1>5, <3>1, <3>2, <3>4
    <3> QED BY <3>3, <3>4
  <2> QED BY <2>1, <2>2
<1>9. UnLeadPorVigencia'
  <2> SUFFICES ASSUME NEW m \in Leads, NEW n \in Leads, leads'[m] # Nada, leads'[n] # Nada,
                      leads'[m].clave = leads'[n].clave,
                      leads'[m].vigencia = leads'[n].vigencia
               PROVE  m = n
    BY DEF UnLeadPorVigencia
  <2>1. CASE m = l /\ n # l
    BY <1>5, <1>7, <2>1
  <2>2. CASE n = l /\ m # l
    BY <1>5, <1>7, <2>2
  <2>3. CASE m # l /\ n # l
    BY <1>5, <2>3 DEF IInv, UnLeadPorVigencia
  <2> QED BY <2>1, <2>2, <2>3
<1>10. RegistroFiel'
  <2> SUFFICES ASSUME NEW j \in Claves, registro'[j] # Nada
               PROVE  \E m \in Leads :
                        /\ leads'[m] # Nada
                        /\ leads'[m].clave = j /\ leads'[m].huella = registro'[j].huella
                        /\ leads'[m].vigencia = registro'[j].vigencia
                        /\ RutDe[leads'[m].huella] \in personas'
                        /\ registro'[j].lead = IF leads'[m].vivo THEN m ELSE Nada
    BY DEF RegistroFiel
  <2>1. CASE j = k
    <3> WITNESS l \in Leads
    <3> QED BY <1>3, <1>4, <1>5, <2>1
  <2>2. CASE j # k
    <3>1. registro[j] # Nada /\ registro'[j] = registro[j]
      BY <1>1, <1>5, <2>2
    <3>2. PICK m \in Leads :
             /\ leads[m] # Nada
             /\ leads[m].clave = j /\ leads[m].huella = registro[j].huella
             /\ leads[m].vigencia = registro[j].vigencia
             /\ RutDe[leads[m].huella] \in personas
             /\ registro[j].lead = IF leads[m].vivo THEN m ELSE Nada
      BY <3>1 DEF IInv, RegistroFiel
    <3>3. m # l BY <1>4, <3>2
    <3> QED BY <1>4, <1>5, <3>1, <3>2, <3>3
  <2> QED BY <2>1, <2>2
<1> QED BY <1>6, <1>8, <1>9, <1>10 DEF IInv

LEMMA LimpiarIInv ==
  ASSUME IInv, NEW b \in SUBSET Claves, Limpiar(b)
  PROVE  IInv'
<1>0. TypeOK /\ b \subseteq Vencidas BY DEF IInv, Limpiar
<1>1. /\ Sin(b) \in [Claves -> Registro \cup {Nada}]
      /\ \A j \in Claves : Sin(b)[j] # Nada => Sin(b)[j] = registro[j]
      /\ \A j \in Claves : registro[j] # Nada /\ registro[j].vigencia = vigencia[j]
           => Sin(b)[j] = registro[j]
  BY <1>0, SinTipos
<1>2. registro' = Sin(b) /\ leads' = leads /\ personas' = personas /\ vigencia' = vigencia
  BY DEF Limpiar
<1>3. TypeOK' BY <1>0, <1>1, <1>2 DEF TypeOK
<1>4. LeadConRegistro'
  <2>1. \A l \in Leads : leads[l] # Nada => leads[l].clave \in Claves
    BY <1>0 DEF TypeOK, Lead
  <2> QED BY <1>1, <1>2, <2>1 DEF IInv, LeadConRegistro
<1>5. UnLeadPorVigencia' BY <1>2 DEF IInv, UnLeadPorVigencia
<1>6. RegistroFiel'
  <2> SUFFICES ASSUME NEW j \in Claves, registro'[j] # Nada
               PROVE  \E m \in Leads :
                        /\ leads[m] # Nada
                        /\ leads[m].clave = j /\ leads[m].huella = registro'[j].huella
                        /\ leads[m].vigencia = registro'[j].vigencia
                        /\ RutDe[leads[m].huella] \in personas
                        /\ registro'[j].lead = IF leads[m].vivo THEN m ELSE Nada
    BY <1>2 DEF RegistroFiel
  <2>1. registro[j] # Nada /\ registro'[j] = registro[j] BY <1>1, <1>2
  <2> QED BY <2>1 DEF IInv, RegistroFiel
<1> QED BY <1>3, <1>4, <1>5, <1>6 DEF IInv

LEMMA BorrarIInv ==
  ASSUME IInv, NEW l \in Leads, Borrar(l)
  PROVE  IInv'
<1>0. TypeOK BY DEF IInv
<1>1. /\ leads[l] # Nada /\ leads[l].vivo
      /\ leads' = [leads EXCEPT ![l].vivo = FALSE]
      /\ registro' = [k \in Claves |->
           IF registro[k] # Nada /\ registro[k].lead = l
           THEN [registro[k] EXCEPT !.lead = Nada] ELSE registro[k]]
      /\ personas' = personas /\ vigencia' = vigencia
  BY DEF Borrar
<1>2. leads[l] \in Lead BY <1>0, <1>1 DEF TypeOK
<1>3. /\ leads'[l] \in Lead /\ leads'[l] # Nada
      /\ leads'[l].clave = leads[l].clave /\ leads'[l].huella = leads[l].huella
      /\ leads'[l].vigencia = leads[l].vigencia /\ leads'[l].vivo = FALSE
      /\ \A m \in Leads : m # l => leads'[m] = leads[m]
  <2>1. leads'[l] = [leads[l] EXCEPT !.vivo = FALSE] /\ \A m \in Leads : m # l => leads'[m] = leads[m]
    BY <1>0, <1>1 DEF TypeOK
  <2>2. leads'[l] \in Lead BY <1>2, <2>1 DEF Lead
  <2> QED BY <1>2, <2>1, <2>2, IntakeAssumption DEF Lead
<1>4. ASSUME NEW k \in Claves
      PROVE  /\ registro'[k] \in Registro \cup {Nada}
             /\ registro'[k] # Nada <=> registro[k] # Nada
             /\ registro[k] # Nada => /\ registro'[k].huella = registro[k].huella
                                      /\ registro'[k].vigencia = registro[k].vigencia
                                      /\ registro'[k].lead = IF registro[k].lead = l THEN Nada
                                                             ELSE registro[k].lead
  <2>1. CASE registro[k] = Nada
    BY <1>1, <2>1
  <2>2. CASE registro[k] # Nada
    <3>1. registro[k] \in Registro BY <1>0, <2>2 DEF TypeOK
    <3>2. [registro[k] EXCEPT !.lead = Nada] \in Registro BY <3>1 DEF Registro
    <3>3. [registro[k] EXCEPT !.lead = Nada] # Nada BY <3>2, IntakeAssumption
    <3> QED BY <1>1, <2>2, <3>1, <3>2, <3>3 DEF Registro
  <2> QED BY <2>1, <2>2
<1>5. TypeOK'
  <2>1. leads' \in [Leads -> Lead \cup {Nada}] BY <1>0, <1>1, <1>3 DEF TypeOK
  <2>2. registro' \in [Claves -> Registro \cup {Nada}] BY <1>1, <1>4
  <2> QED BY <1>0, <1>1, <2>1, <2>2 DEF TypeOK
<1>6. \A m \in Leads : /\ leads'[m] # Nada <=> leads[m] # Nada
                       /\ leads[m] # Nada => /\ leads'[m].clave = leads[m].clave
                                             /\ leads'[m].huella = leads[m].huella
                                             /\ leads'[m].vigencia = leads[m].vigencia
                                             /\ leads[m].clave \in Claves
  BY <1>0, <1>1, <1>3 DEF TypeOK, Lead
<1>7. LeadConRegistro' BY <1>1, <1>4, <1>6 DEF IInv, LeadConRegistro
<1>8. UnLeadPorVigencia' BY <1>6 DEF IInv, UnLeadPorVigencia
<1>9. RegistroFiel'
  <2> SUFFICES ASSUME NEW j \in Claves, registro'[j] # Nada
               PROVE  \E m \in Leads :
                        /\ leads'[m] # Nada
                        /\ leads'[m].clave = j /\ leads'[m].huella = registro'[j].huella
                        /\ leads'[m].vigencia = registro'[j].vigencia
                        /\ RutDe[leads'[m].huella] \in personas
                        /\ registro'[j].lead = IF leads'[m].vivo THEN m ELSE Nada
    BY <1>1 DEF RegistroFiel
  <2>1. PICK m \in Leads :
           /\ leads[m] # Nada
           /\ leads[m].clave = j /\ leads[m].huella = registro[j].huella
           /\ leads[m].vigencia = registro[j].vigencia
           /\ RutDe[leads[m].huella] \in personas
           /\ registro[j].lead = IF leads[m].vivo THEN m ELSE Nada
    BY <1>4 DEF IInv, RegistroFiel
  <2>2. registro'[j].lead = IF leads'[m].vivo THEN m ELSE Nada
    <3>1. CASE m = l
      BY <1>1, <1>3, <1>4, <2>1, <3>1
    <3>2. CASE m # l
      <4>1. registro[j].lead # l BY <2>1, <3>2, IntakeAssumption
      <4> QED BY <1>3, <1>4, <2>1, <3>2, <4>1
    <3> QED BY <3>1, <3>2
  <2>3. /\ leads'[m] # Nada
        /\ leads'[m].clave = j /\ leads'[m].huella = registro'[j].huella
        /\ leads'[m].vigencia = registro'[j].vigencia
        /\ RutDe[leads'[m].huella] \in personas
    BY <1>4, <1>6, <2>1
  <2> QED BY <2>2, <2>3
<1> QED BY <1>5, <1>7, <1>8, <1>9 DEF IInv

LEMMA VencerIInv ==
  ASSUME IInv, NEW k \in Claves, Vencer(k)
  PROVE  IInv'
<1>0. TypeOK BY DEF IInv
<1>1. /\ vigencia' = [vigencia EXCEPT ![k] = @ + 1]
      /\ leads' = leads /\ registro' = registro /\ personas' = personas
  BY DEF Vencer
<1>2. /\ vigencia'[k] = vigencia[k] + 1 /\ vigencia[k] \in Nat
      /\ \A j \in Claves : j # k => vigencia'[j] = vigencia[j]
  BY <1>0, <1>1 DEF TypeOK
<1>3. TypeOK' BY <1>0, <1>1, <1>2 DEF TypeOK
<1>4. LeadConRegistro'
  <2>1. \A l \in Leads : leads[l] # Nada => leads[l].clave \in Claves /\ leads[l].vigencia \in Nat
    BY <1>0 DEF TypeOK, Lead
  <2> QED BY <1>1, <1>2, <2>1 DEF IInv, LeadConRegistro
<1>5. UnLeadPorVigencia' BY <1>1 DEF IInv, UnLeadPorVigencia
<1>6. RegistroFiel' BY <1>1 DEF IInv, RegistroFiel
<1> QED BY <1>3, <1>4, <1>5, <1>6 DEF IInv

(* IInv is inductive.                                                       *)
LEMMA PasoIInv ==
  ASSUME IInv, [Next]_intake
  PROVE  IInv'
<1>1. CASE UNCHANGED intake
  BY <1>1 DEF intake, IInv, TypeOK, LeadConRegistro, UnLeadPorVigencia, RegistroFiel
<1>2. CASE \E k \in Claves, h \in Huellas, l \in Leads, b \in SUBSET Claves : Crear(k, h, l, b)
  BY <1>2, CrearIInv
<1>3. CASE \E b \in SUBSET Claves : Limpiar(b)
  BY <1>3, LimpiarIInv
<1>4. CASE \E l \in Leads : Borrar(l)
  BY <1>4, BorrarIInv
<1>5. CASE \E k \in Claves : Vencer(k)
  BY <1>5, VencerIInv
<1> QED BY <1>1, <1>2, <1>3, <1>4, <1>5 DEF Next

(* The records of the present life of every key, and no others, name the    *)
(* lead the key created (create_solicitud_idempotent).                      *)
THEOREM IntakeInvariante == Spec => []IInv
BY InicioIInv, PasoIInv, PTL DEF Spec

(* A key creates at most one lead until it expires (create_solicitud_idempotent). *)
THEOREM IntakeUnLead == Spec => []UnLeadPorVigencia
BY IntakeInvariante, PTL DEF IInv

(* Every record names the very lead its key and payload created, or the     *)
(* deletion of that lead (003_create_api_idempotency.sql, ON DELETE SET NULL). *)
THEOREM IntakeRegistroFiel == Spec => []RegistroFiel
BY IntakeInvariante, PTL DEF IInv
=============================================================================
