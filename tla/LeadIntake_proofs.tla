--------------------------- MODULE LeadIntake_proofs ---------------------------
(***************************************************************************)
(* The intake transactions implement the promise of IntakeLedger, and what *)
(* their clients are told is right, for any number of calls, keys and      *)
(* leads; and the way in to them (PuertaApi) lets through what it should.  *)
(***************************************************************************)
EXTENDS LeadIntake, PuertaApi, FiniteSetTheorems, SequenceTheorems, TLAPS

IP == INSTANCE IntakeLedger_proofs

(***************************************************************************)
(* What a step does, as the effects that the invariants tell apart.        *)
(***************************************************************************)
Terminos == {"libre", "publicar"}

(* A statement that only reads, or inserts a persona.                       *)
Avanza(p, s) ==
  /\ \/ pc[p] = "leer" /\ s = "bloquear"
     \/ pc[p] \in {"persona", "insertar"} /\ s \in {"insertar", "confirmar"}
  /\ pc' = [pc EXCEPT ![p] = s]
  /\ vista' \in [Procs -> Nat \cup {Nada}]
  /\ nueva' \in [Procs -> BOOLEAN]
  /\ \A q \in Procs : nueva'[q] => nueva[q] \/ (q = p /\ s = "confirmar")
  /\ UNCHANGED <<intake, pet, porLimpiar, limpias, hecho, resp, avisos>>

(* The end of a call, whose transaction was committed or rolled back.       *)
Termina(p) ==
  /\ pc[p] # "libre"
  /\ Soltar(p)
  /\ registro' = registro \/ registro' = I!Sin(limpias[p])
  /\ resp' \in [Procs -> Respuesta \cup {Nada}]
  /\ avisos' \in [Leads -> Nat]
  /\ UNCHANGED <<personas, leads, vigencia>>

(***************************************************************************)
(* The inductive invariant.                                                *)
(***************************************************************************)
(* What each call has, by the statement it is at.                           *)
CadaLlamada ==
  /\ pet \in [Procs -> Peticion \cup {Nada}]
  /\ \A p \in Procs :
       /\ pc[p] # "libre" => pet[p] \in Peticiones[p]
       /\ pc[p] = "limpiar" <=> porLimpiar[p] # <<>>
       /\ pc[p] \in Terminos => limpias[p] = {}
       /\ nueva[p] => pc[p] = "confirmar"

(* A row that a call has deleted, or is about to look at, has expired.      *)
SoloVencidas ==
  \A p \in Procs :
    /\ limpias[p] \subseteq I!Vencidas
    /\ \A i \in 1 .. Len(porLimpiar[p]) :
         porLimpiar[p][i][2] < vigencia[porLimpiar[p][i][1]]

(* A row is deleted by one call, a key is reserved by one call, which found *)
(* it free or deleted its row.                                              *)
Exclusivas ==
  \A p \in Procs :
    /\ \A q \in Procs \ {p} :
         /\ limpias[p] \cap limpias[q] = {}
         /\ Reservo(p) /\ Reservo(q) => pet[p].clave # pet[q].clave
    /\ Reservo(p) => registro[pet[p].clave] = Nada \/ pet[p].clave \in limpias[p]

(* A call that has committed knows its lead, which is nobody else's.        *)
Publicando ==
  \A p \in Procs : pc[p] = "publicar" =>
    /\ hecho[p] \in Leads /\ leads[hecho[p]] # Nada
    /\ leads[hecho[p]].clave = pet[p].clave /\ leads[hecho[p]].huella = pet[p].huella
    /\ \A q \in Procs \ {p} : pc[q] = "publicar" => hecho[q] # hecho[p]

(* Every call that may still insert a lead will find an id.                 *)
Libres == {l \in Leads : leads[l] = Nada}
Pendientes == {q \in Procs : pc[q] \notin Terminos}
HayIds == Cardinality(Pendientes) <= Cardinality(Libres)

Base ==
  TypeOK /\ IP!IInv /\ CadaLlamada /\ SoloVencidas /\ Exclusivas /\ Publicando /\ HayIds

(***************************************************************************)
(* Lemmas on the operators.                                                *)
(***************************************************************************)
LEMMA SinFilas ==
  ASSUME TypeOK, NEW b \in SUBSET Claves
  PROVE  /\ I!Sin(b) \in [Claves -> Registro \cup {Nada}]
         /\ \A k \in Claves : I!Sin(b)[k] = IF k \in b THEN Nada ELSE registro[k]
BY DEF I!Sin, TypeOK, I!TypeOK, Registro, I!Registro

(* The rows a DELETE visits: all those that have expired, each once.        *)
LEMMA FilasDelDelete ==
  ASSUME TypeOK, NEW s \in SetToSeqs({<<k, registro[k].vigencia>> : k \in I!Vencidas})
  PROVE  /\ s \in Seq(Claves \X Nat)
         /\ \A i \in 1 .. Len(s) : \E k \in I!Vencidas : s[i] = <<k, registro[k].vigencia>>
         /\ \A k \in I!Vencidas : \E i \in 1 .. Len(s) : s[i] = <<k, registro[k].vigencia>>
<1> DEFINE V == I!Vencidas
           S == {<<k, registro[k].vigencia>> : k \in V}
           f == [k \in V |-> <<k, registro[k].vigencia>>]
           n == Cardinality(S)
<1>1. IsFiniteSet(V)
  BY FinitudAssumption, FS_Subset DEF I!Vencidas
<1>2. f \in Surjection(V, S)
  BY DEF Surjection
<1>3. IsFiniteSet(S) /\ n \in Nat
  BY <1>1, <1>2, FS_Surjection, FS_CardinalityType
<1>4. S \subseteq Claves \X Nat
  BY DEF I!Vencidas, TypeOK, I!TypeOK, I!Registro
<1>5. s \in [1 .. n -> S] /\ \A i, j \in 1 .. n : i # j => s[i] # s[j]
  BY DEF SetToSeqs
<1> HIDE DEF S, V, f
<1>6. s \in Injection(1 .. n, S)
  BY <1>5 DEF Injection, IsInjective
<1>7. Cardinality(1 .. n) = n
  BY <1>3, FS_Interval
<1>8. s \in Surjection(1 .. n, S)
  BY <1>3, <1>6, <1>7, FS_Injection
<1>9. s \in Seq(S) /\ Len(s) = n
  BY <1>3, <1>5
<1>10. s \in Seq(Claves \X Nat)
  BY <1>4, <1>9
<1>11. \A i \in 1 .. Len(s) : s[i] \in S
  BY <1>5, <1>9
<1>12. \A x \in S : \E i \in 1 .. Len(s) : s[i] = x
  BY <1>8, <1>9 DEF Surjection
<1> QED
  BY <1>10, <1>11, <1>12 DEF S, V

LEMMA ColaDe ==
  ASSUME NEW T, NEW s \in Seq(T), s # <<>>
  PROVE  /\ Head(s) = s[1] /\ 1 \in 1 .. Len(s)
         /\ Tail(s) = <<>> <=> Len(s) = 1
         /\ \A i \in 1 .. Len(Tail(s)) : i + 1 \in 1 .. Len(s) /\ Tail(s)[i] = s[i + 1]
<1>1. Len(s) \in Nat /\ Len(s) # 0
  BY SMTT(30)
<1>2. Len(Tail(s)) = Len(s) - 1 /\ Tail(s) \in Seq(T)
  BY <1>1
<1>3. Tail(s) = <<>> <=> Len(Tail(s)) = 0
  BY <1>2
<1> QED
  BY <1>1, <1>2, <1>3

LEMMA PeticionDe ==
  ASSUME CadaLlamada, NEW p \in Procs, pc[p] # "libre"
  PROVE  pet[p] \in Peticion /\ pet[p].clave \in Claves /\ pet[p].huella \in Huellas
BY PeticionesAssumption DEF CadaLlamada, Peticion

(***************************************************************************)
(* Every step is one of eight effects.                                     *)
(***************************************************************************)
LEMMA AbortarTermina ==
  ASSUME Base, NEW p \in Procs, pc[p] # "libre", Abortar(p)
  PROVE  Termina(p)
BY DEF Base, TypeOK, Abortar, Termina, intake

LEMMA ResponderTipos ==
  ASSUME Base, NEW p \in Procs, pc[p] # "libre",
         NEW t \in {"ok", "conflicto", "sin_resultado"}, NEW l \in Leads \cup {Nada},
         Responder(p, t, l)
  PROVE  resp' \in [Procs -> Respuesta \cup {Nada}]
<1>1. [clave |-> pet[p].clave, huella |-> pet[p].huella, tipo |-> t, lead |-> l] \in Respuesta
  BY PeticionDe DEF Base, Respuesta
<1> QED
  BY <1>1 DEF Base, TypeOK, Responder

LEMMA RechazarTermina ==
  ASSUME Base, NEW p \in Procs, pc[p] # "libre",
         NEW t \in {"conflicto", "sin_resultado"}, Rechazar(p, t)
  PROVE  Termina(p)
<1>1. resp' \in [Procs -> Respuesta \cup {Nada}]
  BY ResponderTipos DEF Rechazar
<1> QED
  BY <1>1 DEF Base, TypeOK, Rechazar, Termina, intake

LEMMA Efectos ==
  ASSUME Base, Next
  PROVE  \/ \E p \in Procs :
              \/ \E r \in Peticiones[p] : Pedir(p, r)
              \/ LimpiarFila(p) \/ Reservar(p) \/ Confirmar(p) \/ Termina(p)
              \/ \E s \in Pasos : Avanza(p, s)
         \/ \E l \in Leads : Borrar(l)
         \/ \E k \in Claves : Vencer(k)
<1> DEFINE Efecto(p) == Termina(p) \/ \E s \in Pasos : Avanza(p, s)
<1>1. ASSUME NEW p \in Procs, Leer(p) PROVE Efecto(p)
  <2>1. CASE registro[pet[p].clave] = Nada
    BY <1>1, <2>1, RechazarTermina DEF Leer
  <2>2. CASE registro[pet[p].clave] # Nada
    <3>1. registro[pet[p].clave].vigencia \in Nat
      BY <1>1, <2>2, PeticionDe DEF Base, TypeOK, I!TypeOK, I!Registro, Leer
    <3>2. vista' \in [Procs -> Nat \cup {Nada}] /\ nueva' = nueva
      BY <1>1, <2>2, <3>1 DEF Leer, Base, TypeOK
    <3>3. Avanza(p, "bloquear")
      BY <1>1, <2>2, <3>2 DEF Leer, Avanza, Ir, Base, TypeOK
    <3> QED BY <3>3 DEF Pasos
  <2> QED BY <2>1, <2>2
<1>2. ASSUME NEW p \in Procs, Bloquear(p) PROVE Efecto(p)
  <2> DEFINE k == pet[p].clave
  <2>1. CASE registro[k] = Nada \/ registro[k].vigencia # vista[p]
    BY <1>2, <2>1, RechazarTermina DEF Bloquear
  <2>2. CASE ~(registro[k] = Nada \/ registro[k].vigencia # vista[p])
             /\ (registro[k].huella # pet[p].huella \/ registro[k].lead = Nada)
    BY <1>2, <2>2, RechazarTermina DEF Bloquear
  <2>3. CASE ~(registro[k] = Nada \/ registro[k].vigencia # vista[p])
             /\ ~(registro[k].huella # pet[p].huella \/ registro[k].lead = Nada)
    <3>1. /\ pc[p] # "libre" /\ registro' = I!Sin(limpias[p]) /\ Soltar(p)
          /\ Responder(p, "ok", registro[k].lead)
          /\ UNCHANGED <<personas, leads, vigencia, avisos>>
      BY <1>2, <2>3 DEF Bloquear
    <3>2. registro[k].lead \in Leads \cup {Nada}
      BY <2>3, <3>1, PeticionDe DEF Base, TypeOK, I!TypeOK, I!Registro
    <3>3. resp' \in [Procs -> Respuesta \cup {Nada}]
      BY <3>1, <3>2, ResponderTipos
    <3> QED BY <3>1, <3>3 DEF Termina, Base, TypeOK
  <2> QED BY <2>1, <2>2, <2>3
<1>3. ASSUME NEW p \in Procs, BuscarPersona(p) PROVE Efecto(p)
  <2>1. PICK s \in {"insertar", "confirmar"} : Ir(p, s)
    BY <1>3 DEF BuscarPersona
  <2>2. Avanza(p, s)
    BY <1>3, <2>1 DEF BuscarPersona, Avanza, Ir, Base, TypeOK
  <2> QED BY <2>1, <2>2 DEF Pasos
<1>4. ASSUME NEW p \in Procs, InsertarPersona(p) PROVE Efecto(p)
  <2>1. CASE RutDe[pet[p].huella] \in personas
    BY <1>4, <2>1, AbortarTermina DEF InsertarPersona
  <2>2. CASE RutDe[pet[p].huella] \notin personas
    <3>1. /\ nueva' \in [Procs -> BOOLEAN]
          /\ \A q \in Procs : nueva'[q] => nueva[q] \/ q = p
      BY <1>4, <2>2 DEF InsertarPersona, Base, TypeOK
    <3>2. Avanza(p, "confirmar")
      BY <1>4, <2>2, <3>1 DEF InsertarPersona, Avanza, Ir, Base, TypeOK
    <3> QED BY <3>2 DEF Pasos
  <2> QED BY <2>1, <2>2
<1>5. ASSUME NEW p \in Procs, Publicar(p) PROVE Efecto(p)
  <2>1. pc[p] = "publicar" /\ hecho[p] \in Leads
    BY <1>5 DEF Publicar, Base, Publicando
  <2>2. resp' \in [Procs -> Respuesta \cup {Nada}]
    BY <1>5, <2>1, ResponderTipos DEF Publicar
  <2>3. avisos' \in [Leads -> Nat]
    <3>1. [avisos EXCEPT ![hecho[p]] = @ + 1] \in [Leads -> Nat]
      BY <2>1 DEF Base, TypeOK
    <3> QED BY <1>5, <3>1 DEF Publicar, Base, TypeOK
  <2> QED BY <1>5, <2>1, <2>2, <2>3 DEF Publicar, Termina, intake
<1>6. ASSUME NEW p \in Procs, DetectarInterbloqueo(p) PROVE Efecto(p)
  <2>1. pc[p] # "libre"
    <3>1. SUFFICES ASSUME pc[p] = "libre" PROVE FALSE OBVIOUS
    <3>2. EsperaA(p) = {} BY <3>1 DEF EsperaA
    <3> QED BY <1>6, <3>2 DEF DetectarInterbloqueo, EnCiclo
  <2> QED BY <1>6, <2>1, AbortarTermina DEF DetectarInterbloqueo
<1>7. ASSUME NEW p \in Procs, Caida(p) PROVE Efecto(p)
  BY <1>7, AbortarTermina DEF Caida
<1> HIDE DEF Efecto
<1>8. ASSUME NEW p \in Procs, Paso(p)
      PROVE  LimpiarFila(p) \/ Reservar(p) \/ Confirmar(p) \/ Efecto(p)
  BY <1>1, <1>2, <1>3, <1>4, <1>5, <1>8 DEF Paso
<1>9. CASE \E p \in Procs : (\E r \in Peticiones[p] : Pedir(p, r)) \/ Paso(p)
                              \/ DetectarInterbloqueo(p) \/ Caida(p)
  BY <1>6, <1>7, <1>8, <1>9 DEF Efecto
<1> QED
  BY <1>9 DEF Next

(***************************************************************************)
(* What each effect does to the rows and to the other calls.               *)
(***************************************************************************)
(* The other calls.                                                         *)
Ajenas(p) ==
  \A q \in Procs \ {p} :
    /\ pc'[q] = pc[q] /\ pet'[q] = pet[q] /\ porLimpiar'[q] = porLimpiar[q]
    /\ limpias'[q] = limpias[q] /\ (nueva'[q] => nueva[q]) /\ hecho'[q] = hecho[q]

LEMMA NuncaTocaAjenas ==
  ASSUME Base, NEW p \in Procs,
         \/ \E r \in Peticiones[p] : Pedir(p, r)
         \/ LimpiarFila(p) \/ Reservar(p) \/ Confirmar(p) \/ Termina(p)
         \/ \E s \in Pasos : Avanza(p, s)
  PROVE  Ajenas(p)
<1> USE DEF Ajenas, Base, TypeOK, CadaLlamada, Ir
<1>1. CASE \E r \in Peticiones[p] : Pedir(p, r) BY <1>1 DEF Pedir
<1>2. CASE LimpiarFila(p) BY <1>2 DEF LimpiarFila
<1>3. CASE Reservar(p) BY <1>3 DEF Reservar
<1>4. CASE Confirmar(p) BY <1>4 DEF Confirmar
<1>5. CASE Termina(p) BY <1>5 DEF Termina, Soltar
<1>6. CASE \E s \in Pasos : Avanza(p, s)
  <2>1. PICK s \in Pasos : Avanza(p, s) BY <1>6
  <2>2. \A q \in Procs \ {p} : nueva'[q] => nueva[q] BY <2>1 DEF Avanza
  <2> QED BY <2>1, <2>2 DEF Avanza
<1> QED BY <1>1, <1>2, <1>3, <1>4, <1>5, <1>6

(* The lead and the record a commit leaves.                                 *)
LEMMA FilasDeConfirmar ==
  ASSUME Base, NEW p \in Procs, Confirmar(p)
  PROVE  /\ LeadNuevo \in Leads /\ leads[LeadNuevo] = Nada
         /\ leads'[LeadNuevo] = [clave |-> pet[p].clave, huella |-> pet[p].huella,
                                 vigencia |-> vigencia[pet[p].clave], vivo |-> TRUE]
         /\ leads'[LeadNuevo] # Nada
         /\ \A l \in Leads : l # LeadNuevo => leads'[l] = leads[l]
         /\ registro'[pet[p].clave] # Nada
         /\ \A k \in Claves : k # pet[p].clave =>
              registro'[k] = IF k \in limpias[p] THEN Nada ELSE registro[k]
         /\ UNCHANGED vigencia
<1> DEFINE k == pet[p].clave
           nuevo == [clave |-> k, huella |-> pet[p].huella, vigencia |-> vigencia[k], vivo |-> TRUE]
           fila == [huella |-> pet[p].huella, lead |-> LeadNuevo, vigencia |-> vigencia[k]]
<1>1. pc[p] = "confirmar" /\ k \in Claves /\ pet[p].huella \in Huellas
  BY PeticionDe DEF Base, Confirmar
<1>2. \E l \in Leads : leads[l] = Nada
  <2>1. SUFFICES ASSUME Libres = {} PROVE FALSE
    BY DEF Libres
  <2>2. IsFiniteSet(Pendientes)
    BY FinitudAssumption, FS_Subset DEF Pendientes
  <2>3. Cardinality(Pendientes) = 0
    BY <2>1, <2>2, FS_EmptySet, FS_CardinalityType DEF Base, HayIds
  <2>4. Pendientes = {}
    BY <2>2, <2>3, FS_EmptySet
  <2> QED BY <1>1, <2>4 DEF Pendientes, Terminos
<1>3. LeadNuevo \in Leads /\ leads[LeadNuevo] = Nada
  BY <1>2 DEF LeadNuevo
<1>4. nuevo \in Lead /\ fila \in Registro
  BY <1>1, <1>3 DEF Base, TypeOK, I!TypeOK, Lead, Registro
<1>5. nuevo # Nada /\ fila # Nada
  BY <1>4, IntakeAssumption
<1>6. limpias[p] \in SUBSET Claves /\ leads \in [Leads -> I!Lead \cup {Nada}]
  BY DEF Base, TypeOK, I!TypeOK
<1>7. /\ I!Sin(limpias[p]) \in [Claves -> Registro \cup {Nada}]
      /\ \A j \in Claves : I!Sin(limpias[p])[j] = IF j \in limpias[p] THEN Nada ELSE registro[j]
  BY <1>6, SinFilas DEF Base
<1>8. /\ leads' = [leads EXCEPT ![LeadNuevo] = nuevo]
      /\ registro' = [I!Sin(limpias[p]) EXCEPT ![k] = fila]
      /\ UNCHANGED vigencia
  BY DEF Confirmar
<1> HIDE DEF nuevo, fila
<1>9. leads'[LeadNuevo] = nuevo /\ \A l \in Leads : l # LeadNuevo => leads'[l] = leads[l]
  BY <1>3, <1>6, <1>8
<1>10. registro'[k] = fila /\ \A j \in Claves : j # k => registro'[j] = I!Sin(limpias[p])[j]
  BY <1>1, <1>7, <1>8
<1> QED BY <1>3, <1>5, <1>7, <1>8, <1>9, <1>10 DEF nuevo

(* The end of a call takes at most the expired rows it deleted.             *)
LEMMA FilasDeTermina ==
  ASSUME Base, NEW p \in Procs, Termina(p)
  PROVE  /\ \A k \in Claves : k \notin limpias[p] => registro'[k] = registro[k]
         /\ \A k \in Claves : registro'[k] \in {registro[k], Nada}
         /\ UNCHANGED <<personas, leads, vigencia>>
<1>1. \A k \in Claves : I!Sin(limpias[p])[k] = IF k \in limpias[p] THEN Nada ELSE registro[k]
  BY SinFilas DEF Base, TypeOK
<1> QED BY <1>1 DEF Termina

(* A deleted lead keeps its place, its key and its data, and its record     *)
(* keeps its life.                                                          *)
LEMMA FilasDeBorrar ==
  ASSUME Base, NEW l \in Leads, Borrar(l)
  PROVE  /\ \A m \in Leads : /\ leads'[m] # Nada <=> leads[m] # Nada
                             /\ leads[m] # Nada => /\ leads'[m].clave = leads[m].clave
                                                   /\ leads'[m].huella = leads[m].huella
         /\ \A k \in Claves : /\ registro'[k] # Nada <=> registro[k] # Nada
                              /\ registro[k] # Nada =>
                                   registro'[k].vigencia = registro[k].vigencia
         /\ UNCHANGED <<vigencia, llamadas, resp, avisos>>
<1>1. /\ leads[l] # Nada
      /\ leads' = [leads EXCEPT ![l].vivo = FALSE]
      /\ registro' = [k \in Claves |->
           IF registro[k] # Nada /\ registro[k].lead = l
           THEN [registro[k] EXCEPT !.lead = Nada] ELSE registro[k]]
      /\ UNCHANGED <<vigencia, llamadas, resp, avisos>>
  BY DEF Borrar, I!Borrar
<1>2. leads \in [Leads -> Lead \cup {Nada}] /\ registro \in [Claves -> Registro \cup {Nada}]
  BY DEF Base, TypeOK, I!TypeOK, Lead, Registro, I!Lead, I!Registro
<1>3. ASSUME NEW m \in Leads
      PROVE  /\ leads'[m] # Nada <=> leads[m] # Nada
             /\ leads[m] # Nada => /\ leads'[m].clave = leads[m].clave
                                   /\ leads'[m].huella = leads[m].huella
  <2>1. CASE m # l BY <1>1, <1>2, <2>1
  <2>2. CASE m = l
    <3>1. leads[l] \in Lead /\ leads'[l] = [leads[l] EXCEPT !.vivo = FALSE]
      BY <1>1, <1>2
    <3>2. leads'[l] \in Lead /\ leads'[l].clave = leads[l].clave /\ leads'[l].huella = leads[l].huella
      BY <3>1 DEF Lead
    <3> QED BY <1>1, <2>2, <3>2, IntakeAssumption
  <2> QED BY <2>1, <2>2
<1>4. ASSUME NEW k \in Claves
      PROVE  /\ registro'[k] # Nada <=> registro[k] # Nada
             /\ registro[k] # Nada => registro'[k].vigencia = registro[k].vigencia
  <2>1. CASE registro[k] = Nada BY <1>1, <2>1
  <2>2. CASE registro[k] # Nada
    <3>1. registro[k] \in Registro BY <1>2, <2>2
    <3>2. /\ [registro[k] EXCEPT !.lead = Nada] \in Registro
          /\ [registro[k] EXCEPT !.lead = Nada].vigencia = registro[k].vigencia
      BY <3>1 DEF Registro
    <3>3. [registro[k] EXCEPT !.lead = Nada] # Nada BY <3>2, IntakeAssumption
    <3> QED BY <1>1, <2>2, <3>2, <3>3
  <2> QED BY <2>1, <2>2
<1> QED BY <1>1, <1>3, <1>4

(* Time only makes rows expire.                                             *)
LEMMA FilasDeVencer ==
  ASSUME Base, NEW k \in Claves, Vencer(k)
  PROVE  /\ \A j \in Claves : vigencia[j] \in Nat /\ vigencia'[j] \in {vigencia[j], vigencia[j] + 1}
         /\ UNCHANGED <<personas, leads, registro, llamadas, resp, avisos>>
BY DEF Base, TypeOK, I!TypeOK, Vencer, I!Vencer

(***************************************************************************)
(* A step of the calls is a step of the promise, or changes nothing in it. *)
(***************************************************************************)
LEMMA PasoImplementa ==
  ASSUME Base, [Next]_vars
  PROVE  [I!Next]_(I!intake)
<1> USE DEF intake, I!intake
<1>0. CASE UNCHANGED vars BY <1>0 DEF vars
<1>1. ASSUME NEW p \in Procs, (\E r \in Peticiones[p] : Pedir(p, r)) \/ LimpiarFila(p)
                               \/ Reservar(p) \/ \E s \in Pasos : Avanza(p, s)
      PROVE  UNCHANGED I!intake
  BY <1>1 DEF Pedir, LimpiarFila, Reservar, Avanza
<1>2. ASSUME NEW p \in Procs, Termina(p) PROVE [I!Next]_(I!intake)
  <2>1. CASE registro' = registro
    BY <1>2, <2>1 DEF Termina
  <2>2. CASE registro' = I!Sin(limpias[p])
    <3>1. limpias[p] \in SUBSET Claves /\ limpias[p] \subseteq I!Vencidas
      BY DEF Base, TypeOK, SoloVencidas
    <3>2. I!Limpiar(limpias[p])
      BY <1>2, <2>2, <3>1 DEF Termina, I!Limpiar
    <3> QED BY <3>1, <3>2 DEF I!Next
  <2> QED BY <1>2, <2>1, <2>2 DEF Termina
<1>3. ASSUME NEW p \in Procs, Confirmar(p) PROVE I!Next
  <2>1. /\ pet[p].clave \in Claves /\ pet[p].huella \in Huellas
        /\ limpias[p] \in SUBSET Claves /\ limpias[p] \subseteq I!Vencidas
    BY <1>3, PeticionDe DEF Confirmar, Base, TypeOK, SoloVencidas
  <2>2. LeadNuevo \in Leads /\ leads[LeadNuevo] = Nada
    BY <1>3, FilasDeConfirmar
  <2>3. I!Sin(limpias[p])[pet[p].clave] = Nada
    BY <1>3, <2>1, SinFilas DEF Confirmar, Base, Exclusivas, Reservo
  <2>4. I!Crear(pet[p].clave, pet[p].huella, LeadNuevo, limpias[p])
    BY <1>3, <2>1, <2>2, <2>3 DEF Confirmar, I!Crear
  <2> QED BY <2>1, <2>2, <2>4 DEF I!Next
<1>4. ASSUME NEW l \in Leads, Borrar(l) PROVE I!Next
  BY <1>4 DEF Borrar, I!Next
<1>5. ASSUME NEW k \in Claves, Vencer(k) PROVE I!Next
  BY <1>5 DEF Vencer, I!Next
<1> QED BY <1>0, <1>1, <1>2, <1>3, <1>4, <1>5, Efectos

LEMMA MismoPaso ==
  /\ I!Init <=> IP!Init
  /\ [I!Next]_(I!intake) => [IP!Next]_(IP!intake)
BY DEF I!Init, IP!Init, I!Next, IP!Next, I!intake, IP!intake, I!Crear, IP!Crear,
       I!Limpiar, IP!Limpiar, I!Borrar, IP!Borrar, I!Vencer, IP!Vencer,
       I!Sin, IP!Sin, I!Vencidas, IP!Vencidas

LEMMA SupuestosDelLibro ==
  RutDe \in [Huellas -> Ruts] /\ MaxVigencias \in Nat
    /\ Nada \notin IP!Lead \cup IP!Registro \cup Leads
BY IntakeAssumption DEF Lead, Registro, IP!Lead, IP!Registro

LEMMA LibroConserva ==
  ASSUME Base, [Next]_vars
  PROVE  IP!IInv' /\ I!TypeOK'
<1>1. [IP!Next]_(IP!intake)
  BY PasoImplementa, MismoPaso
<1>2. IP!IInv'
  BY <1>1, SupuestosDelLibro, IP!PasoIInv DEF Base
<1> QED
  BY <1>2 DEF IP!IInv, IP!TypeOK, I!TypeOK, IP!Lead, I!Lead, IP!Registro, I!Registro

(***************************************************************************)
(* Each part of the invariant is kept.                                     *)
(***************************************************************************)
LEMMA TiposConservan ==
  ASSUME Base, Next
  PROVE  TypeOK' /\ pet' \in [Procs -> Peticion \cup {Nada}]
<1> USE DEF Base, CadaLlamada
<1>0. I!TypeOK'
  BY LibroConserva
<1>1. /\ pet \in [Procs -> Peticion \cup {Nada}]
      /\ \A p \in Procs : Peticiones[p] \subseteq Peticion
  BY PeticionesAssumption
<1>2. ASSUME NEW p \in Procs, NEW r \in Peticiones[p], Pedir(p, r)
      PROVE  TypeOK' /\ pet' \in [Procs -> Peticion \cup {Nada}]
  <2>1. PICK s \in SetToSeqs({<<k, registro[k].vigencia>> : k \in I!Vencidas}) :
          /\ porLimpiar' = [porLimpiar EXCEPT ![p] = s]
          /\ Ir(p, IF s = <<>> THEN "reservar" ELSE "limpiar")
    BY <1>2 DEF Pedir
  <2>2. s \in Seq(Claves \X Nat) BY FilasDelDelete
  <2>3. porLimpiar' \in [Procs -> Seq(Claves \X Nat)] BY <2>1, <2>2 DEF TypeOK
  <2>4. pc' \in [Procs -> Pasos] BY <2>1 DEF TypeOK, Ir, Pasos
  <2>5. pet' \in [Procs -> Peticion \cup {Nada}]
        /\ \A q \in Procs : pet'[q] \in Peticiones[q] \cup {Nada}
    BY <1>1, <1>2 DEF Pedir, TypeOK
  <2>6. resp' \in [Procs -> Respuesta \cup {Nada}] BY <1>2 DEF Pedir, TypeOK
  <2> QED BY <1>0, <1>2, <2>3, <2>4, <2>5, <2>6 DEF Pedir, TypeOK
<1>3. ASSUME NEW p \in Procs, LimpiarFila(p)
      PROVE  TypeOK' /\ pet' \in [Procs -> Peticion \cup {Nada}]
  <2>1. porLimpiar[p] \in Seq(Claves \X Nat) /\ porLimpiar[p] # <<>>
    BY <1>3 DEF LimpiarFila, TypeOK
  <2>2. Tail(porLimpiar[p]) \in Seq(Claves \X Nat) /\ Head(porLimpiar[p]) \in Claves \X Nat
    BY <2>1
  <2>3. porLimpiar' \in [Procs -> Seq(Claves \X Nat)]
    BY <1>3, <2>2 DEF LimpiarFila, TypeOK
  <2>4. limpias' \in [Procs -> SUBSET Claves]
    BY <1>3, <2>2 DEF LimpiarFila, TypeOK
  <2>5. pc' \in [Procs -> Pasos]
    BY <1>3 DEF LimpiarFila, TypeOK, Ir, Pasos
  <2> QED BY <1>0, <1>1, <1>3, <2>3, <2>4, <2>5 DEF LimpiarFila, TypeOK
<1>4. ASSUME NEW p \in Procs, Reservar(p)
      PROVE  TypeOK' /\ pet' \in [Procs -> Peticion \cup {Nada}]
  <2>1. pc' \in [Procs -> Pasos] BY <1>4 DEF Reservar, TypeOK, Ir, Pasos
  <2> QED BY <1>0, <1>1, <1>4, <2>1 DEF Reservar, TypeOK
<1>5. ASSUME NEW p \in Procs, Confirmar(p)
      PROVE  TypeOK' /\ pet' \in [Procs -> Peticion \cup {Nada}]
  <2>1. LeadNuevo \in Leads BY <1>5, FilasDeConfirmar
  <2>2. pc' \in [Procs -> Pasos] /\ hecho' \in [Procs -> Leads \cup {Nada}]
    BY <1>5, <2>1 DEF Confirmar, TypeOK, Ir, Pasos
  <2>3. limpias' \in [Procs -> SUBSET Claves] /\ nueva' \in [Procs -> BOOLEAN]
    BY <1>5 DEF Confirmar, TypeOK
  <2> QED BY <1>0, <1>1, <1>5, <2>2, <2>3 DEF Confirmar, TypeOK
<1>6. ASSUME NEW p \in Procs, Termina(p)
      PROVE  TypeOK' /\ pet' \in [Procs -> Peticion \cup {Nada}]
  <2>1. /\ pc' \in [Procs -> Pasos] /\ porLimpiar' \in [Procs -> Seq(Claves \X Nat)]
        /\ limpias' \in [Procs -> SUBSET Claves] /\ vista' \in [Procs -> Nat \cup {Nada}]
        /\ nueva' \in [Procs -> BOOLEAN] /\ hecho' \in [Procs -> Leads \cup {Nada}]
    BY <1>6 DEF Termina, Soltar, TypeOK, Ir, Pasos
  <2>2. pet' \in [Procs -> Peticion \cup {Nada}]
        /\ \A q \in Procs : pet'[q] \in Peticiones[q] \cup {Nada}
    BY <1>1, <1>6 DEF Termina, Soltar, TypeOK
  <2> QED BY <1>0, <1>6, <2>1, <2>2 DEF Termina, TypeOK
<1>7. ASSUME NEW p \in Procs, NEW s \in Pasos, Avanza(p, s)
      PROVE  TypeOK' /\ pet' \in [Procs -> Peticion \cup {Nada}]
  BY <1>0, <1>1, <1>7 DEF Avanza, TypeOK
<1>8. CASE (\E l \in Leads : Borrar(l)) \/ \E k \in Claves : Vencer(k)
  BY <1>0, <1>1, <1>8 DEF Borrar, Vencer, llamadas, TypeOK
<1> QED BY <1>2, <1>3, <1>4, <1>5, <1>6, <1>7, <1>8, Efectos

LEMMA LlamadasConservan ==
  ASSUME Base, Next
  PROVE  CadaLlamada'
<1> SUFFICES ASSUME NEW q \in Procs
             PROVE  /\ pc'[q] # "libre" => pet'[q] \in Peticiones[q]
                    /\ pc'[q] = "limpiar" <=> porLimpiar'[q] # <<>>
                    /\ pc'[q] \in Terminos => limpias'[q] = {}
                    /\ nueva'[q] => pc'[q] = "confirmar"
  BY TiposConservan DEF CadaLlamada
<1> USE DEF Base, TypeOK, CadaLlamada, Ir, Terminos
<1>1. ASSUME NEW p \in Procs, p # q, Ajenas(p)
      PROVE  /\ pc'[q] # "libre" => pet'[q] \in Peticiones[q]
             /\ pc'[q] = "limpiar" <=> porLimpiar'[q] # <<>>
             /\ pc'[q] \in Terminos => limpias'[q] = {}
             /\ nueva'[q] => pc'[q] = "confirmar"
  BY <1>1 DEF Ajenas
<1>2. CASE \E r \in Peticiones[q] : Pedir(q, r)
  BY <1>2 DEF Pedir
<1>3. CASE LimpiarFila(q)
  <2>1. porLimpiar[q] \in Seq(Claves \X Nat) /\ porLimpiar[q] # <<>>
    BY <1>3 DEF LimpiarFila
  <2>2. Tail(porLimpiar[q]) = <<>> <=> Len(porLimpiar[q]) = 1
    BY <2>1, ColaDe
  <2> QED BY <1>3, <2>2 DEF LimpiarFila
<1>4. CASE Reservar(q) BY <1>4 DEF Reservar
<1>5. CASE Confirmar(q) BY <1>5 DEF Confirmar
<1>6. CASE Termina(q) BY <1>6 DEF Termina, Soltar
<1>7. CASE \E s \in Pasos : Avanza(q, s) BY <1>7 DEF Avanza
<1>8. CASE (\E l \in Leads : Borrar(l)) \/ \E k \in Claves : Vencer(k)
  BY <1>8 DEF Borrar, Vencer, llamadas
<1> HIDE DEF Base
<1> QED BY <1>1, <1>2, <1>3, <1>4, <1>5, <1>6, <1>7, <1>8, Efectos, NuncaTocaAjenas

(* A row that a call deleted stays in the table, and expired, until that    *)
(* call ends.                                                               *)
LEMMA BorradasSiguen ==
  ASSUME Base, Next, NEW q \in Procs, NEW k \in limpias[q], k \in limpias'[q]
  PROVE  k \in Claves /\ k \in I!Vencidas'
<1> USE DEF I!Vencidas
<1>1. k \in Claves /\ k \in I!Vencidas /\ k \in limpias'[q]
  BY DEF Base, SoloVencidas
<1>2. \A j \in Claves : vigencia[j] \in Nat /\ registro[j] \in Registro \cup {Nada}
  BY DEF Base, TypeOK, I!TypeOK, Registro, I!Registro
<1>3. ASSUME NEW p \in Procs, (\E r \in Peticiones[p] : Pedir(p, r)) \/ LimpiarFila(p)
                               \/ Reservar(p) \/ \E s \in Pasos : Avanza(p, s)
      PROVE  k \in I!Vencidas'
  BY <1>1, <1>3 DEF Pedir, LimpiarFila, Reservar, Avanza, intake
<1>4. ASSUME NEW p \in Procs, p # q => k \notin limpias[p], Termina(p)
      PROVE  k \in I!Vencidas'
  <2>1. p # q
    BY <1>1, <1>4 DEF Termina, Soltar, Base, TypeOK
  <2> QED BY <1>1, <1>4, <2>1, FilasDeTermina
<1>5. ASSUME NEW p \in Procs, p # q => k \notin limpias[p], Confirmar(p)
      PROVE  k \in I!Vencidas'
  <2>1. p # q
    BY <1>1, <1>5 DEF Confirmar, Base, TypeOK
  <2>2. Reservo(p)
    BY <1>5 DEF Confirmar, Reservo
  <2>3. k # pet[p].clave
    BY <1>1, <1>5, <2>1, <2>2 DEF Base, Exclusivas
  <2> QED BY <1>1, <1>5, <2>1, <2>3, FilasDeConfirmar
<1>6. ASSUME NEW l \in Leads, Borrar(l) PROVE k \in I!Vencidas'
  BY <1>1, <1>6, FilasDeBorrar
<1>7. ASSUME NEW j \in Claves, Vencer(j) PROVE k \in I!Vencidas'
  <2>1. registro[k].vigencia \in Nat
    BY <1>1, <1>2 DEF Registro
  <2> QED BY <1>1, <1>7, <2>1, FilasDeVencer
<1>8. \A p \in Procs : p # q => k \notin limpias[p]
  BY DEF Base, Exclusivas
<1> QED BY <1>1, <1>3, <1>4, <1>5, <1>6, <1>7, <1>8, Efectos

LEMMA VencidasConservan ==
  ASSUME Base, Next
  PROVE  SoloVencidas'
<1> SUFFICES ASSUME NEW q \in Procs
             PROVE  /\ limpias'[q] \subseteq I!Vencidas'
                    /\ \A i \in 1 .. Len(porLimpiar'[q]) :
                         porLimpiar'[q][i][2] < vigencia'[porLimpiar'[q][i][1]]
  BY DEF SoloVencidas
<1>0. /\ \A k \in limpias[q] : k \in limpias'[q] => k \in I!Vencidas'
      /\ porLimpiar[q] \in Seq(Claves \X Nat)
      /\ \A k \in Claves : vigencia[k] \in Nat
      /\ \A i \in 1 .. Len(porLimpiar[q]) :
           /\ porLimpiar[q][i] \in Claves \X Nat
           /\ porLimpiar[q][i][2] < vigencia[porLimpiar[q][i][1]]
  BY BorradasSiguen DEF Base, TypeOK, I!TypeOK, SoloVencidas
<1>1. ASSUME limpias'[q] \subseteq limpias[q], porLimpiar'[q] \in {porLimpiar[q], <<>>},
             UNCHANGED vigencia \/ \E k \in Claves : Vencer(k)
      PROVE  /\ limpias'[q] \subseteq I!Vencidas'
             /\ \A i \in 1 .. Len(porLimpiar'[q]) :
                  porLimpiar'[q][i][2] < vigencia'[porLimpiar'[q][i][1]]
  <2>1. \A k \in Claves : vigencia'[k] \in {vigencia[k], vigencia[k] + 1}
    BY <1>0, <1>1, FilasDeVencer
  <2>2. CASE porLimpiar'[q] = <<>> BY <1>0, <1>1, <2>2
  <2>3. CASE porLimpiar'[q] = porLimpiar[q]
    <3>1. ASSUME NEW i \in 1 .. Len(porLimpiar[q])
          PROVE  porLimpiar[q][i][2] < vigencia'[porLimpiar[q][i][1]]
      <4>1. porLimpiar[q][i][1] \in Claves /\ porLimpiar[q][i][2] \in Nat BY <1>0
      <4> QED BY <1>0, <2>1, <4>1
    <3> QED BY <1>0, <1>1, <2>3, <3>1
  <2> QED BY <1>1, <2>2, <2>3
<1>2. ASSUME NEW p \in Procs, p # q, Ajenas(p)
      PROVE  limpias'[q] \subseteq limpias[q] /\ porLimpiar'[q] \in {porLimpiar[q], <<>>}
  BY <1>2 DEF Ajenas
<1>3. ASSUME NEW p \in Procs,
             (\E r \in Peticiones[p] : Pedir(p, r)) \/ LimpiarFila(p) \/ Reservar(p)
               \/ Confirmar(p) \/ Termina(p) \/ \E s \in Pasos : Avanza(p, s)
      PROVE  UNCHANGED vigencia
  BY <1>3 DEF Pedir, LimpiarFila, Reservar, Confirmar, Termina, Avanza, intake
<1>4. ASSUME \E r \in Peticiones[q] : Pedir(q, r)
      PROVE  /\ limpias'[q] \subseteq I!Vencidas'
             /\ \A i \in 1 .. Len(porLimpiar'[q]) :
                  porLimpiar'[q][i][2] < vigencia'[porLimpiar'[q][i][1]]
  <2>1. limpias' = limpias /\ UNCHANGED intake BY <1>4 DEF Pedir
  <2>2. PICK s \in SetToSeqs({<<k, registro[k].vigencia>> : k \in I!Vencidas}) :
          porLimpiar'[q] = s
    BY <1>4 DEF Pedir, Base, TypeOK
  <2>3. \A i \in 1 .. Len(s) : \E k \in I!Vencidas : s[i] = <<k, registro[k].vigencia>>
    BY FilasDelDelete DEF Base
  <2>4. \A i \in 1 .. Len(s) : s[i][2] < vigencia[s[i][1]]
    BY <2>3 DEF I!Vencidas
  <2> QED BY <1>0, <2>1, <2>2, <2>4 DEF intake
<1>5. ASSUME LimpiarFila(q)
      PROVE  /\ limpias'[q] \subseteq I!Vencidas'
             /\ \A i \in 1 .. Len(porLimpiar'[q]) :
                  porLimpiar'[q][i][2] < vigencia'[porLimpiar'[q][i][1]]
  <2> DEFINE s == porLimpiar[q]
             k == Head(s)[1]
  <2>1. s # <<>> /\ UNCHANGED intake /\ porLimpiar'[q] = Tail(s)
    BY <1>5 DEF LimpiarFila, Base, TypeOK, CadaLlamada
  <2>2. /\ Head(s) = s[1] /\ 1 \in 1 .. Len(s)
        /\ \A i \in 1 .. Len(Tail(s)) : i + 1 \in 1 .. Len(s) /\ Tail(s)[i] = s[i + 1]
    BY <1>0, <2>1, ColaDe
  <2>3. Head(s) \in Claves \X Nat /\ Head(s)[2] < vigencia[k]
    BY <1>0, <2>2
  <2>4. limpias'[q] = IF registro[k] # Nada /\ registro[k].vigencia = Head(s)[2]
                      THEN limpias[q] \cup {k} ELSE limpias[q]
    BY <1>5 DEF LimpiarFila, Base, TypeOK
  <2>5. limpias'[q] \subseteq I!Vencidas'
    BY <1>0, <2>1, <2>3, <2>4 DEF I!Vencidas, intake
  <2> QED BY <1>0, <2>1, <2>2, <2>5 DEF intake
<1>6. ASSUME Reservar(q) \/ Confirmar(q) \/ Termina(q) \/ \E s \in Pasos : Avanza(q, s)
      PROVE  limpias'[q] \subseteq limpias[q] /\ porLimpiar'[q] \in {porLimpiar[q], <<>>}
  BY <1>6 DEF Reservar, Confirmar, Termina, Soltar, Avanza, Base, TypeOK
<1>7. ASSUME (\E l \in Leads : Borrar(l)) \/ \E k \in Claves : Vencer(k)
      PROVE  /\ limpias'[q] \subseteq limpias[q] /\ porLimpiar'[q] \in {porLimpiar[q], <<>>}
             /\ UNCHANGED vigencia \/ \E k \in Claves : Vencer(k)
  BY <1>7 DEF Borrar, I!Borrar, Vencer, llamadas
<1>8. CASE \E p \in Procs :
             (\E r \in Peticiones[p] : Pedir(p, r)) \/ LimpiarFila(p) \/ Reservar(p)
               \/ Confirmar(p) \/ Termina(p) \/ \E s \in Pasos : Avanza(p, s)
  BY <1>1, <1>2, <1>3, <1>4, <1>5, <1>6, <1>8, NuncaTocaAjenas
<1> QED BY <1>1, <1>7, <1>8, Efectos

(* A call only deletes rows nobody is deleting.                             *)
LEMMA BorradoUnico ==
  ASSUME Base, Next, NEW a \in Procs, NEW b \in Procs \ {a}
  PROVE  limpias'[a] \cap limpias'[b] = {}
<1>1. limpias[a] \cap limpias[b] = {} /\ limpias \in [Procs -> SUBSET Claves]
  BY DEF Base, Exclusivas, TypeOK
<1>2. ASSUME NEW p \in Procs, LimpiarFila(p)
      PROVE  limpias'[a] \cap limpias'[b] = {}
  <2> DEFINE k == Head(porLimpiar[p])[1]
  <2>1. /\ \A q \in Procs \ {p} : k \notin limpias[q] /\ limpias'[q] = limpias[q]
        /\ limpias'[p] \subseteq limpias[p] \cup {k}
    BY <1>1, <1>2 DEF LimpiarFila, Limpiando
  <2> HIDE DEF k
  <2> QED BY <1>1, <2>1
<1>3. ASSUME NEW p \in Procs,
             (\E r \in Peticiones[p] : Pedir(p, r)) \/ Reservar(p)
               \/ Confirmar(p) \/ Termina(p) \/ \E s \in Pasos : Avanza(p, s)
      PROVE  \A q \in Procs : limpias'[q] \subseteq limpias[q]
  BY <1>1, <1>3 DEF Pedir, Reservar, Confirmar, Termina, Soltar, Avanza
<1>4. ASSUME (\E l \in Leads : Borrar(l)) \/ \E k \in Claves : Vencer(k)
      PROVE  limpias' = limpias
  BY <1>4 DEF Borrar, Vencer, llamadas
<1> QED BY <1>1, <1>2, <1>3, <1>4, Efectos

(* A call that has its key reserved after a step had it before, or finds it *)
(* free or its own now; and keeps the rows it deleted.                      *)
LEMMA QuienReserva ==
  ASSUME Base, Next, NEW q \in Procs, Reservo(q)'
  PROVE  /\ pet'[q] = pet[q] /\ limpias'[q] = limpias[q] /\ pc[q] # "libre"
         /\ Reservo(q) \/ Reservar(q)
<1> USE DEF Reservo, Base, TypeOK
<1>1. CASE \E r \in Peticiones[q] : Pedir(q, r) BY <1>1 DEF Pedir, Ir
<1>2. CASE LimpiarFila(q) BY <1>2 DEF LimpiarFila, Ir
<1>3. CASE Reservar(q) BY <1>3 DEF Reservar
<1>4. CASE Confirmar(q) BY <1>4 DEF Confirmar, Ir
<1>5. CASE Termina(q) BY <1>5 DEF Termina, Soltar, Ir
<1>6. CASE \E s \in Pasos : Avanza(q, s) BY <1>6 DEF Avanza
<1>7. CASE (\E l \in Leads : Borrar(l)) \/ \E k \in Claves : Vencer(k)
  BY <1>7 DEF Borrar, Vencer, llamadas
<1>8. ASSUME NEW p \in Procs, p # q, Ajenas(p)
      PROVE  /\ pet'[q] = pet[q] /\ limpias'[q] = limpias[q] /\ pc[q] # "libre" /\ Reservo(q)
  BY <1>8 DEF Ajenas
<1> HIDE DEF Base
<1> QED BY <1>1, <1>2, <1>3, <1>4, <1>5, <1>6, <1>7, <1>8, Efectos, NuncaTocaAjenas

LEMMA ReservaUnica ==
  ASSUME Base, Next, NEW a \in Procs, NEW b \in Procs \ {a}, Reservo(a)', Reservo(b)'
  PROVE  pet'[a].clave # pet'[b].clave
<1>1. /\ pet'[a] = pet[a] /\ pet'[b] = pet[b]
      /\ Reservo(a) \/ Reservar(a)
      /\ Reservo(b) \/ Reservar(b)
  BY QuienReserva
<1>2. CASE Reservar(a) /\ ~Reservo(b)
  <2>1. Reservar(b) BY <1>1, <1>2
  <2>2. pc'[b] = "reservar" BY <1>2, <2>1 DEF Reservar, Ir, Base, TypeOK
  <2> QED BY <2>2 DEF Reservo
<1>3. CASE Reservar(a) /\ Reservo(b)
  BY <1>1, <1>3 DEF Reservar, Reservando
<1>4. CASE Reservar(b) /\ Reservo(a)
  BY <1>1, <1>4 DEF Reservar, Reservando
<1>5. CASE Reservo(a) /\ Reservo(b)
  BY <1>1, <1>5 DEF Base, Exclusivas
<1> QED BY <1>1, <1>2, <1>3, <1>4, <1>5

LEMMA ReservaLibre ==
  ASSUME Base, Next, NEW a \in Procs, Reservo(a)'
  PROVE  registro'[pet'[a].clave] = Nada \/ pet'[a].clave \in limpias'[a]
<1> DEFINE k == pet[a].clave
<1>1. pet'[a] = pet[a] /\ limpias'[a] = limpias[a] /\ k \in Claves
        /\ (Reservo(a) \/ Reservar(a))
  BY QuienReserva, PeticionDe DEF Base
<1>2. CASE Reservar(a)
  BY <1>1, <1>2 DEF Reservar, Ir, Reservo, Base, TypeOK, intake
<1>3. ASSUME Reservo(a) PROVE registro[k] = Nada \/ k \in limpias[a]
  BY <1>3 DEF Base, Exclusivas
<1>4. ASSUME NEW p \in Procs, (\E r \in Peticiones[p] : Pedir(p, r)) \/ LimpiarFila(p)
                               \/ Reservar(p) \/ \E s \in Pasos : Avanza(p, s)
      PROVE  UNCHANGED registro
  BY <1>4 DEF Pedir, LimpiarFila, Reservar, Avanza, intake
<1>5. ASSUME NEW p \in Procs, Termina(p) PROVE registro'[k] \in {registro[k], Nada}
  BY <1>1, <1>5, FilasDeTermina
<1>6. ASSUME NEW p \in Procs, Confirmar(p), Reservo(a)
      PROVE  registro'[k] \in {registro[k], Nada}
  <2>1. p # a BY <1>6 DEF Confirmar, Ir, Reservo, Base, TypeOK
  <2>2. pet[p].clave # k BY <1>6, <2>1 DEF Base, Exclusivas, Reservo, Confirmar
  <2> QED BY <1>1, <1>6, <2>2, FilasDeConfirmar
<1>7. ASSUME (\E l \in Leads : Borrar(l)) \/ \E j \in Claves : Vencer(j)
      PROVE  registro'[k] # Nada => registro[k] # Nada
  BY <1>1, <1>7, FilasDeBorrar, FilasDeVencer
<1> QED BY <1>1, <1>2, <1>3, <1>4, <1>5, <1>6, <1>7, Efectos

LEMMA ExclusivasConservan ==
  ASSUME Base, Next
  PROVE  Exclusivas'
BY BorradoUnico, ReservaUnica, ReservaLibre DEF Exclusivas

(* Leads are neither taken back nor given to another request.               *)
LEMMA LeadsSiguen ==
  ASSUME Base, [Next]_vars, NEW l \in Leads, leads[l] # Nada
  PROVE  leads'[l] # Nada /\ leads'[l].clave = leads[l].clave /\ leads'[l].huella = leads[l].huella
<1>0. CASE UNCHANGED vars BY <1>0 DEF vars, intake
<1>1. ASSUME NEW p \in Procs, (\E r \in Peticiones[p] : Pedir(p, r)) \/ LimpiarFila(p)
               \/ Reservar(p) \/ Termina(p) \/ \E s \in Pasos : Avanza(p, s)
      PROVE  leads' = leads
  BY <1>1 DEF Pedir, LimpiarFila, Reservar, Avanza, Termina, intake
<1>2. ASSUME NEW p \in Procs, Confirmar(p) PROVE leads'[l] = leads[l]
  BY <1>2, FilasDeConfirmar
<1>3. ASSUME NEW m \in Leads, Borrar(m)
      PROVE  leads'[l] # Nada /\ leads'[l].clave = leads[l].clave /\ leads'[l].huella = leads[l].huella
  BY <1>3, FilasDeBorrar
<1>4. ASSUME NEW k \in Claves, Vencer(k) PROVE leads' = leads
  BY <1>4, FilasDeVencer
<1> QED BY <1>0, <1>1, <1>2, <1>3, <1>4, Efectos

LEMMA QuienPublica ==
  ASSUME Base, Next, NEW q \in Procs, pc'[q] = "publicar"
  PROVE  \/ pc[q] = "publicar" /\ hecho'[q] = hecho[q] /\ pet'[q] = pet[q]
         \/ Confirmar(q) /\ hecho'[q] = LeadNuevo /\ pet'[q] = pet[q]
<1> USE DEF Base, TypeOK, Ir
<1>1. CASE \E r \in Peticiones[q] : Pedir(q, r) BY <1>1 DEF Pedir
<1>2. CASE LimpiarFila(q) BY <1>2 DEF LimpiarFila
<1>3. CASE Reservar(q) BY <1>3 DEF Reservar
<1>4. CASE Confirmar(q) BY <1>4 DEF Confirmar
<1>5. CASE Termina(q) BY <1>5 DEF Termina, Soltar
<1>6. CASE \E s \in Pasos : Avanza(q, s) BY <1>6 DEF Avanza
<1>7. CASE (\E l \in Leads : Borrar(l)) \/ \E k \in Claves : Vencer(k)
  BY <1>7 DEF Borrar, Vencer, llamadas
<1>8. ASSUME NEW p \in Procs, p # q, Ajenas(p)
      PROVE  pc[q] = "publicar" /\ hecho'[q] = hecho[q] /\ pet'[q] = pet[q]
  BY <1>8 DEF Ajenas
<1> HIDE DEF Base
<1> QED BY <1>1, <1>2, <1>3, <1>4, <1>5, <1>6, <1>7, <1>8, Efectos, NuncaTocaAjenas

LEMMA PublicandoConserva ==
  ASSUME Base, Next
  PROVE  Publicando'
<1>1. ASSUME NEW q \in Procs, pc'[q] = "publicar"
      PROVE  \/ pc[q] = "publicar" /\ hecho'[q] = hecho[q] /\ pet'[q] = pet[q]
             \/ Confirmar(q) /\ hecho'[q] = LeadNuevo /\ pet'[q] = pet[q]
  BY <1>1, QuienPublica
<1>2. ASSUME NEW q \in Procs, pc[q] = "publicar"
      PROVE  /\ hecho[q] \in Leads /\ leads[hecho[q]] # Nada
             /\ leads[hecho[q]].clave = pet[q].clave /\ leads[hecho[q]].huella = pet[q].huella
             /\ leads'[hecho[q]] # Nada
             /\ leads'[hecho[q]].clave = pet[q].clave /\ leads'[hecho[q]].huella = pet[q].huella
  BY <1>2, LeadsSiguen DEF Base, Publicando
<1>3. ASSUME NEW q \in Procs, Confirmar(q)
      PROVE  /\ LeadNuevo \in Leads /\ leads[LeadNuevo] = Nada /\ leads'[LeadNuevo] # Nada
             /\ leads'[LeadNuevo].clave = pet[q].clave /\ leads'[LeadNuevo].huella = pet[q].huella
             /\ \A r \in Procs \ {q} : pc'[r] = pc[r] /\ ~Confirmar(r)
  <2>1. \A r \in Procs \ {q} : pc'[r] = pc[r]
    BY <1>3 DEF Confirmar, Ir, Base, TypeOK
  <2>2. \A r \in Procs : Confirmar(r) => pc[r] = "confirmar" /\ pc'[r] = "publicar"
    BY DEF Confirmar, Ir, Base, TypeOK
  <2>3. \A r \in Procs \ {q} : pc'[r] = pc[r] /\ ~Confirmar(r)
    BY <2>1, <2>2
  <2>4. /\ LeadNuevo \in Leads /\ leads[LeadNuevo] = Nada /\ leads'[LeadNuevo] # Nada
        /\ leads'[LeadNuevo].clave = pet[q].clave /\ leads'[LeadNuevo].huella = pet[q].huella
    <3>1. /\ LeadNuevo \in Leads /\ leads[LeadNuevo] = Nada /\ leads'[LeadNuevo] # Nada
          /\ leads'[LeadNuevo] = [clave |-> pet[q].clave, huella |-> pet[q].huella,
                                  vigencia |-> vigencia[pet[q].clave], vivo |-> TRUE]
      BY <1>3, FilasDeConfirmar, Zenon
    <3> QED BY <3>1
  <2> QED BY <2>3, <2>4
<1>4. ASSUME NEW q \in Procs, pc'[q] = "publicar", NEW r \in Procs \ {q}, pc'[r] = "publicar"
      PROVE  hecho'[q] # hecho'[r]
  <2>0. \A x \in Procs : Confirmar(x) => pc[x] # "publicar"
    BY DEF Confirmar
  <2>1. CASE Confirmar(q)
    BY <1>1, <1>2, <1>3, <1>4, <2>0, <2>1
  <2>2. CASE Confirmar(r)
    BY <1>1, <1>2, <1>3, <1>4, <2>0, <2>2
  <2>3. CASE ~Confirmar(q) /\ ~Confirmar(r)
    BY <1>1, <1>4, <2>3 DEF Base, Publicando
  <2> QED BY <2>1, <2>2, <2>3
<1>5. ASSUME NEW q \in Procs, pc'[q] = "publicar"
      PROVE  /\ hecho'[q] \in Leads /\ leads'[hecho'[q]] # Nada
             /\ leads'[hecho'[q]].clave = pet'[q].clave /\ leads'[hecho'[q]].huella = pet'[q].huella
  BY <1>1, <1>2, <1>3, <1>5
<1> QED BY <1>4, <1>5 DEF Publicando

LEMMA IdsConservan ==
  ASSUME Base, Next
  PROVE  HayIds'
<1>1. /\ IsFiniteSet(Pendientes) /\ IsFiniteSet(Libres)
      /\ Cardinality(Pendientes) \in Nat /\ Cardinality(Libres) \in Nat
      /\ IsFiniteSet({q \in Procs : pc[q] # "libre"})
      /\ Cardinality({q \in Procs : pc[q] # "libre"}) \in Nat
  BY FinitudAssumption, FS_Subset, FS_CardinalityType DEF Pendientes, Libres
<1>2. Cardinality(Pendientes) <= Cardinality(Libres)
  BY DEF Base, HayIds
<1>3. ASSUME Pendientes' \subseteq Pendientes, Libres' = Libres PROVE HayIds'
  <2>1. Cardinality(Pendientes') <= Cardinality(Pendientes) /\ IsFiniteSet(Pendientes')
    BY <1>1, <1>3, FS_Subset
  <2> QED BY <1>1, <1>2, <1>3, <2>1, FS_CardinalityType DEF HayIds
<1>4. ASSUME NEW p \in Procs, \E r \in Peticiones[p] : Pedir(p, r) PROVE HayIds'
  <2> DEFINE Abiertas == {q \in Procs : pc[q] # "libre"}
  <2>1. Libres' = Libres /\ Cardinality(Libres) > Cardinality(Abiertas)
    BY <1>4 DEF Pedir, Libres, intake
  <2>2. Pendientes' \subseteq Pendientes \cup {p} /\ Pendientes \subseteq Abiertas
    BY <1>4, NuncaTocaAjenas DEF Ajenas, Pendientes, Terminos
  <2>3. Cardinality(Pendientes) <= Cardinality(Abiertas)
    BY <1>1, <2>2, FS_Subset
  <2>4. /\ IsFiniteSet(Pendientes \cup {p})
        /\ Cardinality(Pendientes \cup {p}) <= Cardinality(Pendientes) + 1
        /\ Cardinality(Pendientes \cup {p}) \in Nat
    <3>1. /\ IsFiniteSet(Pendientes \cup {p})
          /\ Cardinality(Pendientes \cup {p}) =
               IF p \in Pendientes THEN Cardinality(Pendientes) ELSE Cardinality(Pendientes) + 1
      BY <1>1, FS_AddElement
    <3> QED BY <1>1, <3>1
  <2>5. IsFiniteSet(Pendientes') /\ Cardinality(Pendientes') <= Cardinality(Pendientes \cup {p})
    BY <2>2, <2>4, FS_Subset
  <2>6. Cardinality(Pendientes') \in Nat BY <2>5, FS_CardinalityType
  <2> HIDE DEF Abiertas
  <2> QED BY <1>1, <2>1, <2>3, <2>4, <2>5, <2>6 DEF HayIds, Abiertas
<1>5. ASSUME NEW p \in Procs, Confirmar(p) PROVE HayIds'
  <2>1. pc[p] = "confirmar" /\ pc'[p] = "publicar"
    BY <1>5 DEF Confirmar, Ir, Base, TypeOK
  <2>2. Pendientes' = Pendientes \ {p} /\ p \in Pendientes
    BY <1>5, <2>1, NuncaTocaAjenas DEF Ajenas, Pendientes, Terminos
  <2>3. Libres' = Libres \ {LeadNuevo} /\ LeadNuevo \in Libres
    BY <1>5, FilasDeConfirmar DEF Libres
  <2>4. Cardinality(Pendientes') = Cardinality(Pendientes) - 1
    BY <1>1, <2>2, FS_RemoveElement
  <2>5. Cardinality(Libres') = Cardinality(Libres) - 1
    BY <1>1, <2>3, FS_RemoveElement
  <2> QED BY <1>1, <1>2, <2>4, <2>5 DEF HayIds
<1>6. ASSUME NEW p \in Procs,
             LimpiarFila(p) \/ Reservar(p) \/ Termina(p) \/ \E s \in Pasos : Avanza(p, s)
      PROVE  HayIds'
  <2>1. pc'[p] \notin Terminos => pc[p] \notin Terminos
    BY <1>6 DEF LimpiarFila, Reservar, Termina, Soltar, Avanza, Ir, Base, TypeOK, Terminos
  <2>2. leads' = leads
    BY <1>6 DEF LimpiarFila, Reservar, Termina, Avanza, intake
  <2>3. Pendientes' \subseteq Pendientes
    BY <1>6, <2>1, NuncaTocaAjenas DEF Ajenas, Pendientes, Terminos
  <2> QED BY <1>3, <2>2, <2>3 DEF Libres
<1>7. ASSUME (\E l \in Leads : Borrar(l)) \/ \E k \in Claves : Vencer(k)
      PROVE  HayIds'
  <2>1. pc' = pc BY <1>7 DEF Borrar, Vencer, llamadas
  <2>2. \A l \in Leads : leads'[l] # Nada <=> leads[l] # Nada
    BY <1>7, FilasDeBorrar, FilasDeVencer
  <2> QED BY <1>3, <2>1, <2>2 DEF Libres, Pendientes
<1> QED BY <1>4, <1>5, <1>6, <1>7, Efectos

(***************************************************************************)
(* The invariant, and the promise implemented.                             *)
(***************************************************************************)
LEMMA BaseInicio == Init => Base
<1> SUFFICES ASSUME Init PROVE Base OBVIOUS
<1>1. IP!IInv
  BY SupuestosDelLibro, MismoPaso, IP!InicioIInv DEF Init
<1>2. I!TypeOK
  BY <1>1 DEF IP!IInv, IP!TypeOK, I!TypeOK, IP!Lead, I!Lead, IP!Registro, I!Registro
<1>3. TypeOK
  BY <1>2 DEF Init, TypeOK, Pasos
<1>4. CadaLlamada /\ SoloVencidas /\ Exclusivas /\ Publicando
  BY DEF Init, CadaLlamada, SoloVencidas, Exclusivas, Publicando, Reservo
<1>5. HayIds
  <2>1. Pendientes = {} BY DEF Init, Pendientes, Terminos
  <2>2. IsFiniteSet(Libres) BY FinitudAssumption, FS_Subset DEF Libres
  <2> QED BY <2>1, <2>2, FS_EmptySet, FS_CardinalityType DEF HayIds
<1> QED BY <1>1, <1>3, <1>4, <1>5 DEF Base

LEMMA BaseConserva ==
  ASSUME Base, [Next]_vars
  PROVE  Base'
<1>1. CASE UNCHANGED vars
  BY <1>1, LibroConserva DEF vars, intake, llamadas, Base, TypeOK, CadaLlamada, SoloVencidas,
       Exclusivas, Publicando, HayIds, Reservo, Pendientes, Libres, I!Vencidas
<1>2. CASE Next
  BY <1>2, TiposConservan, LibroConserva, LlamadasConservan, VencidasConservan,
     ExclusivasConservan, PublicandoConserva, IdsConservan DEF Base
<1> QED BY <1>1, <1>2

(* Base is inductive: open transactions hold expired rows only, no two of   *)
(* them the same row or the same key, and their leads are theirs alone      *)
(* (create_solicitud_idempotent).                                           *)
THEOREM LeadIntakeInvariante == Spec => []Base
BY BaseInicio, BaseConserva, PTL DEF Spec

(* The statements of concurrent calls, their rollbacks, deadlocks and       *)
(* losses add up to the promise of POST /api/v1/leads, one step per request *)
(* (create_solicitud_idempotent).                                           *)
THEOREM LeadIntakeImplementa == Spec => ImplementaIntake
<1>1. Init => I!Init
  BY DEF Init
<1> QED
  BY <1>1, PasoImplementa, LeadIntakeInvariante, PTL DEF Spec, ImplementaIntake, I!Spec

(* A key creates at most one lead until it expires, however many calls      *)
(* carry it at once (idempotency_key UNIQUE, create_solicitud_idempotent).  *)
THEOREM LeadIntakeUnLead == Spec => []UnLeadPorVigencia
<1>1. Base => UnLeadPorVigencia
  BY DEF Base, IP!IInv, IP!UnLeadPorVigencia, UnLeadPorVigencia, I!UnLeadPorVigencia
<1> QED
  BY <1>1, LeadIntakeInvariante, PTL

(***************************************************************************)
(* What clients are told.                                                  *)
(***************************************************************************)
Buena(r) ==
  /\ r.tipo = "ok" => /\ r.lead \in Leads /\ leads[r.lead] # Nada
                      /\ leads[r.lead].clave = r.clave /\ leads[r.lead].huella = r.huella
  /\ r.tipo = "conflicto" => \E l \in Leads :
       leads[l] # Nada /\ leads[l].clave = r.clave /\ leads[l].huella # r.huella

Buenas == \A q \in Procs : resp[q] # Nada => Buena(resp[q])

(* The lead that a row names was created with its key and its payload.      *)
LEMMA FilaFiel ==
  ASSUME Base, NEW k \in Claves, registro[k] # Nada
  PROVE  /\ \E l \in Leads : /\ leads[l] # Nada
                             /\ leads[l].clave = k /\ leads[l].huella = registro[k].huella
         /\ registro[k].lead # Nada =>
              /\ registro[k].lead \in Leads /\ leads[registro[k].lead] # Nada
              /\ leads[registro[k].lead].clave = k
              /\ leads[registro[k].lead].huella = registro[k].huella
BY DEF Base, IP!IInv, IP!RegistroFiel

LEMMA SiempreBuena ==
  ASSUME Base, [Next]_vars, NEW r, Buena(r)
  PROVE  Buena(r)'
<1>1. \A l \in Leads : leads[l] # Nada =>
        leads'[l] # Nada /\ leads'[l].clave = leads[l].clave /\ leads'[l].huella = leads[l].huella
  BY LeadsSiguen
<1> QED BY <1>1 DEF Buena

LEMMA RespuestaBuena ==
  ASSUME Base, Next, NEW q \in Procs, resp'[q] # Nada
  PROVE  resp'[q] = resp[q] \/ Buena(resp'[q])
<1> DEFINE Dicho(p, t, l) ==
      [clave |-> pet[p].clave, huella |-> pet[p].huella, tipo |-> t, lead |-> l]
           Bien == resp'[q] = resp[q] \/ Buena(resp'[q])
<1>1. ASSUME NEW p \in Procs, NEW t, NEW l, Responder(p, t, l), Buena(Dicho(p, t, l))
      PROVE  Bien
  <2>1. resp' = [resp EXCEPT ![p] = Dicho(p, t, l)] /\ resp \in [Procs -> Respuesta \cup {Nada}]
    BY <1>1 DEF Responder, Base, TypeOK
  <2> HIDE DEF Dicho
  <2>2. resp'[q] = IF q = p THEN Dicho(p, t, l) ELSE resp[q] BY <2>1
  <2> QED BY <1>1, <2>2
<1>2. ASSUME NEW p \in Procs, Rechazar(p, "sin_resultado") PROVE Bien
  <2>1. Buena(Dicho(p, "sin_resultado", Nada)) BY DEF Buena
  <2> QED BY <1>1, <1>2, <2>1 DEF Rechazar
<1>3. ASSUME NEW p \in Procs, Bloquear(p) PROVE Bien
  <2> DEFINE k == pet[p].clave
  <2>1. k \in Claves BY <1>3, PeticionDe DEF Base, Bloquear
  <2>2. CASE Rechazar(p, "sin_resultado") BY <1>2, <2>2
  <2>3. CASE registro[k] # Nada /\ registro[k].huella # pet[p].huella /\ Rechazar(p, "conflicto")
    <3>1. Buena(Dicho(p, "conflicto", Nada)) BY <2>1, <2>3, FilaFiel DEF Buena
    <3> QED BY <1>1, <2>3, <3>1 DEF Rechazar
  <2>4. CASE registro[k] # Nada /\ registro[k].huella = pet[p].huella
             /\ registro[k].lead # Nada /\ Responder(p, "ok", registro[k].lead)
    <3>1. Buena(Dicho(p, "ok", registro[k].lead)) BY <2>1, <2>4, FilaFiel DEF Buena
    <3> QED BY <1>1, <2>4, <3>1
  <2> HIDE DEF Bien
  <2> QED BY <1>3, <2>2, <2>3, <2>4 DEF Bloquear
<1>4. ASSUME NEW p \in Procs, Publicar(p) PROVE Bien
  <2>1. Buena(Dicho(p, "ok", hecho[p])) BY <1>4 DEF Publicar, Base, Publicando, Buena
  <2> QED BY <1>1, <1>4, <2>1 DEF Publicar
<1>5. ASSUME NEW p \in Procs, Leer(p) PROVE Bien
  BY <1>2, <1>5 DEF Leer
<1>6. ASSUME NEW p \in Procs, \E r \in Peticiones[p] : Pedir(p, r) PROVE Bien
  BY <1>6 DEF Pedir, Base, TypeOK
<1>7. ASSUME NEW p \in Procs,
             LimpiarFila(p) \/ Reservar(p) \/ BuscarPersona(p) \/ InsertarPersona(p)
               \/ Confirmar(p) \/ DetectarInterbloqueo(p) \/ Caida(p)
      PROVE  Bien
  <2>1. resp' = resp
    BY <1>7 DEF LimpiarFila, Reservar, BuscarPersona, InsertarPersona, Confirmar,
                DetectarInterbloqueo, Caida, Abortar
  <2> QED BY <2>1
<1>8. ASSUME (\E l \in Leads : Borrar(l)) \/ \E k \in Claves : Vencer(k) PROVE Bien
  BY <1>8 DEF Borrar, Vencer
<1> HIDE DEF Bien
<1>9. Bien
  BY <1>3, <1>4, <1>5, <1>6, <1>7, <1>8 DEF Next, Paso
<1> QED BY <1>9 DEF Bien

(* Every client that is told a lead is told one created with its own key    *)
(* and data, and a conflict means that other data came first                *)
(* (_resolve_idempotent_replay, registrar_solicitud_idempotente).           *)
THEOREM LeadIntakeRespuestas == Spec => []RespuestasCoherentes
<1>1. Init => Buenas
  BY DEF Init, Buenas
<1>2. ASSUME Base, Buenas, [Next]_vars PROVE Buenas'
  <2> SUFFICES ASSUME NEW q \in Procs, resp'[q] # Nada PROVE Buena(resp[q])'
    BY DEF Buenas
  <2>1. Buena(resp'[q])
    BY <1>2, RespuestaBuena DEF Buenas, vars
  <2>2. ASSUME NEW r, Buena(r) PROVE Buena(r)'
    BY <1>2, <2>2, SiempreBuena
  <2> QED BY <1>2, <2>1, LeadsSiguen DEF Buena
<1>3. Base /\ Buenas => RespuestasCoherentes
  BY DEF Base, Buenas, Buena, RespuestasCoherentes
<1> QED
  BY <1>1, <1>2, <1>3, LeadIntakeInvariante, PTL DEF Spec

(***************************************************************************)
(* What subscribers are told.                                              *)
(***************************************************************************)
LEMMA QuienAvisa ==
  ASSUME Base, Next, avisos' # avisos
  PROVE  \E p \in Procs : Publicar(p) /\ avisos' = [avisos EXCEPT ![hecho[p]] = @ + 1]
<1>1. \A p \in Procs : Publicar(p) =>
        avisos' = avisos \/ avisos' = [avisos EXCEPT ![hecho[p]] = @ + 1]
  BY DEF Publicar
<1>2. ASSUME NEW p \in Procs,
             (\E r \in Peticiones[p] : Pedir(p, r)) \/ LimpiarFila(p) \/ Reservar(p)
               \/ Leer(p) \/ Bloquear(p) \/ BuscarPersona(p) \/ InsertarPersona(p)
               \/ Confirmar(p) \/ DetectarInterbloqueo(p) \/ Caida(p)
      PROVE  avisos' = avisos
  BY <1>2 DEF Pedir, LimpiarFila, Reservar, Leer, Bloquear, BuscarPersona, InsertarPersona,
              Confirmar, DetectarInterbloqueo, Caida, Abortar, Rechazar
<1>3. ASSUME (\E l \in Leads : Borrar(l)) \/ \E k \in Claves : Vencer(k) PROVE avisos' = avisos
  BY <1>3 DEF Borrar, Vencer
<1> QED BY <1>1, <1>2, <1>3 DEF Next, Paso

(* The lead-created event is published at most once and only for a lead     *)
(* that was committed; nobody else publishes it while a call has it to do   *)
(* (_publish_lead_created_event).                                           *)
THEOREM LeadIntakeAvisoUnico == Spec => []AvisoUnicoTrasCommit
<1>1. Init => AvisoUnicoTrasCommit
  BY DEF Init, AvisoUnicoTrasCommit
<1>2. ASSUME Base, AvisoUnicoTrasCommit, [Next]_vars PROVE AvisoUnicoTrasCommit'
  <2>0. /\ avisos \in [Leads -> Nat]
        /\ \A l \in Leads : leads[l] # Nada => leads'[l] # Nada
        /\ \A l \in Leads : avisos[l] <= 1 /\ (avisos[l] = 1 => leads[l] # Nada)
    BY <1>2, LeadsSiguen DEF Base, TypeOK, AvisoUnicoTrasCommit
  <2>1. ASSUME NEW q \in Procs, pc'[q] = "publicar"
        PROVE  /\ hecho'[q] \in Leads /\ leads'[hecho'[q]] # Nada /\ avisos[hecho'[q]] = 0
               /\ \A p \in Procs : Publicar(p) => hecho'[q] # hecho[p]
    <3>0. Base' /\ pc \in [Procs -> Pasos] /\ \A p \in Procs : Publicar(p) => pc[p] = "publicar" /\ p # q
      BY <1>2, <2>1, BaseConserva DEF Base, TypeOK, Publicar, Soltar, Ir
    <3>1. hecho'[q] \in Leads /\ leads'[hecho'[q]] # Nada
      BY <2>1, <3>0 DEF Base, Publicando
    <3>2. CASE pc[q] = "publicar" /\ hecho'[q] = hecho[q]
      BY <1>2, <3>0, <3>1, <3>2 DEF Base, Publicando, AvisoUnicoTrasCommit
    <3>3. CASE Confirmar(q)
      <4>1. hecho'[q] = LeadNuevo /\ leads[LeadNuevo] = Nada /\ LeadNuevo \in Leads
        BY <1>2, <3>3, FilasDeConfirmar DEF Confirmar, Base, TypeOK
      <4>2. avisos[LeadNuevo] = 0
        BY <2>0, <4>1
      <4>3. \A p \in Procs : Publicar(p) => leads[hecho[p]] # Nada
        BY <1>2, <3>0 DEF Base, Publicando
      <4> QED BY <3>1, <4>1, <4>2, <4>3
    <3>4. (pc[q] = "publicar" /\ hecho'[q] = hecho[q]) \/ Confirmar(q)
      BY <1>2, <2>1, QuienPublica DEF vars, llamadas
    <3> QED BY <3>2, <3>3, <3>4
  <2>2. CASE avisos' = avisos
    BY <2>0, <2>1, <2>2 DEF AvisoUnicoTrasCommit
  <2>3. CASE avisos' # avisos
    <3>1. PICK p \in Procs : Publicar(p) /\ avisos' = [avisos EXCEPT ![hecho[p]] = @ + 1]
      BY <1>2, <2>3, QuienAvisa DEF vars
    <3>2. hecho[p] \in Leads /\ avisos[hecho[p]] = 0 /\ leads[hecho[p]] # Nada
      BY <1>2, <3>1 DEF Publicar, Base, Publicando, AvisoUnicoTrasCommit
    <3>3. \A l \in Leads : avisos'[l] = IF l = hecho[p] THEN 1 ELSE avisos[l]
      BY <2>0, <3>1, <3>2
    <3>4. \A l \in Leads : avisos'[l] <= 1 /\ (avisos'[l] = 1 => leads'[l] # Nada)
      BY <2>0, <3>2, <3>3
    <3>5. \A q \in Procs : pc'[q] = "publicar" => leads'[hecho'[q]] # Nada /\ avisos'[hecho'[q]] = 0
      BY <2>1, <3>1, <3>3
    <3> QED BY <3>4, <3>5 DEF AvisoUnicoTrasCommit
  <2> QED BY <2>2, <2>3
<1> QED
  BY <1>1, <1>2, LeadIntakeInvariante, PTL DEF Spec

(***************************************************************************)
(* Who waits for whom.                                                     *)
(***************************************************************************)
(* The rows a call deleted or will still find to delete.                    *)
Vivas(p) ==
  {k \in Claves :
    \/ k \in limpias[p]
    \/ /\ registro[k] # Nada
       /\ \E i \in 1 .. Len(porLimpiar[p]) : porLimpiar[p][i] = <<k, registro[k].vigencia>>}

(* Rows expire and calls begin one after the other, so that a call finds at *)
(* least the rows that those before it found and have not yet deleted.      *)
Anidadas ==
  \A p, q \in Procs : Vivas(p) \subseteq Vivas(q) \/ Vivas(q) \subseteq Vivas(p)

LEMMA VivasVencidas ==
  ASSUME Base, NEW q \in Procs
  PROVE  Vivas(q) \subseteq I!Vencidas
<1> SUFFICES ASSUME NEW k \in Vivas(q) PROVE k \in I!Vencidas OBVIOUS
<1>1. CASE k \in limpias[q]
  BY <1>1 DEF Base, SoloVencidas
<1>2. CASE k \notin limpias[q]
  <2>1. PICK i \in 1 .. Len(porLimpiar[q]) : porLimpiar[q][i] = <<k, registro[k].vigencia>>
    BY <1>2 DEF Vivas
  <2>2. porLimpiar[q][i][2] < vigencia[porLimpiar[q][i][1]]
    BY DEF Base, SoloVencidas
  <2> QED BY <1>2, <2>1, <2>2 DEF Vivas, I!Vencidas
<1> QED BY <1>1, <1>2

(* The end of a transaction takes the rows it deleted from everybody.       *)
LEMMA VivasTrasFin ==
  ASSUME Base, NEW p \in Procs, Termina(p) \/ Confirmar(p)
  PROVE  /\ Vivas(p)' = {}
         /\ \/ \A q \in Procs \ {p} : Vivas(q)' = Vivas(q)
            \/ \A q \in Procs \ {p} : Vivas(q)' = Vivas(q) \ limpias[p]
<1>1. Ajenas(p) BY NuncaTocaAjenas
<1>2. limpias'[p] = {} /\ porLimpiar'[p] = <<>>
  BY DEF Termina, Soltar, Confirmar, Base, TypeOK, CadaLlamada
<1>3. Vivas(p)' = {} BY <1>2 DEF Vivas
<1>4. CASE Termina(p)
  <2>1. CASE registro' = registro
    <3>1. ASSUME NEW q \in Procs \ {p} PROVE Vivas(q)' = Vivas(q)
      <4>1. limpias'[q] = limpias[q] /\ porLimpiar'[q] = porLimpiar[q] BY <1>1 DEF Ajenas
      <4> QED BY <2>1, <4>1 DEF Vivas
    <3> QED BY <1>3, <3>1
  <2>2. CASE registro' = I!Sin(limpias[p])
    <3>1. \A k \in Claves : registro'[k] = IF k \in limpias[p] THEN Nada ELSE registro[k]
      BY <2>2, SinFilas DEF Base, TypeOK
    <3>2. \A q \in Procs \ {p} : limpias[p] \cap limpias[q] = {}
      BY DEF Base, Exclusivas
    <3>3. ASSUME NEW q \in Procs \ {p}, NEW k \in Claves
          PROVE  k \in Vivas(q)' <=> k \in Vivas(q) \ limpias[p]
      <4>1. limpias'[q] = limpias[q] /\ porLimpiar'[q] = porLimpiar[q]
        BY <1>1 DEF Ajenas
      <4>2. CASE k \in limpias[p] BY <3>1, <3>2, <4>1, <4>2 DEF Vivas
      <4>3. CASE k \notin limpias[p] BY <3>1, <4>1, <4>3 DEF Vivas
      <4> QED BY <4>2, <4>3
    <3>4. \A q \in Procs \ {p} : Vivas(q)' = Vivas(q) \ limpias[p]
      BY <3>3 DEF Vivas
    <3> QED BY <1>3, <3>4
  <2> QED BY <1>4, <2>1, <2>2 DEF Termina
<1>5. CASE Confirmar(p)
  <2> DEFINE k == pet[p].clave
  <2>1. /\ k \in Claves /\ Reservo(p)
        /\ registro'[k] = [huella |-> pet[p].huella, lead |-> LeadNuevo, vigencia |-> vigencia[k]]
    <3>1. pc[p] = "confirmar" /\ k \in Claves /\ limpias[p] \in SUBSET Claves
      BY <1>5, PeticionDe DEF Confirmar, Base, TypeOK
    <3>2. I!Sin(limpias[p]) \in [Claves -> Registro \cup {Nada}]
      BY <3>1, SinFilas DEF Base
    <3> QED BY <1>5, <3>1, <3>2 DEF Confirmar, Reservo
  <2>2. \A j \in Claves : j # k => registro'[j] = IF j \in limpias[p] THEN Nada ELSE registro[j]
    BY <1>5, FilasDeConfirmar
  <2>3. registro[k] = Nada \/ k \in limpias[p]
    BY <2>1 DEF Base, Exclusivas
  <2>4. ASSUME NEW q \in Procs \ {p} PROVE Vivas(q)' = Vivas(q) \ limpias[p]
    <3>1. /\ limpias'[q] = limpias[q] /\ porLimpiar'[q] = porLimpiar[q]
          /\ limpias[p] \cap limpias[q] = {} /\ limpias[q] \subseteq I!Vencidas
      BY <1>1 DEF Ajenas, Base, Exclusivas, SoloVencidas
    <3>2. \A i \in 1 .. Len(porLimpiar[q]) : porLimpiar[q][i] # <<k, registro'[k].vigencia>>
      <4>1. SUFFICES ASSUME NEW i \in 1 .. Len(porLimpiar[q]),
                            porLimpiar[q][i] = <<k, registro'[k].vigencia>>
                     PROVE  FALSE
        OBVIOUS
      <4>2. porLimpiar[q][i][2] < vigencia[porLimpiar[q][i][1]]
        BY DEF Base, SoloVencidas
      <4>3. vigencia[k] \in Nat
        BY <2>1 DEF Base, TypeOK, I!TypeOK
      <4> QED BY <2>1, <4>1, <4>2, <4>3
    <3>3. k \notin Vivas(q) \ limpias[p]
      BY <2>3, <3>1 DEF Vivas, I!Vencidas
    <3>4. k \notin Vivas(q)'
      <4>1. k \notin limpias[q] BY <2>3, <3>1 DEF I!Vencidas
      <4> QED BY <3>1, <3>2, <4>1 DEF Vivas
    <3>5. ASSUME NEW j \in Claves, j # k PROVE j \in Vivas(q)' <=> j \in Vivas(q) \ limpias[p]
      BY <2>2, <3>1, <3>5 DEF Vivas
    <3> QED BY <3>3, <3>4, <3>5 DEF Vivas
  <2> QED BY <1>3, <2>4
<1> QED BY <1>4, <1>5

LEMMA AnidadasConserva ==
  ASSUME Base, Anidadas, [Next]_vars
  PROVE  Anidadas'
<1>0. CASE \A q \in Procs : Vivas(q)' = Vivas(q)
  BY <1>0 DEF Anidadas
<1>1. CASE UNCHANGED vars
  BY <1>0, <1>1 DEF vars, intake, llamadas, Vivas
<1>2. ASSUME NEW p \in Procs, \E r \in Peticiones[p] : Pedir(p, r) PROVE Anidadas'
  <2>1. UNCHANGED <<registro, limpias>> /\ Ajenas(p) /\ limpias[p] = {}
    BY <1>2, NuncaTocaAjenas DEF Pedir, intake, Base, CadaLlamada, Terminos
  <2>2. \A q \in Procs \ {p} : Vivas(q)' = Vivas(q)
    BY <2>1 DEF Vivas, Ajenas
  <2>3. I!Vencidas \subseteq Vivas(p)'
    <3>1. PICK s \in SetToSeqs({<<k, registro[k].vigencia>> : k \in I!Vencidas}) :
            porLimpiar'[p] = s
      BY <1>2 DEF Pedir, Base, TypeOK
    <3>2. \A k \in I!Vencidas : \E i \in 1 .. Len(s) : s[i] = <<k, registro[k].vigencia>>
      BY FilasDelDelete DEF Base
    <3> QED BY <2>1, <3>1, <3>2 DEF Vivas, I!Vencidas
  <2>4. \A q \in Procs \ {p} : Vivas(q) \subseteq I!Vencidas
    BY VivasVencidas
  <2>5. \A q \in Procs \ {p} : Vivas(q)' \subseteq Vivas(p)'
    BY <2>2, <2>3, <2>4
  <2> QED BY <2>2, <2>5 DEF Anidadas
<1>3. ASSUME NEW p \in Procs, LimpiarFila(p) PROVE Anidadas'
  <2> DEFINE s == porLimpiar[p]
             k == Head(s)[1]
             queda == registro[k] # Nada /\ registro[k].vigencia = Head(s)[2]
  <2>1. /\ s \in Seq(Claves \X Nat) /\ s # <<>> /\ UNCHANGED registro
        /\ porLimpiar'[p] = Tail(s)
        /\ limpias'[p] = IF queda THEN limpias[p] \cup {k} ELSE limpias[p]
    BY <1>3 DEF LimpiarFila, Base, TypeOK, CadaLlamada, intake
  <2>2. /\ Head(s) = s[1] /\ 1 \in 1 .. Len(s) /\ s[1] \in Claves \X Nat
        /\ Len(Tail(s)) = Len(s) - 1 /\ Len(s) \in Nat
        /\ \A i \in 1 .. Len(Tail(s)) : i + 1 \in 1 .. Len(s) /\ Tail(s)[i] = s[i + 1]
    BY <2>1, ColaDe
  <2>3. s[1] = <<k, Head(s)[2]>> /\ k \in Claves
    BY <2>2
  <2>4. ASSUME NEW j \in Claves
        PROVE  j \in Vivas(p)' <=> j \in Vivas(p)
    <3> DEFINE par == <<j, registro[j].vigencia>>
    <3>1. (\E i \in 1 .. Len(s) : s[i] = par)
            <=> (s[1] = par \/ \E i \in 1 .. Len(Tail(s)) : Tail(s)[i] = par)
      <4>1. ASSUME NEW i \in 1 .. Len(s), s[i] = par
            PROVE  s[1] = par \/ \E n \in 1 .. Len(Tail(s)) : Tail(s)[n] = par
        <5>1. CASE i = 1 BY <4>1, <5>1
        <5>2. CASE i # 1
          <6>1. i - 1 \in 1 .. Len(Tail(s)) /\ (i - 1) + 1 = i BY <2>2, <5>2
          <6>2. Tail(s)[i - 1] = s[i] BY <2>2, <6>1
          <6> QED BY <4>1, <6>1, <6>2
        <5> QED BY <5>1, <5>2
      <4> QED BY <2>2, <4>1
    <3>2. registro[j] # Nada => (s[1] = par <=> (j = k /\ queda))
      BY <2>3
    <3>3. j \in limpias'[p] <=> (j \in limpias[p] \/ (j = k /\ queda))
      BY <2>1
    <3> HIDE DEF s, k, queda, par
    <3>4. porLimpiar'[p] = Tail(s) /\ porLimpiar[p] = s /\ registro' = registro
      BY <2>1 DEF s
    <3>5. (j = k /\ queda) => registro[j] # Nada
      BY DEF queda
    <3>6. j \in Vivas(p) <=> (j \in limpias[p]
                            \/ (registro[j] # Nada /\ \E i \in 1 .. Len(s) : s[i] = par))
      BY <3>4 DEF Vivas, par
    <3>7. j \in Vivas(p)' <=> (j \in limpias'[p]
                    \/ (registro[j] # Nada /\ \E i \in 1 .. Len(Tail(s)) : Tail(s)[i] = par))
      BY <3>4 DEF Vivas, par
    <3> QED BY <3>1, <3>2, <3>3, <3>5, <3>6, <3>7
  <2>5. Vivas(p)' = Vivas(p)
    BY <2>4 DEF Vivas
  <2>6. \A q \in Procs \ {p} : Vivas(q)' = Vivas(q)
    <3>1. Ajenas(p) BY <1>3, NuncaTocaAjenas
    <3>2. registro' = registro BY <2>1
    <3> QED BY <3>1, <3>2 DEF Ajenas, Vivas
  <2> QED BY <1>0, <2>5, <2>6
<1>4. ASSUME NEW p \in Procs, Reservar(p) \/ \E s \in Pasos : Avanza(p, s) PROVE Anidadas'
  <2>1. UNCHANGED <<registro, limpias, porLimpiar>>
    BY <1>4 DEF Reservar, Avanza, intake
  <2> QED BY <1>0, <2>1 DEF Vivas
<1>5. ASSUME NEW p \in Procs, Termina(p) \/ Confirmar(p) PROVE Anidadas'
  BY <1>5, VivasTrasFin DEF Anidadas
<1>6. ASSUME (\E l \in Leads : Borrar(l)) \/ \E k \in Claves : Vencer(k) PROVE Anidadas'
  <2>1. /\ UNCHANGED <<limpias, porLimpiar>>
        /\ \A k \in Claves : /\ registro'[k] # Nada <=> registro[k] # Nada
                             /\ registro[k] # Nada => registro'[k].vigencia = registro[k].vigencia
    BY <1>6, FilasDeBorrar, FilasDeVencer DEF llamadas
  <2> QED BY <1>0, <2>1 DEF Vivas
<1> QED BY <1>1, <1>2, <1>3, <1>4, <1>5, <1>6, Efectos

(* Of the calls that are done with the expired rows, one has rows deleted.  *)
LEMMA UnSoloBorrador ==
  ASSUME Base, Anidadas, NEW p \in Procs, NEW q \in Procs \ {p},
         pc[p] # "limpiar", pc[q] # "limpiar", limpias[p] # {}
  PROVE  limpias[q] = {}
<1>1. porLimpiar[p] = <<>> /\ porLimpiar[q] = <<>>
      /\ limpias[p] \subseteq Claves /\ limpias[q] \subseteq Claves
  BY DEF Base, CadaLlamada, TypeOK
<1>2. Vivas(p) = limpias[p] /\ Vivas(q) = limpias[q]
  BY <1>1 DEF Vivas
<1>3. limpias[p] \cap limpias[q] = {}
  BY DEF Base, Exclusivas
<1> QED BY <1>2, <1>3 DEF Anidadas

Cerrado(S) == \A q \in S : EsperaA(q) \subseteq S

(* A call that has its key reserved waits at most for the insertion of a    *)
(* persona, by a call that waits for nobody.                                *)
LEMMA ReservadoresCerrados ==
  ASSUME Base
  PROVE  Cerrado({q \in Procs : pc[q] = "confirmar"}) /\ Cerrado({q \in Procs : Reservo(q)})
<1>1. \A q \in Procs : pc[q] \in {"persona", "confirmar"} => EsperaA(q) = {}
  BY DEF EsperaA
<1>2. \A q \in Procs : pc[q] = "insertar" => EsperaA(q) \subseteq {r \in Procs : pc[r] = "confirmar"}
  BY DEF EsperaA, InsertandoRut, Base, CadaLlamada
<1> QED BY <1>1, <1>2 DEF Cerrado, Reservo

(* Suppose p waits in a cycle without such calls.  M is everything that can *)
(* be reached without coming back to p, and p would wait for calls of M     *)
(* only: those that reserved a key, those that delete rows (not in a cycle, *)
(* so they do not lead back to p), and the one that has rows deleted, which *)
(* waits for calls of the first two kinds.                                  *)
LEMMA CicloDeLimpieza == Base /\ Anidadas => SoloLaLimpiezaInterbloquea
<1> SUFFICES ASSUME Base, Anidadas, NEW p \in Procs, EnCiclo(p),
                    \A q \in Procs : pc[q] = "limpiar" => ~EnCiclo(q)
             PROVE  FALSE
  BY DEF SoloLaLimpiezaInterbloquea
<1> DEFINE R == {q \in Procs : Reservo(q)}
           C == {q \in Procs : pc[q] = "confirmar"}
           M == UNION {S \in SUBSET Procs : Cerrado(S) /\ p \notin S}
<1>1. Cerrado(M) /\ p \notin M /\ M \subseteq Procs
  BY DEF Cerrado
<1>2. \A S \in SUBSET Procs : Cerrado(S) /\ p \notin S => S \subseteq M
  OBVIOUS
<1>3. pc[p] # "limpiar"
  OBVIOUS
<1>4. ASSUME NEW S \in SUBSET Procs, Cerrado(S), EsperaA(p) \subseteq S, p \notin S PROVE FALSE
  BY <1>4 DEF EnCiclo, Cerrado
<1>5. pc[p] # "insertar"
  <2>1. SUFFICES ASSUME pc[p] = "insertar" PROVE FALSE OBVIOUS
  <2>2. EsperaA(p) \subseteq C /\ p \notin C
    BY <2>1 DEF EsperaA, InsertandoRut, Base, CadaLlamada
  <2> QED BY <1>4, <2>2, ReservadoresCerrados
<1>6. pc[p] \in {"reservar", "bloquear"}
  <2>1. SUFFICES ASSUME pc[p] \notin {"reservar", "bloquear"} PROVE FALSE OBVIOUS
  <2>2. EsperaA(p) = {} BY <1>3, <1>5, <2>1 DEF EsperaA
  <2> QED BY <1>4, <2>2 DEF Cerrado
<1>7. R \subseteq M
  BY <1>2, <1>6, ReservadoresCerrados DEF Reservo
<1>8. ASSUME NEW q \in Procs, pc[q] \in {"reservar", "bloquear"}, NEW w \in EsperaA(q)
      PROVE  w \in Procs \ {q} /\ (w \in R \/ limpias[w] # {})
  BY <1>8 DEF EsperaA, Reservando, Limpiando
<1>9. ASSUME NEW q \in Procs, pc[q] = "limpiar"
      PROVE  \E S \in SUBSET Procs : EsperaA(q) \subseteq S /\ Cerrado(S) /\ q \notin S
  BY <1>9 DEF EnCiclo, Cerrado
<1>10. ASSUME NEW q \in EsperaA(p), NEW w \in EsperaA(q) \cup {q}, w \in Procs, pc[w] = "limpiar"
       PROVE  w \in M
  <2>1. PICK S \in SUBSET Procs : EsperaA(w) \subseteq S /\ Cerrado(S) /\ w \notin S
    BY <1>9, <1>10
  <2>2. p \notin S
    BY <1>10, <2>1 DEF Cerrado
  <2>3. Cerrado(S \cup {w}) /\ p \notin S \cup {w}
    BY <1>3, <1>10, <2>1, <2>2 DEF Cerrado
  <2> QED BY <1>2, <1>10, <2>3
<1>11. ASSUME NEW q \in EsperaA(p) PROVE q \in M
  <2>1. q \in Procs \ {p} /\ (q \in R \/ limpias[q] # {})
    BY <1>6, <1>8
  <2>2. CASE q \in R BY <1>7, <2>2
  <2>3. CASE pc[q] = "limpiar" BY <1>10, <2>1, <2>3
  <2>4. CASE q \notin R /\ pc[q] # "limpiar"
    <3>1. EsperaA(q) \subseteq M
      <4>1. CASE pc[q] \in {"reservar", "bloquear"}
        <5> SUFFICES ASSUME NEW w \in EsperaA(q) PROVE w \in M OBVIOUS
        <5>1. w \in Procs \ {q} /\ (w \in R \/ limpias[w] # {})
          BY <1>8, <2>1, <4>1
        <5>2. CASE w \in R BY <1>7, <5>2
        <5>3. CASE w \notin R
          <6>1. pc[w] = "limpiar"
            BY <2>1, <2>4, <5>1, <5>3, UnSoloBorrador
          <6> QED BY <1>10, <5>1, <6>1
        <5> QED BY <5>2, <5>3
      <4>2. CASE pc[q] \notin {"reservar", "bloquear"}
        <5>1. pc[q] \notin {"limpiar", "reservar", "bloquear", "insertar"}
          BY <2>1, <2>4, <4>2 DEF Reservo
        <5>2. EsperaA(q) = {} BY <5>1 DEF EsperaA
        <5> HIDE DEF M
        <5> QED BY <5>2
      <4> QED BY <4>1, <4>2
    <3>2. Cerrado(M \cup {q}) /\ p \notin M \cup {q}
      BY <1>1, <2>1, <3>1 DEF Cerrado
    <3> QED BY <1>1, <1>2, <2>1, <3>2
  <2> QED BY <2>2, <2>3, <2>4
<1> QED BY <1>1, <1>4, <1>11

(* Keys, replays and personas are always locked in the same order: a cycle  *)
(* of waits needs a call that is still deleting expired keys (the DELETE of *)
(* create_solicitud_idempotent).                                            *)
THEOREM LeadIntakeSoloLaLimpieza == Spec => []SoloLaLimpiezaInterbloquea
<1>1. Init => Anidadas
  BY DEF Init, I!Init, Anidadas, Vivas
<1>2. Base /\ Anidadas /\ [Next]_vars => Anidadas'
  BY AnidadasConserva
<1> QED
  BY <1>1, <1>2, LeadIntakeInvariante, CicloDeLimpieza, PTL DEF Spec

-----------------------------------------------------------------------------
(***************************************************************************)
(* The way in: the rate limiter, the pool and the honeypot of PuertaApi.   *)
(***************************************************************************)
USE PuertaAssumption

(***************************************************************************)
(* Types, and what each action leaves in the thread that runs it.          *)
(***************************************************************************)
PasosPuerta ==
  {"libre", "podar", "sacar", "contar", "anotar", "dentro", "pool", "construir", "obtener",
   "usar", "devolver"}

FichaHilo ==
  [paso : PasosPuerta, ahora : Nat, trampa : BOOLEAN, etapa : {"catalogo", "alta", "fin"},
   toma : Tomas \cup {Nadie}, estado : Nat, guardo : BOOLEAN]

FichaPool == [abierta : BOOLEAN, candado : Hilos \cup {Nadie}, libres : SUBSET Tomas]

FichaLibro == [entradas : Nat, admitidas : Seq(Nat), negadas : SUBSET Nat, cruce : BOOLEAN]

TiposPuerta ==
  /\ reloj \in Nat
  /\ intentos \in Seq(Nat)
  /\ piscina \in FichaPool
  /\ hilo \in [Hilos -> FichaHilo]
  /\ libro \in FichaLibro

Queda(h, paso, hora, etapa, toma, estado) ==
  /\ hilo' \in [Hilos -> FichaHilo]
  /\ \A k \in Hilos \ {h} : hilo'[k] = hilo[k]
  /\ hilo'[h].paso = paso /\ hilo'[h].ahora = hora
  /\ hilo'[h].etapa = etapa /\ hilo'[h].toma = toma /\ hilo'[h].estado = estado

(* Neither the honeypot answered nor anything was kept; or as before.       *)
SinNada(h) == ~hilo'[h].trampa /\ ~hilo'[h].guardo

Mismo(h) == (hilo'[h].trampa <=> hilo[h].trampa) /\ (hilo'[h].guardo <=> hilo[h].guardo)

(* Of the log only the fields that the limiter's properties read.           *)
LibroIgual ==
  /\ libro' \in FichaLibro
  /\ libro'.admitidas = libro.admitidas /\ libro'.negadas = libro.negadas

LEMMA Reemplazo ==
  ASSUME TiposPuerta, NEW h \in Hilos, NEW x \in FichaHilo, hilo' = [hilo EXCEPT ![h] = x]
  PROVE  /\ Queda(h, x.paso, x.ahora, x.etapa, x.toma, x.estado)
         /\ (hilo'[h].trampa <=> x.trampa) /\ (hilo'[h].guardo <=> x.guardo)
  BY DEF TiposPuerta, Queda

LEMMA FichaDe == ASSUME TiposPuerta, NEW h \in Hilos PROVE hilo[h] \in FichaHilo
  BY DEF TiposPuerta

LEMMA EfectoPasa ==
  ASSUME TiposPuerta, NEW h \in Hilos, NEW p \in PasosPuerta, Pasa(h, p)
  PROVE  Queda(h, p, hilo[h].ahora, hilo[h].etapa, hilo[h].toma, hilo[h].estado) /\ Mismo(h)
<1> DEFINE x == [hilo[h] EXCEPT !.paso = p]
<1>1. x \in FichaHilo
  BY FichaDe DEF FichaHilo
<1>2. /\ x.paso = p /\ x.ahora = hilo[h].ahora /\ x.trampa = hilo[h].trampa
      /\ x.etapa = hilo[h].etapa /\ x.toma = hilo[h].toma
      /\ x.estado = hilo[h].estado /\ x.guardo = hilo[h].guardo
  BY FichaDe DEF FichaHilo
<1>3. hilo' = [hilo EXCEPT ![h] = x]
  BY DEF Pasa
<1> HIDE DEF x
<1>4. Queda(h, x.paso, x.ahora, x.etapa, x.toma, x.estado) /\ Mismo(h)
  BY <1>1, <1>2, <1>3, Reemplazo DEF Mismo
<1> QED
  BY <1>2, <1>4

LEMMA QuietoEsFicha ==
  /\ Quieto \in FichaHilo
  /\ Quieto = [paso |-> "libre", ahora |-> 0, trampa |-> FALSE, etapa |-> "catalogo",
               toma |-> Nadie, estado |-> 0, guardo |-> FALSE]
  BY DEF Quieto, FichaHilo, PasosPuerta

LEMMA EfectoResponde ==
  ASSUME TiposPuerta, NEW h \in Hilos, NEW n \in Nat, Responde(h, n)
  PROVE  Queda(h, "libre", 0, "catalogo", Nadie, n) /\ SinNada(h)
<1> DEFINE x == [Quieto EXCEPT !.estado = n]
<1>1. x \in FichaHilo
  BY QuietoEsFicha DEF FichaHilo
<1>2. /\ x.paso = "libre" /\ x.ahora = 0 /\ x.trampa = FALSE /\ x.etapa = "catalogo"
      /\ x.toma = Nadie /\ x.estado = n /\ x.guardo = FALSE
  BY DEF Quieto
<1>3. hilo' = [hilo EXCEPT ![h] = x]
  BY DEF Responde
<1> HIDE DEF x
<1>4. Queda(h, x.paso, x.ahora, x.etapa, x.toma, x.estado) /\ SinNada(h)
  BY <1>1, <1>2, <1>3, Reemplazo DEF SinNada
<1> QED
  BY <1>2, <1>4

LEMMA EfectoLlegar ==
  ASSUME TiposPuerta, NEW h \in Hilos, Llegar(h)
  PROVE  /\ hilo[h].paso = "libre"
         /\ \/ Queda(h, "libre", 0, "catalogo", Nadie, 415) /\ SinNada(h) /\ libro'.cruce = libro.cruce
            \/ /\ Queda(h, "podar", reloj, "catalogo", Nadie, 0) /\ SinNada(h)
               /\ libro'.cruce = (libro.cruce \/ EnLimite # {})
         /\ LibroIgual /\ UNCHANGED <<reloj, intentos, piscina>>
<1> DEFINE x == [Quieto EXCEPT !.paso = "podar", !.ahora = reloj]
<1>1. x \in FichaHilo
  BY QuietoEsFicha DEF FichaHilo, PasosPuerta, TiposPuerta
<1>2. /\ x.paso = "podar" /\ x.ahora = reloj /\ x.trampa = FALSE /\ x.etapa = "catalogo"
      /\ x.toma = Nadie /\ x.estado = 0 /\ x.guardo = FALSE
  BY DEF Quieto
<1> HIDE DEF x
<1>3. ASSUME Responde(h, 415), libro' = [libro EXCEPT !.entradas = @ + 1]
      PROVE  /\ Queda(h, "libre", 0, "catalogo", Nadie, 415) /\ SinNada(h)
             /\ libro'.cruce = libro.cruce /\ LibroIgual
  <2>1. Queda(h, "libre", 0, "catalogo", Nadie, 415) /\ SinNada(h)
    BY <1>3, EfectoResponde
  <2>2. libro \in FichaLibro
    BY DEF TiposPuerta
  <2>3. libro.entradas + 1 \in Nat
    BY <2>2 DEF FichaLibro
  <2>4. libro'.cruce = libro.cruce /\ LibroIgual
    BY <1>3, <2>2, <2>3 DEF FichaLibro, LibroIgual
  <2> QED
    BY <2>1, <2>4
<1>4. ASSUME hilo' = [hilo EXCEPT ![h] = x],
             libro' = [libro EXCEPT !.entradas = @ + 1, !.cruce = @ \/ EnLimite # {}]
      PROVE  /\ Queda(h, "podar", reloj, "catalogo", Nadie, 0) /\ SinNada(h)
             /\ libro'.cruce = (libro.cruce \/ EnLimite # {}) /\ LibroIgual
  <2>0. Queda(h, x.paso, x.ahora, x.etapa, x.toma, x.estado) /\ SinNada(h)
    BY <1>1, <1>2, <1>4, Reemplazo DEF SinNada
  <2>1. Queda(h, "podar", reloj, "catalogo", Nadie, 0) /\ SinNada(h)
    BY <1>2, <2>0
  <2>2. libro \in FichaLibro
    BY DEF TiposPuerta
  <2>3. libro.entradas + 1 \in Nat /\ (libro.cruce \/ EnLimite # {}) \in BOOLEAN
    BY <2>2 DEF FichaLibro
  <2>4. libro'.cruce = (libro.cruce \/ EnLimite # {}) /\ LibroIgual
    BY <1>4, <2>2, <2>3 DEF FichaLibro, LibroIgual
  <2> QED
    BY <2>1, <2>4
<1> QED
  BY <1>3, <1>4 DEF Llegar, En, x

LEMMA EfectoPodar ==
  ASSUME TiposPuerta, NEW h \in Hilos, Podar(h)
  PROVE  /\ hilo[h].paso = "podar"
         /\ Queda(h, IF intentos # << >> /\ Vencido(Head(intentos), hilo[h].ahora)
                     THEN "sacar" ELSE "contar",
                  hilo[h].ahora, hilo[h].etapa, hilo[h].toma, hilo[h].estado)
         /\ Mismo(h)
         /\ UNCHANGED <<reloj, intentos, piscina, libro>>
  BY EfectoPasa DEF Podar, En, PasosPuerta

LEMMA EfectoSacar ==
  ASSUME TiposPuerta, NEW h \in Hilos, Sacar(h)
  PROVE  /\ hilo[h].paso = "sacar"
         /\ \/ /\ intentos = << >> /\ intentos' = intentos
               /\ Queda(h, "libre", 0, "catalogo", Nadie, 500) /\ SinNada(h)
            \/ /\ intentos # << >> /\ intentos' = Tail(intentos)
               /\ Queda(h, "podar", hilo[h].ahora, hilo[h].etapa, hilo[h].toma, hilo[h].estado) /\ Mismo(h)
         /\ UNCHANGED <<reloj, piscina, libro>>
  BY EfectoPasa, EfectoResponde DEF Sacar, En, PasosPuerta

LEMMA EfectoContar ==
  ASSUME TiposPuerta, NEW h \in Hilos, Contar(h)
  PROVE  /\ hilo[h].paso = "contar"
         /\ \/ /\ Len(intentos) >= max_requests
               /\ Queda(h, "libre", 0, "catalogo", Nadie, 429) /\ SinNada(h)
               /\ libro' \in FichaLibro /\ libro'.admitidas = libro.admitidas
               /\ libro'.negadas = libro.negadas \cup {hilo[h].ahora}
            \/ /\ Len(intentos) < max_requests
               /\ Queda(h, "anotar", hilo[h].ahora, hilo[h].etapa, hilo[h].toma, hilo[h].estado) /\ Mismo(h)
               /\ libro' = libro
         /\ libro'.cruce = libro.cruce
         /\ UNCHANGED <<reloj, intentos, piscina>>
<1>1. hilo[h].ahora \in Nat /\ Len(intentos) \in Nat
  BY FichaDe DEF FichaHilo, TiposPuerta
<1>2. ASSUME Responde(h, 429), libro' = [libro EXCEPT !.negadas = @ \cup {hilo[h].ahora}]
      PROVE  /\ Queda(h, "libre", 0, "catalogo", Nadie, 429) /\ SinNada(h)
             /\ libro' \in FichaLibro /\ libro'.admitidas = libro.admitidas
             /\ libro'.negadas = libro.negadas \cup {hilo[h].ahora}
             /\ libro'.cruce = libro.cruce
  <2>1. Queda(h, "libre", 0, "catalogo", Nadie, 429) /\ SinNada(h)
    BY <1>2, EfectoResponde
  <2>2. libro \in FichaLibro
    BY DEF TiposPuerta
  <2> QED
    BY <1>1, <1>2, <2>1, <2>2 DEF FichaLibro
<1>3. ASSUME Pasa(h, "anotar")
      PROVE  Queda(h, "anotar", hilo[h].ahora, hilo[h].etapa, hilo[h].toma, hilo[h].estado) /\ Mismo(h)
  BY <1>3, EfectoPasa DEF PasosPuerta
<1> QED
  BY <1>1, <1>2, <1>3 DEF Contar, En

LEMMA EfectoAnotar ==
  ASSUME TiposPuerta, NEW h \in Hilos, Anotar(h)
  PROVE  /\ hilo[h].paso = "anotar"
         /\ Queda(h, "dentro", 0, hilo[h].etapa, hilo[h].toma, hilo[h].estado) /\ Mismo(h)
         /\ intentos' = Append(intentos, hilo[h].ahora)
         /\ libro' \in FichaLibro /\ libro'.negadas = libro.negadas
         /\ libro'.admitidas = Append(libro.admitidas, hilo[h].ahora)
         /\ libro'.cruce = libro.cruce
         /\ UNCHANGED <<reloj, piscina>>
<1> DEFINE x == [hilo[h] EXCEPT !.paso = "dentro", !.ahora = 0]
<1>1. x \in FichaHilo
  BY FichaDe DEF FichaHilo, PasosPuerta
<1>2. /\ x.paso = "dentro" /\ x.ahora = 0 /\ x.trampa = hilo[h].trampa
      /\ x.etapa = hilo[h].etapa /\ x.toma = hilo[h].toma
      /\ x.estado = hilo[h].estado /\ x.guardo = hilo[h].guardo
  BY FichaDe DEF FichaHilo
<1>3. hilo' = [hilo EXCEPT ![h] = x]
  BY DEF Anotar, TiposPuerta
<1> HIDE DEF x
<1>4. Queda(h, "dentro", 0, hilo[h].etapa, hilo[h].toma, hilo[h].estado) /\ Mismo(h)
  <2>1. Queda(h, x.paso, x.ahora, x.etapa, x.toma, x.estado) /\ Mismo(h)
    BY <1>1, <1>2, <1>3, Reemplazo DEF Mismo
  <2> QED
    BY <1>2, <2>1
<1>5. hilo[h].ahora \in Nat /\ libro \in FichaLibro
  BY FichaDe DEF FichaHilo, TiposPuerta
<1>6. Append(libro.admitidas, hilo[h].ahora) \in Seq(Nat)
  BY <1>5 DEF FichaLibro
<1>7. libro' = [libro EXCEPT !.admitidas = Append(libro.admitidas, hilo[h].ahora)]
  BY DEF Anotar
<1>8. /\ libro' \in FichaLibro /\ libro'.negadas = libro.negadas
      /\ libro'.admitidas = Append(libro.admitidas, hilo[h].ahora)
      /\ libro'.cruce = libro.cruce
  BY <1>5, <1>6, <1>7 DEF FichaLibro
<1> QED
  BY <1>4, <1>8 DEF Anotar, En

LEMMA EfectoMirar ==
  ASSUME TiposPuerta, NEW h \in Hilos, Mirar(h)
  PROVE  /\ hilo[h].paso = "dentro"
         /\ \/ Queda(h, "pool", hilo[h].ahora, hilo[h].etapa, hilo[h].toma, hilo[h].estado) /\ Mismo(h)
            \/ \E n \in {400, 422, 503} : Queda(h, "libre", 0, "catalogo", Nadie, n) /\ SinNada(h)
            \/ Queda(h, "libre", 0, "catalogo", Nadie, 201) /\ hilo'[h].trampa /\ ~hilo'[h].guardo
         /\ UNCHANGED <<reloj, intentos, piscina, libro>>
<1> DEFINE x == [Quieto EXCEPT !.estado = 201, !.trampa = TRUE]
<1>1. x \in FichaHilo
  BY QuietoEsFicha DEF FichaHilo
<1>2. /\ x.paso = "libre" /\ x.ahora = 0 /\ x.trampa = TRUE /\ x.etapa = "catalogo"
      /\ x.toma = Nadie /\ x.estado = 201 /\ x.guardo = FALSE
  BY DEF Quieto
<1> HIDE DEF x
<1>3. ASSUME hilo' = [hilo EXCEPT ![h] = x]
      PROVE  Queda(h, "libre", 0, "catalogo", Nadie, 201) /\ hilo'[h].trampa /\ ~hilo'[h].guardo
  <2>1. /\ Queda(h, x.paso, x.ahora, x.etapa, x.toma, x.estado)
        /\ hilo'[h].trampa /\ ~hilo'[h].guardo
    BY <1>1, <1>2, <1>3, Reemplazo
  <2> QED
    BY <1>2, <2>1
<1>4. ASSUME Pasa(h, "pool")
      PROVE  Queda(h, "pool", hilo[h].ahora, hilo[h].etapa, hilo[h].toma, hilo[h].estado) /\ Mismo(h)
  BY <1>4, EfectoPasa DEF PasosPuerta
<1>5. ASSUME NEW n \in {400, 422, 503}, Responde(h, n)
      PROVE  Queda(h, "libre", 0, "catalogo", Nadie, n) /\ SinNada(h)
  BY <1>5, EfectoResponde
<1> QED
  BY <1>3, <1>4, <1>5 DEF Mirar, En, x

LEMMA EfectoPedirPool ==
  ASSUME TiposPuerta, NEW h \in Hilos, PedirPool(h)
  PROVE  /\ hilo[h].paso = "pool" /\ piscina.candado = Nadie
         /\ \/ /\ piscina.abierta /\ piscina' = piscina
               /\ Queda(h, "obtener", hilo[h].ahora, hilo[h].etapa, hilo[h].toma, hilo[h].estado)
            \/ /\ ~piscina.abierta /\ piscina' \in FichaPool /\ ~piscina'.abierta
               /\ piscina'.candado = h /\ piscina'.libres = piscina.libres
               /\ Queda(h, "construir", hilo[h].ahora, hilo[h].etapa, hilo[h].toma, hilo[h].estado)
         /\ Mismo(h)
         /\ UNCHANGED <<reloj, intentos, libro>>
<1>1. piscina \in FichaPool
  BY DEF TiposPuerta
<1>2. ASSUME piscina' = [piscina EXCEPT !.candado = h]
      PROVE  /\ piscina' \in FichaPool /\ (piscina'.abierta <=> piscina.abierta)
             /\ piscina'.candado = h /\ piscina'.libres = piscina.libres
  BY <1>1, <1>2 DEF FichaPool
<1>3. ASSUME Pasa(h, "obtener")
      PROVE  Queda(h, "obtener", hilo[h].ahora, hilo[h].etapa, hilo[h].toma, hilo[h].estado) /\ Mismo(h)
  BY <1>3, EfectoPasa DEF PasosPuerta
<1>4. ASSUME Pasa(h, "construir")
      PROVE  Queda(h, "construir", hilo[h].ahora, hilo[h].etapa, hilo[h].toma, hilo[h].estado) /\ Mismo(h)
  BY <1>4, EfectoPasa DEF PasosPuerta
<1> QED
  BY <1>2, <1>3, <1>4 DEF PedirPool, En

LEMMA EfectoConstruir ==
  ASSUME TiposPuerta, NEW h \in Hilos, Construir(h)
  PROVE  /\ hilo[h].paso = "construir" /\ piscina' \in FichaPool /\ piscina'.candado = Nadie
         /\ \/ /\ piscina'.abierta /\ piscina'.libres = Tomas
               /\ Queda(h, "obtener", hilo[h].ahora, hilo[h].etapa, hilo[h].toma, hilo[h].estado)
               /\ Mismo(h)
            \/ /\ (piscina'.abierta <=> piscina.abierta) /\ piscina'.libres = piscina.libres
               /\ Queda(h, "libre", 0, "catalogo", Nadie, 500) /\ SinNada(h)
         /\ UNCHANGED <<reloj, intentos, libro>>
<1>1. piscina \in FichaPool
  BY DEF TiposPuerta
<1>2. ASSUME piscina' = [piscina EXCEPT !.candado = Nadie]
      PROVE  /\ piscina' \in FichaPool /\ (piscina'.abierta <=> piscina.abierta)
             /\ piscina'.candado = Nadie /\ piscina'.libres = piscina.libres
  BY <1>1, <1>2 DEF FichaPool
<1>3. ASSUME piscina' = [piscina EXCEPT !.abierta = TRUE, !.candado = Nadie, !.libres = Tomas]
      PROVE  /\ piscina' \in FichaPool /\ piscina'.abierta
             /\ piscina'.candado = Nadie /\ piscina'.libres = Tomas
  BY <1>1, <1>3 DEF FichaPool
<1>4. ASSUME Pasa(h, "obtener")
      PROVE  Queda(h, "obtener", hilo[h].ahora, hilo[h].etapa, hilo[h].toma, hilo[h].estado) /\ Mismo(h)
  BY <1>4, EfectoPasa DEF PasosPuerta
<1>5. ASSUME Responde(h, 500)
      PROVE  Queda(h, "libre", 0, "catalogo", Nadie, 500) /\ SinNada(h)
  BY <1>5, EfectoResponde
<1> QED
  BY <1>2, <1>3, <1>4, <1>5 DEF Construir, En

LEMMA EfectoObtener ==
  ASSUME TiposPuerta, NEW h \in Hilos, Obtener(h)
  PROVE  /\ hilo[h].paso = "obtener"
         /\ \/ \E c \in piscina.libres :
                 /\ piscina' \in FichaPool /\ (piscina'.abierta <=> piscina.abierta)
                 /\ piscina'.candado = piscina.candado /\ piscina'.libres = piscina.libres \ {c}
                 /\ Queda(h, "usar", hilo[h].ahora, hilo[h].etapa, c, hilo[h].estado) /\ Mismo(h)
            \/ piscina' = piscina /\ Queda(h, "libre", 0, "catalogo", Nadie, 500) /\ SinNada(h)
         /\ UNCHANGED <<reloj, intentos, libro>>
<1>1. piscina \in FichaPool
  BY DEF TiposPuerta
<1>2. ASSUME NEW c \in piscina.libres, piscina' = [piscina EXCEPT !.libres = @ \ {c}],
             hilo' = [hilo EXCEPT ![h].toma = c, ![h].paso = "usar"]
      PROVE  /\ piscina' \in FichaPool /\ (piscina'.abierta <=> piscina.abierta)
             /\ piscina'.candado = piscina.candado /\ piscina'.libres = piscina.libres \ {c}
             /\ Queda(h, "usar", hilo[h].ahora, hilo[h].etapa, c, hilo[h].estado) /\ Mismo(h)
  <2> DEFINE x == [hilo[h] EXCEPT !.toma = c, !.paso = "usar"]
  <2>0. c \in Tomas
    BY <1>1 DEF FichaPool
  <2>1. x \in FichaHilo
    BY <2>0, FichaDe DEF FichaHilo, PasosPuerta
  <2>2. /\ x.paso = "usar" /\ x.ahora = hilo[h].ahora /\ x.trampa = hilo[h].trampa
        /\ x.etapa = hilo[h].etapa /\ x.toma = c
        /\ x.estado = hilo[h].estado /\ x.guardo = hilo[h].guardo
    BY FichaDe DEF FichaHilo
  <2>3. hilo' = [hilo EXCEPT ![h] = x]
    BY <1>2 DEF TiposPuerta
  <2> HIDE DEF x
  <2>4. Queda(h, x.paso, x.ahora, x.etapa, x.toma, x.estado) /\ Mismo(h)
    BY <2>1, <2>2, <2>3, Reemplazo DEF Mismo
  <2>5. /\ piscina' \in FichaPool /\ (piscina'.abierta <=> piscina.abierta)
        /\ piscina'.candado = piscina.candado /\ piscina'.libres = piscina.libres \ {c}
    BY <1>1, <1>2 DEF FichaPool
  <2> QED
    BY <2>2, <2>4, <2>5
<1>3. ASSUME Responde(h, 500)
      PROVE  Queda(h, "libre", 0, "catalogo", Nadie, 500) /\ SinNada(h)
  BY <1>3, EfectoResponde
<1> QED
  BY <1>2, <1>3 DEF Obtener, En

LEMMA EfectoSinGuardar ==
  ASSUME TiposPuerta, NEW h \in Hilos, NEW e \in {"alta", "fin"}, NEW n \in Nat,
         Sigue(h, e, n, FALSE)
  PROVE  /\ Queda(h, "devolver", hilo[h].ahora, e, hilo[h].toma, n)
         /\ (hilo'[h].trampa <=> hilo[h].trampa) /\ ~hilo'[h].guardo
<1> DEFINE x == [hilo[h] EXCEPT !.paso = "devolver", !.etapa = e, !.estado = n, !.guardo = FALSE]
<1>1. x \in FichaHilo
  BY FichaDe DEF FichaHilo, PasosPuerta
<1>2. /\ x.paso = "devolver" /\ x.ahora = hilo[h].ahora /\ x.trampa = hilo[h].trampa
      /\ x.etapa = e /\ x.toma = hilo[h].toma /\ x.estado = n /\ x.guardo = FALSE
  BY FichaDe DEF FichaHilo
<1>3. hilo' = [hilo EXCEPT ![h] = x]
  BY DEF Sigue, TiposPuerta
<1> HIDE DEF x
<1>4. /\ Queda(h, x.paso, x.ahora, x.etapa, x.toma, x.estado)
      /\ (hilo'[h].trampa <=> x.trampa) /\ (hilo'[h].guardo <=> x.guardo)
  BY <1>1, <1>3, Reemplazo
<1> QED
  BY <1>2, <1>4

LEMMA EfectoGuardado ==
  ASSUME TiposPuerta, NEW h \in Hilos, NEW e \in {"alta", "fin"}, NEW n \in Nat,
         Sigue(h, e, n, TRUE)
  PROVE  /\ Queda(h, "devolver", hilo[h].ahora, e, hilo[h].toma, n)
         /\ (hilo'[h].trampa <=> hilo[h].trampa) /\ hilo'[h].guardo
<1> DEFINE x == [hilo[h] EXCEPT !.paso = "devolver", !.etapa = e, !.estado = n, !.guardo = TRUE]
<1>1. x \in FichaHilo
  BY FichaDe DEF FichaHilo, PasosPuerta
<1>2. /\ x.paso = "devolver" /\ x.ahora = hilo[h].ahora /\ x.trampa = hilo[h].trampa
      /\ x.etapa = e /\ x.toma = hilo[h].toma /\ x.estado = n /\ x.guardo = TRUE
  BY FichaDe DEF FichaHilo
<1>3. hilo' = [hilo EXCEPT ![h] = x]
  BY DEF Sigue, TiposPuerta
<1> HIDE DEF x
<1>4. /\ Queda(h, x.paso, x.ahora, x.etapa, x.toma, x.estado)
      /\ (hilo'[h].trampa <=> x.trampa) /\ (hilo'[h].guardo <=> x.guardo)
  BY <1>1, <1>3, Reemplazo
<1> QED
  BY <1>2, <1>4

(* What is kept behind each answer of the service.                          *)
LEMMA EfectoUsar ==
  ASSUME TiposPuerta, NEW h \in Hilos, UsarCatalogo(h) \/ UsarAlta(h)
  PROVE  /\ hilo[h].paso = "usar"
         /\ \E e \in {"alta", "fin"}, n \in {0, 201, 409, 422, 500} :
              /\ Queda(h, "devolver", hilo[h].ahora, e, hilo[h].toma, n)
              /\ hilo'[h].guardo => e = "fin" /\ n \in {201, 500}
              /\ n = 201 => hilo'[h].guardo
         /\ (hilo'[h].trampa <=> hilo[h].trampa)
         /\ UNCHANGED <<reloj, intentos, piscina, libro>>
<1> DEFINE Fin(e, n) == Queda(h, "devolver", hilo[h].ahora, e, hilo[h].toma, n)
           Igual == hilo'[h].trampa <=> hilo[h].trampa
<1>1. ASSUME Sigue(h, "alta", 0, FALSE)
      PROVE  Fin("alta", 0) /\ Igual /\ ~hilo'[h].guardo
  BY 0 \in Nat, <1>1, EfectoSinGuardar, Zenon
<1>2. ASSUME Sigue(h, "fin", 422, FALSE)
      PROVE  Fin("fin", 422) /\ Igual /\ ~hilo'[h].guardo
  BY 422 \in Nat, <1>2, EfectoSinGuardar, Zenon
<1>3. ASSUME Sigue(h, "fin", 500, FALSE)
      PROVE  Fin("fin", 500) /\ Igual /\ ~hilo'[h].guardo
  BY 500 \in Nat, <1>3, EfectoSinGuardar, Zenon
<1>4. ASSUME Sigue(h, "fin", 409, FALSE)
      PROVE  Fin("fin", 409) /\ Igual /\ ~hilo'[h].guardo
  BY 409 \in Nat, <1>4, EfectoSinGuardar, Zenon
<1>5. ASSUME Sigue(h, "fin", 201, TRUE)
      PROVE  Fin("fin", 201) /\ Igual /\ hilo'[h].guardo
  BY 201 \in Nat, <1>5, EfectoGuardado, Zenon
<1>6. ASSUME Sigue(h, "fin", 500, TRUE)
      PROVE  Fin("fin", 500) /\ Igual /\ hilo'[h].guardo
  BY 500 \in Nat, <1>6, EfectoGuardado, Zenon
<1>7. /\ Igual
      /\ \E e \in {"alta", "fin"}, n \in {0, 201, 409, 422, 500} :
           /\ Fin(e, n)
           /\ hilo'[h].guardo => e = "fin" /\ n \in {201, 500}
           /\ n = 201 => hilo'[h].guardo
  <2>1. /\ Igual
        /\ \/ (Fin("alta", 0) \/ Fin("fin", 422) \/ Fin("fin", 500) \/ Fin("fin", 409))
                /\ ~hilo'[h].guardo
           \/ (Fin("fin", 201) \/ Fin("fin", 500)) /\ hilo'[h].guardo
    <3>1. CASE UsarCatalogo(h)
      BY <3>1, <1>1, <1>2, <1>3 DEF UsarCatalogo
    <3>2. CASE UsarAlta(h)
      <4>1. \/ Sigue(h, "fin", 201, TRUE) \/ Sigue(h, "fin", 409, FALSE)
            \/ Sigue(h, "fin", 500, FALSE) \/ Sigue(h, "fin", 500, TRUE)
        BY <3>2, Zenon DEF UsarAlta
      <4>2. CASE Sigue(h, "fin", 201, TRUE)
        BY <4>2, <1>5, Zenon
      <4>3. CASE Sigue(h, "fin", 409, FALSE)
        BY <4>3, <1>4, Zenon
      <4>4. CASE Sigue(h, "fin", 500, FALSE)
        BY <4>4, <1>3, Zenon
      <4>5. CASE Sigue(h, "fin", 500, TRUE)
        BY <4>5, <1>6, Zenon
      <4> QED
        BY <4>1, <4>2, <4>3, <4>4, <4>5, Zenon
    <3> QED
      BY <3>1, <3>2
  <2> QED
    BY <2>1
<1> QED
  BY <1>7 DEF UsarCatalogo, UsarAlta, En

LEMMA EfectoDevolver ==
  ASSUME TiposPuerta, NEW h \in Hilos, Devolver(h)
  PROVE  /\ hilo[h].paso = "devolver"
         /\ \/ /\ hilo[h].etapa = "alta"
               /\ Queda(h, "pool", hilo[h].ahora, "alta", Nadie, hilo[h].estado)
            \/ /\ hilo[h].etapa # "alta"
               /\ Queda(h, "libre", hilo[h].ahora, "catalogo", Nadie, hilo[h].estado)
         /\ Mismo(h)
         /\ piscina' \in [abierta : BOOLEAN, candado : Hilos \cup {Nadie},
                          libres : SUBSET (Tomas \cup {Nadie})]
         /\ (piscina'.abierta <=> piscina.abierta) /\ piscina'.candado = piscina.candado
         /\ piscina'.libres = piscina.libres \cup {hilo[h].toma}
         /\ UNCHANGED <<reloj, intentos, libro>>
<1> DEFINE e == IF hilo[h].etapa = "alta" THEN "alta" ELSE "catalogo"
           p == IF hilo[h].etapa = "alta" THEN "pool" ELSE "libre"
           x == [hilo[h] EXCEPT !.toma = Nadie, !.etapa = e, !.paso = p]
<1>0. hilo[h] \in FichaHilo /\ piscina \in FichaPool
  BY DEF TiposPuerta
<1>1. e \in {"catalogo", "alta"} /\ p \in PasosPuerta
  BY DEF PasosPuerta
<1>2. hilo' = [hilo EXCEPT ![h] = x]
  BY <1>0 DEF Devolver, TiposPuerta
<1> HIDE DEF e, p
<1>3. x \in FichaHilo
  BY <1>0, <1>1 DEF FichaHilo
<1>4. /\ x.paso = p /\ x.ahora = hilo[h].ahora /\ x.trampa = hilo[h].trampa
      /\ x.etapa = e /\ x.toma = Nadie
      /\ x.estado = hilo[h].estado /\ x.guardo = hilo[h].guardo
  BY <1>0 DEF FichaHilo
<1> HIDE DEF x
<1>5. Queda(h, x.paso, x.ahora, x.etapa, x.toma, x.estado) /\ Mismo(h)
  BY <1>2, <1>3, <1>4, Reemplazo DEF Mismo
<1>6. /\ piscina' \in [abierta : BOOLEAN, candado : Hilos \cup {Nadie},
                       libres : SUBSET (Tomas \cup {Nadie})]
      /\ (piscina'.abierta <=> piscina.abierta) /\ piscina'.candado = piscina.candado
      /\ piscina'.libres = piscina.libres \cup {hilo[h].toma}
  <2>1. piscina.libres \cup {hilo[h].toma} \in SUBSET (Tomas \cup {Nadie})
    BY <1>0 DEF FichaHilo, FichaPool
  <2>2. piscina' = [piscina EXCEPT !.libres = piscina.libres \cup {hilo[h].toma}]
    BY DEF Devolver, Devueltas
  <2> QED
    BY <1>0, <2>1, <2>2 DEF FichaPool
<1>7. Queda(h, p, hilo[h].ahora, e, Nadie, hilo[h].estado)
  BY <1>4, <1>5
<1> QED
  BY <1>5, <1>6, <1>7 DEF Devolver, En, e, p

-----------------------------------------------------------------------------
(***************************************************************************)
(* Answers and connections.                                                *)
(***************************************************************************)
(* What a thread answered, and what it will: nothing is kept before its      *)
(* connection is given back with the outcome.                               *)
Honesto(h) ==
  /\ hilo[h].paso \notin {"libre", "devolver"} => ~hilo[h].guardo
  /\ hilo[h].paso # "libre" => ~hilo[h].trampa
  /\ hilo[h].paso = "devolver" /\ hilo[h].etapa = "alta" => ~hilo[h].guardo
  /\ hilo[h].paso = "devolver" => (hilo[h].estado = 201 => hilo[h].guardo)
  /\ hilo[h].paso = "libre" => (hilo[h].estado = 201 => (hilo[h].guardo <=> ~hilo[h].trampa))
  /\ hilo[h].paso \in {"libre", "devolver"} /\ hilo[h].guardo => hilo[h].estado \in {201, 500}

(* The pool: who builds it holds its lock, and it is built once; from then   *)
(* on every connection is idle or in one hand.                              *)
PoolEnOrden ==
  /\ \A h \in Hilos : hilo[h].toma # Nadie <=> hilo[h].paso \in {"usar", "devolver"}
  /\ \A h, k \in Hilos : hilo[h].toma # Nadie /\ h # k => hilo[h].toma # hilo[k].toma
  /\ \A h \in Hilos : hilo[h].paso \in {"obtener", "usar", "devolver"} => piscina.abierta
  /\ \A h \in Hilos : hilo[h].paso = "construir" <=> piscina.candado = h
  /\ piscina.candado # Nadie => ~piscina.abierta
  /\ piscina.abierta =>
       \A c \in Tomas : c \notin piscina.libres <=> \E h \in Hilos : hilo[h].toma = c

LEMMA InitTipos == InitPuerta => TiposPuerta /\ PoolEnOrden /\ \A h \in Hilos : Honesto(h)
<1> SUFFICES ASSUME InitPuerta
             PROVE  TiposPuerta /\ PoolEnOrden /\ \A h \in Hilos : Honesto(h)
  OBVIOUS
<1>1. hilo \in [Hilos -> FichaHilo] /\ \A h \in Hilos : hilo[h] = Quieto
  BY QuietoEsFicha DEF InitPuerta
<1>2. TiposPuerta
  BY <1>1 DEF InitPuerta, TiposPuerta, FichaPool, FichaLibro
<1>3. PoolEnOrden
  BY <1>1 DEF InitPuerta, PoolEnOrden, Quieto
<1>4. \A h \in Hilos : Honesto(h)
  BY <1>1 DEF Honesto, Quieto
<1> QED
  BY <1>2, <1>3, <1>4

LEMMA NextTipos ==
  ASSUME TiposPuerta, PoolEnOrden, NextPuerta
  PROVE  TiposPuerta'
<1> USE DEF TiposPuerta
<1>1. ASSUME NEW h \in Hilos, Llegar(h) \/ Podar(h)
      PROVE  TiposPuerta'
  BY <1>1, EfectoLlegar, EfectoPodar DEF Queda, LibroIgual
<1>2. ASSUME NEW h \in Hilos, Sacar(h)
      PROVE  TiposPuerta'
  <2>1. intentos' \in Seq(Nat)
    BY <1>2, EfectoSacar, HeadTailProperties
  <2> QED
    BY <1>2, <2>1, EfectoSacar DEF Queda
<1>3. ASSUME NEW h \in Hilos, Contar(h) \/ Mirar(h)
      PROVE  TiposPuerta'
  BY <1>3, EfectoContar, EfectoMirar DEF Queda
<1>4. ASSUME NEW h \in Hilos, Anotar(h)
      PROVE  TiposPuerta'
  <2>1. hilo[h].ahora \in Nat
    BY DEF FichaHilo
  <2>2. intentos \in Seq(Nat) /\ intentos' = Append(intentos, hilo[h].ahora)
    BY <1>4, EfectoAnotar DEF Anotar
  <2>3. intentos' \in Seq(Nat)
    BY <2>1, <2>2, AppendProperties
  <2> QED
    BY <1>4, <2>3, EfectoAnotar DEF Queda
<1>5. ASSUME NEW h \in Hilos, PedirPool(h) \/ Construir(h) \/ Obtener(h)
      PROVE  TiposPuerta'
  BY <1>5, EfectoPedirPool, EfectoConstruir, EfectoObtener DEF Queda
<1>6. ASSUME NEW h \in Hilos, UsarCatalogo(h) \/ UsarAlta(h)
      PROVE  TiposPuerta'
  BY <1>6, EfectoUsar DEF Queda
<1>7. ASSUME NEW h \in Hilos, Devolver(h)
      PROVE  TiposPuerta'
  <2>1. hilo[h].toma \in Tomas
    BY <1>7, EfectoDevolver DEF PoolEnOrden, FichaHilo
  <2>2. piscina'.libres \in SUBSET Tomas
    BY <1>7, <2>1, EfectoDevolver DEF FichaPool
  <2>3. piscina' \in FichaPool
    BY <1>7, <2>2, EfectoDevolver DEF FichaPool
  <2> QED
    BY <1>7, <2>3, EfectoDevolver DEF Queda
<1>8. CASE Tictac
  BY <1>8 DEF Tictac
<1> QED
  BY <1>1, <1>2, <1>3, <1>4, <1>5, <1>6, <1>7, <1>8 DEF NextPuerta

LEMMA NextHonesto ==
  ASSUME TiposPuerta, NextPuerta, NEW k \in Hilos, Honesto(k)
  PROVE  Honesto(k)'
<1> USE DEF Honesto
<1>0. ASSUME hilo'[k] = hilo[k]
      PROVE  Honesto(k)'
  BY <1>0
<1>1. ASSUME NEW h \in Hilos, Llegar(h) \/ Podar(h) \/ Sacar(h) \/ Contar(h)
      PROVE  Honesto(k)'
  BY <1>0, <1>1, EfectoLlegar, EfectoPodar, EfectoSacar, EfectoContar DEF Queda, Mismo, SinNada
<1>2. ASSUME NEW h \in Hilos, Anotar(h) \/ Mirar(h)
      PROVE  Honesto(k)'
  BY <1>0, <1>2, EfectoAnotar, EfectoMirar DEF Queda, Mismo, SinNada
<1>3. ASSUME NEW h \in Hilos, PedirPool(h) \/ Construir(h) \/ Obtener(h)
      PROVE  Honesto(k)'
  BY <1>0, <1>3, EfectoPedirPool, EfectoConstruir, EfectoObtener DEF Queda, Mismo, SinNada
<1>4. ASSUME NEW h \in Hilos, UsarCatalogo(h) \/ UsarAlta(h)
      PROVE  Honesto(k)'
  BY <1>0, <1>4, EfectoUsar DEF Queda
<1>5. ASSUME NEW h \in Hilos, Devolver(h)
      PROVE  Honesto(k)'
  BY <1>0, <1>5, EfectoDevolver DEF Queda, Mismo
<1>6. CASE Tictac
  BY <1>0, <1>6 DEF Tictac
<1> QED
  BY <1>1, <1>2, <1>3, <1>4, <1>5, <1>6 DEF NextPuerta

LEMMA NextPool ==
  ASSUME TiposPuerta, PoolEnOrden, NextPuerta
  PROVE  PoolEnOrden'
<1> USE DEF PoolEnOrden
<1>0. \A h \in Hilos : hilo[h].toma \in Tomas \cup {Nadie} /\ h # Nadie
  BY DEF TiposPuerta, FichaHilo
<1>1. ASSUME NEW h \in Hilos, Llegar(h) \/ Podar(h) \/ Sacar(h) \/ Contar(h)
      PROVE  PoolEnOrden'
  BY <1>0, <1>1, EfectoLlegar, EfectoPodar, EfectoSacar, EfectoContar DEF Queda
<1>2. ASSUME NEW h \in Hilos, Anotar(h) \/ Mirar(h)
      PROVE  PoolEnOrden'
  BY <1>0, <1>2, EfectoAnotar, EfectoMirar DEF Queda
<1>3. ASSUME NEW h \in Hilos, PedirPool(h)
      PROVE  PoolEnOrden'
  BY <1>0, <1>3, EfectoPedirPool DEF Queda
<1>4. ASSUME NEW h \in Hilos, Construir(h)
      PROVE  PoolEnOrden'
  BY <1>0, <1>4, EfectoConstruir DEF Queda
<1>5. ASSUME NEW h \in Hilos, Obtener(h)
      PROVE  PoolEnOrden'
  <2>1. ASSUME NEW c \in piscina.libres,
               piscina' \in FichaPool, piscina'.abierta <=> piscina.abierta,
               piscina'.candado = piscina.candado, piscina'.libres = piscina.libres \ {c},
               Queda(h, "usar", hilo[h].ahora, hilo[h].etapa, c, hilo[h].estado)
        PROVE  PoolEnOrden'
    <3>1. piscina.abierta /\ hilo[h].paso = "obtener" /\ hilo[h].toma = Nadie
      BY <1>5, EfectoObtener
    <3>2. c \in Tomas /\ c # Nadie /\ \A k \in Hilos : hilo[k].toma # c
      BY <3>1 DEF TiposPuerta, FichaPool
    <3>3. /\ \A k \in Hilos : k # h => hilo'[k] = hilo[k]
          /\ hilo'[h].toma = c /\ hilo'[h].paso = "usar"
      BY <2>1 DEF Queda
    <3>4. \A x \in Tomas : x \notin piscina'.libres <=> \E k \in Hilos : hilo'[k].toma = x
      BY <2>1, <3>1, <3>2, <3>3
    <3> QED
      BY <1>0, <2>1, <3>1, <3>2, <3>3, <3>4
  <2>2. ASSUME piscina' = piscina, Queda(h, "libre", 0, "catalogo", Nadie, 500)
        PROVE  PoolEnOrden'
    BY <1>0, <1>5, <2>2, EfectoObtener DEF Queda
  <2> QED
    BY <1>5, <2>1, <2>2, EfectoObtener
<1>6. ASSUME NEW h \in Hilos, UsarCatalogo(h) \/ UsarAlta(h)
      PROVE  PoolEnOrden'
  BY <1>0, <1>6, EfectoUsar DEF Queda
<1>7. ASSUME NEW h \in Hilos, Devolver(h)
      PROVE  PoolEnOrden'
  BY <1>0, <1>7, EfectoDevolver DEF Queda
<1>8. CASE Tictac
  BY <1>8 DEF Tictac
<1> QED
  BY <1>1, <1>2, <1>3, <1>4, <1>5, <1>6, <1>7, <1>8 DEF NextPuerta

-----------------------------------------------------------------------------
(***************************************************************************)
(* The limiter, as long as no two requests met in it.                      *)
(***************************************************************************)
(* How many of the requests let in are not in the deque any more.           *)
Fuera == Len(libro.admitidas) - Len(intentos)

(* The one request in the limiter: nobody was served after it came, and the  *)
(* attempts taken out had expired for it too.                               *)
Turno(h) ==
  LET hora == hilo[h].ahora IN
  /\ hora <= reloj
  /\ \A i \in 1 .. Len(libro.admitidas) : libro.admitidas[i] <= hora
  /\ \A i \in 1 .. Fuera : Vencido(libro.admitidas[i], hora)
  /\ \A t \in libro.negadas : t <= hora
  /\ hilo[h].paso = "sacar" => intentos # << >> /\ Vencido(Head(intentos), hora)
  /\ hilo[h].paso \in {"contar", "anotar"} => intentos = << >> \/ ~Vencido(Head(intentos), hora)
  /\ hilo[h].paso = "anotar" => Len(intentos) < max_requests

(* The deque is the end of the sequence of the requests let in.             *)
ColaFiel ==
  /\ Len(intentos) <= Len(libro.admitidas)
  /\ \A i \in 1 .. Len(intentos) : intentos[i] = libro.admitidas[Fuera + i]
  /\ \A i, j \in 1 .. Len(libro.admitidas) : i <= j => libro.admitidas[i] <= libro.admitidas[j]
  /\ \A i \in 1 .. Len(libro.admitidas) : libro.admitidas[i] <= reloj
  /\ \A i \in 1 .. Fuera : Vencido(libro.admitidas[i], reloj)
  /\ \A t \in libro.negadas : t <= reloj

VentanasJustas ==
  /\ \A t \in 0..reloj : Cardinality(EnVentana(t)) <= max_requests
  /\ \A t \in libro.negadas : Cardinality(EnVentana(t)) = max_requests

SinCruce ==
  ~libro.cruce =>
    /\ \A h, k \in EnLimite : h = k
    /\ \A h \in EnLimite : Turno(h)
    /\ ColaFiel
    /\ VentanasJustas

LEMMA VentanaFinita ==
  ASSUME TiposPuerta, NEW t
  PROVE  /\ EnVentana(t) \subseteq 1 .. Len(libro.admitidas)
         /\ IsFiniteSet(EnVentana(t)) /\ Cardinality(EnVentana(t)) \in Nat
<1>1. libro.admitidas \in Seq(Nat)
  BY DEF TiposPuerta, FichaLibro
<1>2. EnVentana(t) \subseteq 1 .. Len(libro.admitidas)
  BY <1>1 DEF EnVentana
<1>3. 1 \in Int /\ Len(libro.admitidas) \in Int
  BY <1>1
<1>4. IsFiniteSet(1 .. Len(libro.admitidas))
  BY <1>3, FS_Interval
<1> QED
  BY <1>2, <1>4, FS_Subset, FS_CardinalityType

(* What counts for a request is exactly what is left in the deque.          *)
LEMMA VentanaPropia ==
  ASSUME TiposPuerta, ColaFiel, NEW h \in Hilos, Turno(h), hilo[h].paso \in {"contar", "anotar"}
  PROVE  /\ EnVentana(hilo[h].ahora) = Fuera + 1 .. Len(libro.admitidas)
         /\ Cardinality(EnVentana(hilo[h].ahora)) = Len(intentos)
<1> DEFINE adm == libro.admitidas
           hora == hilo[h].ahora
           n == Len(libro.admitidas)
           f == Fuera
<1>1. /\ adm \in Seq(Nat) /\ intentos \in Seq(Nat) /\ hora \in Nat /\ window_seconds \in Nat
      /\ n \in Nat /\ Len(intentos) \in Nat /\ DOMAIN adm = 1 .. n
  BY DEF TiposPuerta, FichaLibro, FichaHilo
<1>2. \A i \in 1 .. n : adm[i] \in Nat
  BY <1>1
<1>3. f \in Nat /\ f + Len(intentos) = n
  BY <1>1 DEF Fuera, ColaFiel
<1>4. /\ \A i \in 1 .. n : adm[i] <= hora
      /\ \A i \in 1 .. f : adm[i] + window_seconds <= hora
      /\ intentos = << >> \/ ~(intentos[1] + window_seconds <= hora)
      /\ \A i \in 1 .. Len(intentos) : intentos[i] = adm[f + i]
      /\ \A i, j \in 1 .. n : i <= j => adm[i] <= adm[j]
  BY <1>1 DEF Turno, Vencido, ColaFiel
<1>5. EnVentana(hora) = {i \in 1 .. n : adm[i] <= hora /\ hora < adm[i] + window_seconds}
  BY <1>1 DEF EnVentana
<1> HIDE DEF adm, hora, n, f
<1>6. ASSUME NEW i \in 1 .. n
      PROVE  hora < adm[i] + window_seconds <=> i > f
  <2>1. ASSUME i <= f
        PROVE  ~(hora < adm[i] + window_seconds)
    <3>1. i \in 1 .. f /\ adm[i] \in Nat
      BY <1>2, <1>3, <2>1
    <3>2. adm[i] + window_seconds <= hora
      BY <1>4, <3>1
    <3> QED
      BY <1>1, <3>1, <3>2
  <2>2. CASE i > f
    <3>1. f + 1 \in 1 .. n /\ f + 1 <= i /\ 1 \in 1 .. Len(intentos)
      BY <1>1, <1>3, <2>2
    <3>2. adm[f + 1] <= adm[i] /\ intentos[1] = adm[f + 1]
      BY <1>4, <3>1
    <3>3. ~(adm[f + 1] + window_seconds <= hora)
      BY <1>1, <1>4, <3>1, <3>2
    <3>4. adm[i] \in Nat /\ adm[f + 1] \in Nat
      BY <1>2, <3>1
    <3> QED
      BY <1>1, <2>2, <3>2, <3>3, <3>4
  <2> QED
    BY <1>3, <2>1, <2>2
<1>7. EnVentana(hora) = f + 1 .. n
  BY <1>1, <1>3, <1>4, <1>5, <1>6
<1>8. f + 1 \in Int /\ n \in Int
  BY <1>1, <1>3
<1>9. Cardinality(f + 1 .. n) = IF f + 1 > n THEN 0 ELSE n - (f + 1) + 1
  BY <1>8, FS_Interval
<1>10. Cardinality(f + 1 .. n) = Len(intentos)
  BY <1>1, <1>3, <1>9
<1> QED
  BY <1>7, <1>10 DEF hora, n, f

LEMMA VentanaIgual ==
  ASSUME libro'.admitidas = libro.admitidas, NEW t
  PROVE  EnVentana(t)' = EnVentana(t)
  BY DEF EnVentana

(* A step that brings nobody into the limiter and leaves its state alone.   *)
LEMMA FueraDelLimite ==
  ASSUME SinCruce, reloj' = reloj, intentos' = intentos,
         libro'.admitidas = libro.admitidas, libro'.negadas = libro.negadas,
         libro'.cruce <=> libro.cruce,
         \A k \in EnLimite' : k \in EnLimite /\ hilo'[k] = hilo[k]
  PROVE  SinCruce'
<1>1. VentanasJustas => VentanasJustas'
  BY VentanaIgual DEF VentanasJustas
<1>2. ColaFiel => ColaFiel'
  BY DEF ColaFiel, Fuera
<1>3. ASSUME NEW k \in EnLimite', Turno(k)
      PROVE  Turno(k)'
  BY <1>3 DEF Turno, Fuera
<1> QED
  BY <1>1, <1>2, <1>3 DEF SinCruce

LEMMA LlegarSinCruce ==
  ASSUME TiposPuerta, SinCruce, NEW h \in Hilos, Llegar(h)
  PROVE  SinCruce'
<1>1. CASE Queda(h, "libre", 0, "catalogo", Nadie, 415) /\ libro'.cruce = libro.cruce
  <2>1. \A k \in EnLimite' : k \in EnLimite /\ hilo'[k] = hilo[k]
    BY <1>1 DEF EnLimite, Queda
  <2> QED
    BY <1>1, <2>1, EfectoLlegar, FueraDelLimite DEF LibroIgual
<1>2. ASSUME Queda(h, "podar", reloj, "catalogo", Nadie, 0),
             libro'.cruce = (libro.cruce \/ EnLimite # {})
      PROVE  SinCruce'
  <2> SUFFICES ASSUME ~libro'.cruce
               PROVE  SinCruce'
    BY DEF SinCruce
  <2>1. ~libro.cruce /\ EnLimite = {}
    BY <1>2
  <2>2. /\ ColaFiel /\ VentanasJustas
        /\ LibroIgual /\ UNCHANGED <<reloj, intentos>>
    BY <2>1, EfectoLlegar DEF SinCruce
  <2>3. ColaFiel' /\ VentanasJustas'
    BY <2>2, VentanaIgual DEF ColaFiel, Fuera, VentanasJustas, LibroIgual
  <2>4. EnLimite' \subseteq {h}
    BY <1>2, <2>1 DEF EnLimite, Queda
  <2>5. hilo'[h].ahora = reloj /\ hilo'[h].paso = "podar" /\ reloj' = reloj
    BY <1>2, <2>2 DEF Queda
  <2>6. Turno(h)'
    <3>1. /\ reloj <= reloj
          /\ \A i \in 1 .. Len(libro.admitidas) : libro.admitidas[i] <= reloj
          /\ \A i \in 1 .. Fuera : Vencido(libro.admitidas[i], reloj)
          /\ \A t \in libro.negadas : t <= reloj
      BY <2>2 DEF ColaFiel, TiposPuerta
    <3>2. libro'.admitidas = libro.admitidas /\ libro'.negadas = libro.negadas /\ Fuera' = Fuera
      BY <2>2 DEF LibroIgual, Fuera
    <3> QED
      BY <2>5, <3>1, <3>2 DEF Turno, Vencido
  <2> QED
    BY <2>3, <2>4, <2>6 DEF SinCruce
<1> QED
  BY <1>1, <1>2, EfectoLlegar

LEMMA PodarSinCruce ==
  ASSUME TiposPuerta, SinCruce, NEW h \in Hilos, Podar(h)
  PROVE  SinCruce'
<1>1. /\ h \in EnLimite /\ hilo[h].paso = "podar"
      /\ UNCHANGED <<reloj, intentos, libro>>
  BY EfectoPodar DEF EnLimite
<1> SUFFICES ASSUME ~libro.cruce
             PROVE  SinCruce'
  BY <1>1 DEF SinCruce
<1>2. /\ ColaFiel /\ VentanasJustas /\ Turno(h)
      /\ \A k \in EnLimite : k = h
  BY <1>1 DEF SinCruce
<1>3. EnLimite' \subseteq {h}
  BY <1>2, EfectoPodar DEF EnLimite, Queda
<1>4. ColaFiel' /\ VentanasJustas'
  BY <1>1, <1>2, VentanaIgual DEF ColaFiel, Fuera, VentanasJustas
<1>5. /\ hilo'[h].ahora = hilo[h].ahora
      /\ \/ /\ hilo'[h].paso = "sacar"
            /\ intentos # << >> /\ Vencido(Head(intentos), hilo[h].ahora)
         \/ /\ hilo'[h].paso = "contar"
            /\ intentos = << >> \/ ~Vencido(Head(intentos), hilo[h].ahora)
  BY EfectoPodar DEF Queda
<1>6. Turno(h)'
  BY <1>1, <1>2, <1>5 DEF Turno, Fuera, Vencido
<1> QED
  BY <1>3, <1>4, <1>6 DEF SinCruce

LEMMA SacarSinCruce ==
  ASSUME TiposPuerta, SinCruce, NEW h \in Hilos, Sacar(h)
  PROVE  SinCruce'
<1>1. /\ h \in EnLimite /\ hilo[h].paso = "sacar"
      /\ UNCHANGED <<reloj, libro>>
  BY EfectoSacar DEF EnLimite
<1> SUFFICES ASSUME ~libro.cruce
             PROVE  SinCruce'
  BY <1>1 DEF SinCruce
<1>2. /\ ColaFiel /\ VentanasJustas /\ Turno(h)
      /\ \A k \in EnLimite : k = h
  BY <1>1 DEF SinCruce
<1>3. EnLimite' \subseteq {h}
  BY <1>2, EfectoSacar DEF EnLimite, Queda
<1>4. intentos # << >> /\ Vencido(Head(intentos), hilo[h].ahora)
  BY <1>1, <1>2 DEF Turno
<1>5. /\ intentos' = Tail(intentos) /\ hilo'[h].ahora = hilo[h].ahora /\ hilo'[h].paso = "podar"
  BY <1>4, EfectoSacar DEF Queda
<1> DEFINE adm == libro.admitidas
           n == Len(libro.admitidas)
           m == Len(intentos)
           f == Fuera
<1>6. /\ adm \in Seq(Nat) /\ n \in Nat /\ m \in Nat \ {0} /\ intentos \in Seq(Nat)
      /\ reloj \in Nat /\ hilo[h].ahora \in Nat /\ window_seconds \in Nat
      /\ \A i \in 1 .. n : adm[i] \in Nat
  <2>1. adm \in Seq(Nat) /\ intentos \in Seq(Nat) /\ reloj \in Nat
    BY DEF TiposPuerta, FichaLibro
  <2>2. n \in Nat /\ m \in Nat \ {0} /\ \A i \in 1 .. n : adm[i] \in Nat
    BY <1>4, <2>1, EmptySeq
  <2>3. hilo[h].ahora \in Nat
    BY FichaDe DEF FichaHilo
  <2> QED
    BY <2>1, <2>2, <2>3
<1>7. f = n - m /\ f \in Nat
  BY <1>2, <1>6 DEF Fuera, ColaFiel
<1>8. /\ Len(intentos') = m - 1
      /\ \A i \in 1 .. m - 1 : intentos'[i] = intentos[i + 1]
      /\ Head(intentos) = intentos[1]
  BY <1>4, <1>5, <1>6, HeadTailProperties
<1>9. Fuera' = f + 1
  BY <1>1, <1>6, <1>7, <1>8 DEF Fuera
<1>10. /\ m <= n
       /\ \A i \in 1 .. m : intentos[i] = adm[f + i]
       /\ \A i \in 1 .. f : adm[i] + window_seconds <= reloj
       /\ \A i \in 1 .. f : adm[i] + window_seconds <= hilo[h].ahora
       /\ hilo[h].ahora <= reloj
       /\ intentos[1] + window_seconds <= hilo[h].ahora
  BY <1>2, <1>4, <1>8 DEF ColaFiel, Turno, Vencido
<1> HIDE DEF adm, n, m, f
<1>11. adm[f + 1] + window_seconds <= hilo[h].ahora /\ f + 1 \in 1 .. n
  <2>1. f + 1 \in 1 .. n /\ 1 \in 1 .. m
    BY <1>6, <1>7, <1>10
  <2>2. intentos[1] = adm[f + 1]
    BY <1>10, <2>1
  <2> QED
    BY <1>10, <2>1, <2>2
<1>12. \A i \in 1 .. f + 1 : adm[i] + window_seconds <= hilo[h].ahora
  <2> TAKE i \in 1 .. f + 1
  <2>1. i \in 1 .. f \/ i = f + 1
    BY <1>7
  <2> QED
    BY <1>10, <1>11, <2>1
<1>13. \A i \in 1 .. f + 1 : adm[i] + window_seconds <= reloj
  <2> TAKE i \in 1 .. f + 1
  <2>1. adm[i] \in Nat
    BY <1>6, <1>7, <1>11
  <2> QED
    BY <1>6, <1>10, <1>12, <2>1
<1>14. \A i \in 1 .. m - 1 : intentos'[i] = adm[f + 1 + i]
  <2> TAKE i \in 1 .. m - 1
  <2>1. i + 1 \in 1 .. m /\ f + (i + 1) = f + 1 + i
    BY <1>6, <1>7
  <2> QED
    BY <1>8, <1>10, <2>1
<1>15. m - 1 <= n
  BY <1>6, <1>10
<1>16. ColaFiel'
  BY <1>1, <1>2, <1>8, <1>9, <1>13, <1>14, <1>15 DEF ColaFiel, Vencido, adm, n
<1>17. VentanasJustas'
  BY <1>1, <1>2, VentanaIgual DEF VentanasJustas
<1>18. Turno(h)'
  BY <1>1, <1>2, <1>5, <1>9, <1>12 DEF Turno, Vencido, adm, n
<1> QED
  BY <1>3, <1>16, <1>17, <1>18 DEF SinCruce

LEMMA ContarSinCruce ==
  ASSUME TiposPuerta, SinCruce, NEW h \in Hilos, Contar(h)
  PROVE  SinCruce'
<1>1. /\ h \in EnLimite /\ hilo[h].paso = "contar"
      /\ UNCHANGED <<reloj, intentos>> /\ libro'.cruce = libro.cruce
      /\ libro'.admitidas = libro.admitidas
  BY EfectoContar DEF EnLimite
<1> SUFFICES ASSUME ~libro.cruce
             PROVE  SinCruce'
  BY <1>1 DEF SinCruce
<1>2. /\ ColaFiel /\ VentanasJustas /\ Turno(h)
      /\ \A k \in EnLimite : k = h
  BY <1>1 DEF SinCruce
<1>3. CASE /\ Len(intentos) >= max_requests
           /\ Queda(h, "libre", 0, "catalogo", Nadie, 429)
           /\ libro'.negadas = libro.negadas \cup {hilo[h].ahora}
  <2>1. EnLimite' = {}
    BY <1>2, <1>3 DEF EnLimite, Queda
  <2>2. hilo[h].ahora \in Nat /\ reloj \in Nat /\ hilo[h].ahora <= reloj
    BY <1>2, FichaDe DEF FichaHilo, TiposPuerta, Turno
  <2>3. ColaFiel'
    BY <1>1, <1>2, <1>3, <2>2 DEF ColaFiel, Fuera
  <2>4. Cardinality(EnVentana(hilo[h].ahora)) = max_requests
    <3>1. Cardinality(EnVentana(hilo[h].ahora)) = Len(intentos)
      BY <1>1, <1>2, VentanaPropia
    <3>2. Cardinality(EnVentana(hilo[h].ahora)) <= max_requests
      BY <1>2, <2>2 DEF VentanasJustas
    <3>3. Len(intentos) \in Nat /\ max_requests \in Nat
      BY DEF TiposPuerta
    <3> QED
      BY <1>3, <3>1, <3>2, <3>3
  <2>5. VentanasJustas'
    BY <1>1, <1>2, <1>3, <2>4, VentanaIgual DEF VentanasJustas
  <2> QED
    BY <2>1, <2>3, <2>5 DEF SinCruce
<1>4. CASE /\ Len(intentos) < max_requests
           /\ Queda(h, "anotar", hilo[h].ahora, hilo[h].etapa, hilo[h].toma, hilo[h].estado)
           /\ libro' = libro
  <2>1. EnLimite' \subseteq {h}
    BY <1>2, <1>4 DEF EnLimite, Queda
  <2>2. ColaFiel' /\ VentanasJustas'
    BY <1>1, <1>2, <1>4, VentanaIgual DEF ColaFiel, Fuera, VentanasJustas
  <2>3. hilo'[h].ahora = hilo[h].ahora /\ hilo'[h].paso = "anotar"
    BY <1>4 DEF Queda
  <2>4. Turno(h)'
    BY <1>1, <1>2, <1>4, <2>3 DEF Turno, Fuera, Vencido
  <2> QED
    BY <2>1, <2>2, <2>4 DEF SinCruce
<1> QED
  BY <1>3, <1>4, EfectoContar

(* Whoever falls in the window of a later instant and came before it falls   *)
(* in that of this one.                                                     *)
LEMMA VentanaPosterior ==
  ASSUME TiposPuerta, NEW s \in Nat, NEW t \in Nat, s <= t,
         \A i \in 1 .. Len(libro.admitidas) : libro.admitidas[i] <= s
  PROVE  EnVentana(t) \subseteq EnVentana(s)
<1>1. /\ libro.admitidas \in Seq(Nat) /\ window_seconds \in Nat
      /\ DOMAIN libro.admitidas = 1 .. Len(libro.admitidas)
  BY DEF TiposPuerta, FichaLibro
<1>2. \A i \in DOMAIN libro.admitidas : libro.admitidas[i] \in Nat /\ libro.admitidas[i] <= s
  BY <1>1
<1> QED
  BY <1>1, <1>2 DEF EnVentana

LEMMA AnotarSinCruce ==
  ASSUME TiposPuerta, SinCruce, NEW h \in Hilos, Anotar(h)
  PROVE  SinCruce'
<1> DEFINE adm == libro.admitidas
           n == Len(libro.admitidas)
           m == Len(intentos)
           f == Fuera
           hora == hilo[h].ahora
<1>1. /\ h \in EnLimite /\ hilo[h].paso = "anotar"
      /\ reloj' = reloj /\ libro'.cruce = libro.cruce
      /\ libro'.negadas = libro.negadas
  BY EfectoAnotar DEF EnLimite
<1> SUFFICES ASSUME ~libro.cruce
             PROVE  SinCruce'
  BY <1>1 DEF SinCruce
<1>2. /\ ColaFiel /\ VentanasJustas /\ Turno(h)
      /\ \A k \in EnLimite : k = h
  BY <1>1 DEF SinCruce
<1>3. EnLimite' = {}
  BY <1>2, EfectoAnotar DEF EnLimite, Queda
<1>4. /\ adm \in Seq(Nat) /\ intentos \in Seq(Nat) /\ n \in Nat /\ m \in Nat
      /\ reloj \in Nat /\ hora \in Nat /\ window_seconds \in Nat \ {0} /\ max_requests \in Nat
      /\ libro.negadas \subseteq Nat
  <2>1. adm \in Seq(Nat) /\ intentos \in Seq(Nat) /\ reloj \in Nat /\ libro.negadas \subseteq Nat
    BY DEF TiposPuerta, FichaLibro
  <2>2. hora \in Nat
    BY FichaDe DEF FichaHilo
  <2> QED
    BY <2>1, <2>2
<1>5. DOMAIN adm = 1 .. n /\ \A i \in 1 .. n : adm[i] \in Nat
  BY <1>4
<1>6. /\ m < max_requests /\ hora <= reloj /\ m <= n /\ f = n - m
      /\ \A i \in 1 .. n : adm[i] <= hora
      /\ \A i \in 1 .. f : adm[i] + window_seconds <= reloj
      /\ \A i \in 1 .. m : intentos[i] = adm[f + i]
      /\ \A i, j \in 1 .. n : i <= j => adm[i] <= adm[j]
      /\ \A i \in 1 .. n : adm[i] <= reloj
      /\ \A t \in libro.negadas : t <= hora /\ t <= reloj
  BY <1>1, <1>2 DEF Turno, ColaFiel, Fuera, Vencido
<1>7. Cardinality(EnVentana(hora)) = m
  BY <1>1, <1>2, VentanaPropia
<1>8. intentos' = Append(intentos, hora) /\ libro'.admitidas = Append(adm, hora)
  BY EfectoAnotar
<1>9. /\ Len(libro'.admitidas) = n + 1 /\ DOMAIN libro'.admitidas = 1 .. n + 1
      /\ \A i \in 1 .. n : libro'.admitidas[i] = adm[i]
      /\ libro'.admitidas[n + 1] = hora
      /\ Len(intentos') = m + 1
      /\ \A i \in 1 .. m : intentos'[i] = intentos[i]
      /\ intentos'[m + 1] = hora
  BY <1>4, <1>8, AppendProperties
<1>10. Fuera' = f
  BY <1>4, <1>6, <1>9 DEF Fuera
<1> HIDE DEF adm, n, m, f, hora
<1>11. ColaFiel'
  <2>1. \A i \in 1 .. n + 1 : i \in 1 .. n \/ i = n + 1
    BY <1>4
  <2>2. \A i \in 1 .. m + 1 : i \in 1 .. m \/ i = m + 1
    BY <1>4
  <2>3. m + 1 <= n + 1 /\ f + (m + 1) = n + 1 /\ \A i \in 1 .. m : f + i \in 1 .. n
    BY <1>4, <1>6
  <2>4. \A i \in 1 .. m + 1 : intentos'[i] = libro'.admitidas[f + i]
    BY <1>6, <1>9, <2>2, <2>3
  <2>5. \A i \in 1 .. n + 1 : libro'.admitidas[i] <= hora /\ libro'.admitidas[i] <= reloj
    <3> TAKE i \in 1 .. n + 1
    <3>1. CASE i \in 1 .. n
      BY <1>6, <1>9, <3>1
    <3>2. CASE i = n + 1
      BY <1>4, <1>6, <1>9, <3>2
    <3> QED
      BY <2>1, <3>1, <3>2
  <2>6. ASSUME NEW i \in 1 .. n + 1, NEW j \in 1 .. n + 1, i <= j
        PROVE  libro'.admitidas[i] <= libro'.admitidas[j]
    <3>1. CASE j = n + 1
      BY <1>9, <2>5, <3>1
    <3>2. CASE j \in 1 .. n
      <4>1. i \in 1 .. n
        BY <1>4, <2>6, <3>2
      <4> QED
        BY <1>6, <1>9, <2>6, <3>2, <4>1
    <3> QED
      BY <2>1, <3>1, <3>2
  <2>7. \A i \in 1 .. f : libro'.admitidas[i] + window_seconds <= reloj
    <3>1. \A i \in 1 .. f : i \in 1 .. n
      BY <1>4, <1>6
    <3> QED
      BY <1>6, <1>9, <3>1
  <2> QED
    BY <1>1, <1>6, <1>9, <1>10, <2>3, <2>4, <2>5, <2>6, <2>7 DEF ColaFiel, Vencido
<1>12. ASSUME NEW t \in Nat
       PROVE  EnVentana(t)' =
                IF hora <= t /\ t < hora + window_seconds THEN EnVentana(t) \cup {n + 1} ELSE EnVentana(t)
  <2>1. EnVentana(t) = {i \in 1 .. n : adm[i] <= t /\ t < adm[i] + window_seconds}
    BY <1>5 DEF EnVentana, adm
  <2>2. EnVentana(t)' = {i \in 1 .. n + 1 : libro'.admitidas[i] <= t
                                             /\ t < libro'.admitidas[i] + window_seconds}
    BY <1>9 DEF EnVentana
  <2>3. 1 .. n + 1 = (1 .. n) \cup {n + 1}
    BY <1>4
  <2> QED
    BY <1>9, <2>1, <2>2, <2>3
<1>13. ASSUME NEW t \in Nat, t < hora
       PROVE  EnVentana(t)' = EnVentana(t)
  BY <1>4, <1>12, <1>13
<1>14. ASSUME NEW t \in Nat, hora <= t
       PROVE  Cardinality(EnVentana(t)') <= max_requests
  <2>1. EnVentana(t) \subseteq EnVentana(hora)
    BY <1>4, <1>6, <1>14, VentanaPosterior DEF adm, n
  <2>2. EnVentana(t)' \subseteq EnVentana(hora) \cup {n + 1}
    BY <1>12, <2>1
  <2>3. IsFiniteSet(EnVentana(hora)) /\ n + 1 \notin EnVentana(hora)
    BY <1>4, VentanaFinita DEF n
  <2>4. /\ IsFiniteSet(EnVentana(hora) \cup {n + 1})
        /\ Cardinality(EnVentana(hora) \cup {n + 1}) = m + 1
    BY <1>7, <2>3, FS_AddElement
  <2>5. IsFiniteSet(EnVentana(t)') /\ Cardinality(EnVentana(t)') <= m + 1
    BY <2>2, <2>4, FS_Subset
  <2>6. Cardinality(EnVentana(t)') \in Nat
    BY <2>5, FS_CardinalityType
  <2> QED
    BY <1>4, <1>6, <2>5, <2>6
<1>15. VentanasJustas'
  <2>1. ASSUME NEW t \in 0 .. reloj
        PROVE  Cardinality(EnVentana(t)') <= max_requests
    <3>1. CASE t < hora
      BY <1>2, <1>13, <2>1, <3>1 DEF VentanasJustas
    <3>2. CASE hora <= t
      BY <1>14, <2>1, <3>2
    <3> QED
      BY <1>4, <2>1, <3>1, <3>2
  <2>2. ASSUME NEW t \in libro.negadas
        PROVE  Cardinality(EnVentana(t)') = max_requests
    <3>1. Cardinality(EnVentana(t)) = max_requests
      BY <1>2, <2>2 DEF VentanasJustas
    <3>2. t # hora
      BY <1>4, <1>6, <1>7, <3>1
    <3>3. t \in Nat /\ t < hora
      BY <1>4, <1>6, <2>2, <3>2
    <3> QED
      BY <1>13, <3>1, <3>3
  <2> QED
    BY <1>1, <2>1, <2>2 DEF VentanasJustas
<1> QED
  BY <1>3, <1>11, <1>15 DEF SinCruce

LEMMA TictacSinCruce ==
  ASSUME TiposPuerta, SinCruce, Tictac
  PROVE  SinCruce'
<1>1. /\ reloj \in Nat /\ reloj' = reloj + 1
      /\ UNCHANGED <<intentos, hilo, libro>> /\ EnLimite' = EnLimite
  BY DEF Tictac, TiposPuerta, EnLimite
<1> SUFFICES ASSUME ~libro.cruce
             PROVE  SinCruce'
  BY <1>1 DEF SinCruce
<1>2. ColaFiel /\ VentanasJustas
  BY DEF SinCruce
<1>3. /\ libro.admitidas \in Seq(Nat) /\ libro.negadas \subseteq Nat /\ window_seconds \in Nat
      /\ \A i \in 1 .. Len(libro.admitidas) : libro.admitidas[i] \in Nat
      /\ intentos \in Seq(Nat)
  BY DEF TiposPuerta, FichaLibro
<1>4. Fuera' = Fuera /\ Fuera \in Nat /\ Fuera <= Len(libro.admitidas)
  BY <1>1, <1>2, <1>3 DEF Fuera, ColaFiel
<1>5. ColaFiel'
  <2>1. \A i \in 1 .. Len(libro.admitidas) : libro.admitidas[i] <= reloj + 1
    BY <1>1, <1>2, <1>3 DEF ColaFiel
  <2>2. \A i \in 1 .. Fuera : libro.admitidas[i] + window_seconds <= reloj + 1
    <3> TAKE i \in 1 .. Fuera
    <3>1. i \in 1 .. Len(libro.admitidas) /\ libro.admitidas[i] + window_seconds <= reloj
      BY <1>2, <1>3, <1>4 DEF ColaFiel, Vencido
    <3> QED
      BY <1>1, <1>3, <3>1
  <2>3. \A t \in libro.negadas : t <= reloj + 1
    BY <1>1, <1>2, <1>3 DEF ColaFiel
  <2> QED
    BY <1>1, <1>2, <1>4, <2>1, <2>2, <2>3 DEF ColaFiel, Vencido
<1>6. ASSUME NEW k \in EnLimite, Turno(k)
      PROVE  Turno(k)'
  <2>1. hilo[k].ahora \in Nat
    BY FichaDe DEF EnLimite, FichaHilo
  <2>2. hilo[k].ahora <= reloj + 1
    BY <1>1, <1>6, <2>1 DEF Turno
  <2> QED
    BY <1>1, <1>4, <1>6, <2>2 DEF Turno, Vencido
<1>7. VentanasJustas'
  <2>1. Cardinality(EnVentana(reloj + 1)) <= max_requests
    <3>1. EnVentana(reloj + 1) \subseteq EnVentana(reloj)
      BY <1>1, <1>2, VentanaPosterior DEF ColaFiel
    <3>2. Cardinality(EnVentana(reloj)) <= max_requests
      BY <1>1, <1>2 DEF VentanasJustas
    <3>3. Cardinality(EnVentana(reloj + 1)) <= Cardinality(EnVentana(reloj))
      BY <3>1, VentanaFinita, FS_Subset
    <3>4. /\ Cardinality(EnVentana(reloj + 1)) \in Nat /\ Cardinality(EnVentana(reloj)) \in Nat
          /\ max_requests \in Nat
      BY VentanaFinita
    <3> QED
      BY <3>2, <3>3, <3>4
  <2>2. \A t \in 0 .. reloj + 1 : t \in 0 .. reloj \/ t = reloj + 1
    BY <1>1
  <2> QED
    BY <1>1, <1>2, <2>1, <2>2, VentanaIgual DEF VentanasJustas
<1> QED
  BY <1>1, <1>5, <1>6, <1>7 DEF SinCruce

LEMMA NextSinCruce ==
  ASSUME TiposPuerta, SinCruce, NextPuerta
  PROVE  SinCruce'
<1>1. ASSUME NEW h \in Hilos, Mirar(h) \/ PedirPool(h) \/ Construir(h) \/ Obtener(h)
      PROVE  SinCruce'
  <2>1. \A k \in EnLimite' : k \in EnLimite /\ hilo'[k] = hilo[k]
    BY <1>1, EfectoMirar, EfectoPedirPool, EfectoConstruir, EfectoObtener DEF EnLimite, Queda
  <2> QED
    BY <1>1, <2>1, FueraDelLimite, EfectoMirar, EfectoPedirPool, EfectoConstruir, EfectoObtener
<1>2. ASSUME NEW h \in Hilos, UsarCatalogo(h) \/ UsarAlta(h) \/ Devolver(h)
      PROVE  SinCruce'
  <2>1. \A k \in EnLimite' : k \in EnLimite /\ hilo'[k] = hilo[k]
    BY <1>2, EfectoUsar, EfectoDevolver DEF EnLimite, Queda
  <2> QED
    BY <1>2, <2>1, FueraDelLimite, EfectoUsar, EfectoDevolver
<1> QED
  BY <1>1, <1>2, LlegarSinCruce, PodarSinCruce, SacarSinCruce, ContarSinCruce, AnotarSinCruce,
     TictacSinCruce DEF NextPuerta

-----------------------------------------------------------------------------
PuertaEnOrden ==
  TiposPuerta /\ PoolEnOrden /\ SinCruce /\ \A h \in Hilos : Honesto(h)

LEMMA PuertaInit == InitPuerta => PuertaEnOrden
<1> SUFFICES ASSUME InitPuerta
             PROVE  PuertaEnOrden
  OBVIOUS
<1>1. TiposPuerta /\ PoolEnOrden /\ \A h \in Hilos : Honesto(h)
  BY InitTipos
<1>2. EnLimite = {}
  BY DEF InitPuerta, EnLimite, Quieto
<1>3. intentos = << >> /\ libro.admitidas = << >> /\ libro.negadas = {} /\ reloj = 0
  BY DEF InitPuerta
<1>4. ColaFiel
  BY <1>3 DEF ColaFiel, Fuera
<1>5. \A t : EnVentana(t) = {}
  BY <1>3 DEF EnVentana
<1>6. VentanasJustas
  <2>1. \A t : Cardinality(EnVentana(t)) = 0
    BY <1>5, FS_EmptySet
  <2>2. 0 <= max_requests
    OBVIOUS
  <2> QED
    BY <1>3, <2>1, <2>2 DEF VentanasJustas
<1> QED
  BY <1>1, <1>2, <1>4, <1>6 DEF PuertaEnOrden, SinCruce

LEMMA PuertaPaso ==
  ASSUME PuertaEnOrden, [NextPuerta]_varsPuerta
  PROVE  PuertaEnOrden'
<1>1. CASE NextPuerta
  <2>1. TiposPuerta' /\ PoolEnOrden' /\ SinCruce'
    BY <1>1, NextTipos, NextPool, NextSinCruce DEF PuertaEnOrden
  <2>2. \A k \in Hilos : Honesto(k)'
    BY <1>1, NextHonesto DEF PuertaEnOrden
  <2> QED
    BY <2>1, <2>2 DEF PuertaEnOrden
<1>2. CASE UNCHANGED varsPuerta
  <2>1. TiposPuerta' /\ PoolEnOrden' /\ \A k \in Hilos : Honesto(k)'
    BY <1>2 DEF PuertaEnOrden, varsPuerta, TiposPuerta, PoolEnOrden, Honesto
  <2>2. \A k \in EnLimite' : k \in EnLimite /\ hilo'[k] = hilo[k]
    BY <1>2 DEF varsPuerta, EnLimite
  <2>3. SinCruce'
    BY <1>2, <2>2, FueraDelLimite DEF PuertaEnOrden, varsPuerta
  <2> QED
    BY <2>1, <2>3 DEF PuertaEnOrden
<1> QED
  BY <1>1, <1>2

(* The answers of the public API, the connections of its pool and the limit *)
(* of its clients, for any number of threads, connections and requests, any *)
(* limit and any window: the code of create_lead, initialize_pool,          *)
(* get_db_connection and InMemoryRateLimiter.allow keeps them all.          *)
THEOREM PuertaSiempreSegura == SpecPuerta => []PuertaSegura
<1>1. PuertaEnOrden => PuertaSegura
  <2> SUFFICES ASSUME PuertaEnOrden
               PROVE  PuertaSegura
    OBVIOUS
  <2>1. RespuestaVeraz
    BY DEF PuertaEnOrden, Honesto, RespuestaVeraz, En
  <2>2. SinFugas
    BY DEF PuertaEnOrden, PoolEnOrden, SinFugas
  <2>3. LimiteJusto
    BY DEF PuertaEnOrden, SinCruce, VentanasJustas, LimiteJusto
  <2> QED
    BY <2>1, <2>2, <2>3 DEF PuertaSegura
<1> QED
  BY <1>1, PuertaInit, PuertaPaso, PTL DEF SpecPuerta
==============================================================================
