------------------------------ MODULE IntakeData ------------------------------
(***************************************************************************)
(* The keys, payloads, people and leads of the public form, and the rows   *)
(* of tpi.api_idempotency.                                                 *)
(***************************************************************************)
EXTENDS Naturals

CONSTANTS
  Claves,        \* Idempotency-Key values
  Huellas,       \* HMAC fingerprints, one per distinct payload
  Ruts,          \* national ids of the people who send them
  RutDe,         \* the rut inside each payload
  Leads,         \* id_lead values gen_random_uuid may give
  MaxVigencias,  \* bound: times each key may expire
  Nada           \* SQL NULL

Lead == [clave : Claves, huella : Huellas, vigencia : Nat, vivo : BOOLEAN]
Registro == [huella : Huellas, lead : Leads \cup {Nada}, vigencia : Nat]

ASSUME IntakeAssumption ==
  /\ RutDe \in [Huellas -> Ruts]
  /\ MaxVigencias \in Nat
  /\ Nada \notin Lead \cup Registro \cup Leads
===============================================================================
