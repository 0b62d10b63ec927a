---------------------------- MODULE MCLeadIntake ----------------------------
(***************************************************************************)
(* Small instances of LeadIntake.                                          *)
(***************************************************************************)
EXTENDS LeadIntake, TLC

CONSTANTS k1, k2, h1, h2, r1, p1, p2

MCRutDe == h1 :> r1 @@ h2 :> r1

Pet(k, h) == [clave |-> k, huella |-> h]

(* Between the two callers: the same request, the same key with other data, *)
(* and the same person under another key.                                   *)
PeticionesDosClaves ==
  p1 :> {Pet(k1, h1), Pet(k2, h2)} @@ p2 :> {Pet(k1, h2), Pet(k2, h2)}

(* One key, sent again and again. *)
PeticionesUnaClave == [p \in Procs |-> {Pet(k1, h1)}]
=============================================================================
