-------------------------- MODULE MCLeadAttachments --------------------------
(***************************************************************************)
(* One lead, two attachments, two event loops and a thread; a Socio, a     *)
(* Coordinador with a portfolio and the tester of the cleanup; a sound     *)
(* image, a PDF with embedded files and a PDF with JavaScript.             *)
(***************************************************************************)
EXTENDS LeadAttachments, TLC

CONSTANTS l1, r1, socio, coord, a1, a2, w1, w2, h1

MCRol   == socio :> "ceo" @@ coord :> "coordinator"
MCFicha == socio :> Nada @@ coord :> r1

Archivo(firma, nombres) ==
  [vacio |-> FALSE, grande |-> FALSE, firma |-> firma, entero |-> TRUE, pixeles |-> FALSE,
   nombres |-> nombres]

MCArchivos == {Archivo("pdf", <<"EmbeddedFile">>),
               Archivo("pdf", <<"EmbeddedFile", "JS", "Launch">>)}

Simetria == Permutations({a1, a2}) \cup Permutations({w1, w2})
=============================================================================
