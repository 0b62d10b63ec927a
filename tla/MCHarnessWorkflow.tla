-------------------------- MODULE MCHarnessWorkflow --------------------------
(* One task that deploys and needs the human's acceptance, one that does    *)
(* not deploy, one outside the fast path.  Two heads with different trees,  *)
(* and the commit each one becomes when it is merged.                       *)
EXTENDS HarnessWorkflow, TLC

CONSTANTS t1, t2, t3, h1, h2, m1, m2, x1, x2

MCFicha ==
  t1 :> [despliega |-> TRUE,  rapida |-> TRUE,  humanos |-> TRUE] @@
  t2 :> [despliega |-> FALSE, rapida |-> FALSE, humanos |-> FALSE] @@
  t3 :> [despliega |-> TRUE,  rapida |-> FALSE, humanos |-> FALSE]

MCBacklogs == {{t1}, {t2, t3}}

MCArbol == h1 :> "a1" @@ m1 :> "a1" @@ h2 :> "a2" @@ m2 :> "a2"

(* The sessions are alike, and so are the two changes: a head together with *)
(* its commit of main; trees are only compared.                             *)
Cambio == h1 :> h2 @@ h2 :> h1 @@ m1 :> m2 @@ m2 :> m1

Simetria == {Cambio} \cup Permutations({x1, x2}) \cup
            {Cambio @@ s : s \in Permutations({x1, x2})}
=============================================================================
