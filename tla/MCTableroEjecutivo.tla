------------------------- MODULE MCTableroEjecutivo -------------------------
(***************************************************************************)
(* A small instance of TableroEjecutivo: the readers come on day 9 to      *)
(* three leads, each with one of four histories, and cutover on day 4.     *)
(***************************************************************************)
EXTENDS TableroEjecutivo, TLC

CONSTANTS
  ana, coco,    \* users: Socio, Coordinador
  cata, rita    \* advisor rows; coco is cata

MCRol == ana :> "ceo" @@ coco :> "coordinator"
MCFicha == ana :> Nada @@ coco :> cata
MCRolAsesor == cata :> "asesor" @@ rita :> "asesor"
MCAtiende == cata :> TRUE @@ rita :> FALSE
MCManuales == {"cerrado"}
MCDias == {0, 4, 9, 31}

Cambio(u, x, y) == [accion |-> "cambio_estado_lead", por |-> u, de |-> x, a |-> y]
Asignacion(x) == [accion |-> "asignacion_lead", por |-> ana, de |-> x, a |-> "asignado"]
Mov(a, c, n) == [asig |-> a, cambio |-> c, nota |-> n]
Alta(d, o) == [dia |-> d, origen |-> o]

MCHistorias ==
  {[alta |-> Nada, dias |-> Mov({}, {}, {}), estado |-> "nuevo", asig |-> {}, hist |-> <<>>],
   [alta |-> Alta(0, "web"), dias |-> Mov({}, {}, {4}), estado |-> "nuevo", asig |-> {}, hist |-> <<>>],
   [alta |-> Alta(0, "web"), dias |-> Mov({0}, {4}, {}), estado |-> "en_seguimiento",
    asig |-> {cata},
    hist |-> <<Asignacion("nuevo"), Cambio(coco, "asignado", "en_seguimiento")>>],
   [alta |-> Alta(4, "referido"), dias |-> Mov({4}, {4}, {9}), estado |-> "cerrado",
    asig |-> {cata},
    hist |-> <<Asignacion("nuevo"), Cambio(ana, "asignado", "cerrado")>>]}

Filtro(e, a, o, x, y) == [estado |-> e, asesor |-> a, origen |-> o, desde |-> x, hasta |-> y]

MCFiltros ==
  {Filtro(Nada, Nada, Nada, 4, Nada), Filtro("en_seguimiento", cata, Nada, 0, 9)}

Simetria == Permutations(Leads)
=============================================================================
