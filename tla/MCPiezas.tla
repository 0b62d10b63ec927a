----------------------------- MODULE MCPiezas ------------------------------
(***************************************************************************)
(* Small instances of four pieces: the week of the agenda, the pension     *)
(* simulator, the entrance of the public API and the human gates of the    *)
(* harness.  They share no state: a behaviour is of one of them, and the   *)
(* others stand.                                                           *)
(***************************************************************************)
EXTENDS MCAgendaCalendar, Simulador, PuertaApi, HarnessGates

CONSTANTS v1, v2

(* Somebody of that age on HOY, born in the first or second half of a month. *)
Nacido(anios, meses, tarde) ==
  [mes |-> HOY - 12 * anios - meses + (IF tarde THEN 0 ELSE 1), tarde |-> tarde]

Persona(sexo, nac) == [sexo |-> sexo, nac |-> nac]

Blanco == [sexo |-> Nulo, nac |-> Nulo, inv |-> "no", comun |-> FALSE]

Familiar(nac, comun, inv) == [sexo |-> "M", nac |-> nac, comun |-> comun, inv |-> inv]

Esposa == Familiar(Nacido(58, 0, FALSE), FALSE, "no")

(* About to lose the right, young, and grown up with each invalidity.       *)
Ninos ==
  {Familiar(Nacido(23, 11, TRUE), TRUE, "no"), Familiar(Nacido(10, 0, FALSE), FALSE, "no"),
   Familiar(Nacido(30, 0, FALSE), TRUE, "no"), Familiar(Nacido(30, 0, FALSE), TRUE, "total"),
   Familiar(Nacido(22, 0, TRUE), FALSE, "parcial")}

Llano ==
  [token |-> TRUE, intent |-> "simular", saldo |-> 5000, tasa |-> 45, garantia |-> 0,
   aumento |-> 0, pct |-> 0, diferidos |-> 0, rvd |-> 100, conyuge |-> Blanco, hijos |-> << >>]

(* A row between two of the form may be left blank.                         *)
Familias ==
  {<< >>} \cup {<<n>> : n \in Ninos} \cup {<<a, Blanco, b>> : a, b \in Ninos}

Planes == {<<0, 0, 0>>, <<240, 0, 0>>, <<480, 120, 50>>, <<12, 60, 50>>}

Inmediatas ==
  {[Llano EXCEPT !.conyuge = c, !.hijos = hs, !.garantia = g[1], !.aumento = g[2], !.pct = g[3]]
     : c \in {Blanco, Esposa}, hs \in Familias, g \in Planes}

(* The mother of a small child and a guarantee as long as the table: the     *)
(* child loses the right past it.                                           *)
Tardia ==
  [Llano EXCEPT !.conyuge = Esposa, !.garantia = 240,
     !.hijos = <<Familiar(Nacido(3, 0, FALSE), TRUE, "no")>>]

Diferida == [Llano EXCEPT !.diferidos = 10, !.tasa = 80, !.rvd = 51]

(* One request that each check refuses, or that only the engine does.       *)
Errados ==
  {[Llano EXCEPT !.token = FALSE], [Llano EXCEPT !.saldo = 499], [Llano EXCEPT !.tasa = 80],
   [Llano EXCEPT !.hijos = <<[Blanco EXCEPT !.sexo = "H"]>>], [Diferida EXCEPT !.rvd = 99 + 50],
   [Diferida EXCEPT !.conyuge = Esposa], [Diferida EXCEPT !.garantia = 120],
   [Llano EXCEPT !.conyuge = [Esposa EXCEPT !.inv = "total"]],
   [Llano EXCEPT !.hijos = [i \in 1 .. 5 |-> Familiar(Nacido(10, 0, FALSE), TRUE, "no")]]}

Gemelos ==
  [Llano EXCEPT !.hijos =
     <<Familiar(Nacido(10, 0, TRUE), TRUE, "parcial"), Familiar(Nacido(10, 0, TRUE), TRUE, "no"),
       Familiar(Nacido(12, 0, TRUE), FALSE, "no")>>]

Pdf(f) == [f EXCEPT !.intent = "descargar_pdf"]

FormulariosSim ==
  [p \in Procesos |->
     IF p = "ceo" THEN Inmediatas \cup Errados \cup {Tardia, Diferida, Pdf(Diferida), Pdf(Gemelos)}
     ELSE {Pdf(Gemelos), Pdf([Diferida EXCEPT !.rvd = 50]), [Llano EXCEPT !.token = FALSE]}]

RolesSim == [p \in Procesos |-> p]

CausantesSim ==
  {Persona("H", Nacido(62, 0, TRUE)), Persona("M", Nacido(88, 11, FALSE)), Persona("M", Nulo),
   Persona("H", Nacido(92, 11, TRUE))}

SimuladorQuieto ==
  /\ pension = Nulo /\ peticion = [p \in Procesos |-> Ocioso]
  /\ eventos = << >> /\ fichas = {} /\ envios = [p \in Procesos |-> MaxEnvios + 1]

AgendaQuieta == ahora = 0 /\ citas = [c \in Ids |-> SinCita]

PuertaQuieta ==
  /\ reloj = MaxReloj + 1 /\ intentos = << >> /\ hilo = [h \in Hilos |-> Quieto]
  /\ piscina = [abierta |-> FALSE, candado |-> Nadie, libres |-> {}]
  /\ libro = [entradas |-> MaxEntradas, admitidas |-> << >>, negadas |-> {}, cruce |-> FALSE]

CriteriosHumanos == {"AC-1"}

ContestadasGates == {[humanos |-> CriteriosHumanos, despliega |-> TRUE]}

(* With somewhere to deploy, a task goes all its way, with one draft and one *)
(* window of every command; without, it may have to stop at a block, with   *)
(* two drafts and two windows that define and activate.                     *)
BorradoresGates == [destino \in BOOLEAN |-> IF destino THEN 1 ELSE 2]

UsoGates ==
  [destino \in BOOLEAN |->
     IF destino THEN v1 :> {"define", "activate", "gate", "accept", "resolve"} @@ v2 :> {}
     ELSE [v \in Ventanas |-> {"define", "activate"}]]

GatesQuietos ==
  /\ arnes = ArnesVacio /\ lista = {} /\ cerradas = {}
  /\ borrador = [i \in Numeros |-> Ninguno]
  /\ orq = Reposo /\ ventana = [v \in Ventanas |-> Ninguno]
  /\ memoria = [destino |-> FALSE, borradores |-> 0, defines |-> {}, guardadas |-> {},
                relevos |-> {}, cruce |-> TRUE]

InitPiezas ==
  \/ Init /\ SimuladorQuieto /\ PuertaQuieta /\ GatesQuietos
  \/ InitSim /\ AgendaQuieta /\ PuertaQuieta /\ GatesQuietos
  \/ InitPuerta /\ AgendaQuieta /\ SimuladorQuieto /\ GatesQuietos
  \/ InitGates /\ AgendaQuieta /\ SimuladorQuieto /\ PuertaQuieta

(* Gates that stand have an empty backlog.                                  *)
NextPiezas ==
  \/ /\ envios = [p \in Procesos |-> MaxEnvios + 1] /\ reloj > MaxReloj /\ lista = {}
     /\ Next /\ UNCHANGED <<varsSim, varsPuerta, varsGates>>
  \/ /\ ahora = 0 /\ reloj > MaxReloj /\ lista = {}
     /\ NextSim /\ UNCHANGED <<vars, varsPuerta, varsGates>>
  \/ /\ ahora = 0 /\ lista = {}
     /\ NextPuerta /\ UNCHANGED <<vars, varsSim, varsGates>>
  \/ /\ lista # {}
     /\ NextGates /\ UNCHANGED <<vars, varsSim, varsPuerta>>

SpecPiezas == InitPiezas /\ [][NextPiezas]_<<vars, varsSim, varsPuerta, varsGates>>

SimetriaPiezas == Permutations(Responsables) \cup Permutations(Hilos)
=============================================================================
