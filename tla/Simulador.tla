------------------------------ MODULE Simulador ------------------------------
(***************************************************************************)
(* The pension simulator: the page /leads/{id}/simulador, the checks of    *)
(* the form and of the engine, how the engine shares a pension among the   *)
(* survivors, and the PDF with its audit event.                            *)
(*                                                                         *)
(* A date is its month and whether its day is the 15th or later, all that  *)
(* the age depends on; the rate is in tenths of a percent; probabilities   *)
(* of survival are taken as certain, and the survivors' shares, which a    *)
(* life table only scales, are counted in units of UNIDAD.  The pension    *)
(* and the hash of the verification code are functions of their inputs,    *)
(* so the inputs stand for them.                                           *)
(***************************************************************************)
EXTENDS Integers, SequencesExt, FiniteSetsExt

CONSTANTS
  Procesos,      \* one request at a time each: the handler is async
  Perfil,        \* of the user of each process
  Formularios,   \* what the user of each process may send
  Causantes,     \* genero and fecha_nacimiento that a lead may have
  HOY,           \* fecha_simulacion
  MaxEnvios,     \* bound: requests of each process
  Nulo           \* an empty field, and what there is not

VARIABLES
  pension,       \* the lead: its data and owner, Nulo once deleted
  peticion,      \* the request each process serves
  eventos,       \* tpi.auditoria: events simulacion_renta_vitalicia
  fichas,        \* PDFs delivered
  envios

varsSim == <<pension, peticion, eventos, fichas, envios>>

Personas ==
  [sexo : {"H", "M", Nulo}, nac : [mes : Int, tarde : BOOLEAN] \cup {Nulo},
   inv : {"no", "parcial", "total"}, comun : BOOLEAN]

Total(g) == MapThenSumSet(LAMBDA k : g[k], DOMAIN g)

UNIDAD == 1200   \* one pension; divisible by every number of children

-----------------------------------------------------------------------------
(***************************************************************************)
(* Ages.                                                                   *)
(***************************************************************************)
edad_en_meses(nac) == HOY - nac.mes - (IF nac.tarde THEN 1 ELSE 0) + 1

Edad(nac) == edad_en_meses(nac) \div 12

-----------------------------------------------------------------------------
(***************************************************************************)
(* The form.                                                               *)
(***************************************************************************)
Completa(persona) == persona.sexo # Nulo /\ persona.nac # Nulo

EnBlanco(persona) == persona.sexo = Nulo /\ persona.nac = Nulo

(* _parse_simulador_form drops the rows without sex and date of birth.      *)
Conyuge(f) == IF EnBlanco(f.conyuge) THEN Nulo ELSE f.conyuge

Hijos(f) == SelectSeq(f.hijos, LAMBDA h : ~EnBlanco(h))

(* What the form lets the user choose, and what the columns of a lead hold.  *)
ASSUME SimuladorAssumption ==
  /\ \A p \in Procesos : \A f \in Formularios[p] :
       Hijos(f) \in Seq(Personas) /\ f.conyuge \in Personas
  /\ HOY \in Int /\ Nulo \notin Int \cup Personas
  /\ Nulo \notin [causante : Causantes, de : Procesos]

SaldoValido(f) == 500 <= f.saldo /\ f.saldo <= 100000

TasaValida(f) == 5 <= f.tasa /\ f.tasa <= 80

PeriodosValidos(f) ==
  f.garantia \in 0..480 /\ f.aumento \in 0..600 /\ f.pct \in 0..100 /\ f.diferidos \in 0..10

RvdValido(f) == f.rvd \in {50, 100} \cup 51..99

(* _rangos_por_escenario *)
RangosPorEscenario(f) == IF f.diferidos > 0 THEN f.saldo >= 1000 ELSE f.tasa <= 75

FamiliaValida(f) ==
  /\ Len(Hijos(f)) <= 4
  /\ Conyuge(f) # Nulo => Completa(f.conyuge) /\ f.conyuge.inv = "no"
  /\ \A i \in DOMAIN Hijos(f) : Completa(Hijos(f)[i])

FormularioValido(f) ==
  /\ SaldoValido(f) /\ TasaValida(f) /\ PeriodosValidos(f) /\ RvdValido(f)
  /\ RangosPorEscenario(f) /\ FamiliaValida(f)

(* validar_edades: the range of the causante depends on who else there is.  *)
RangoCausante(f) ==
  IF f.diferidos > 0 THEN 59..88
  ELSE IF Conyuge(f) # Nulo THEN 60..92
  ELSE IF Hijos(f) # << >> THEN 62..92
  ELSE 60..100

EdadesValidas(f, causante) ==
  /\ Edad(causante.nac) \in RangoCausante(f)
  /\ Conyuge(f) # Nulo => Edad(f.conyuge.nac) \in 46..96
  /\ \A i \in DOMAIN Hijos(f) : Edad(Hijos(f)[i].nac) \in 0..41

(* api.simular: a deferred annuity is known for the causante alone.         *)
Reconstruida(f) ==
  f.diferidos > 0 => Conyuge(f) = Nulo /\ Hijos(f) = << >> /\ f.garantia = 0 /\ f.aumento = 0

(* What every range check lets through is in the domain of the engine.      *)
EnDominio(f) ==
  /\ f.saldo > 0 /\ 0 < f.tasa /\ f.tasa <= 1000
  /\ f.garantia >= 0 /\ f.aumento >= 0 /\ f.diferidos >= 0 /\ f.pct \in 0..100
  /\ f.diferidos > 0 => f.rvd = 100 \/ (50 <= f.rvd /\ f.rvd < 100)

Simula(f, causante) == EdadesValidas(f, causante) /\ EnDominio(f) /\ Reconstruida(f)

(* clasificar_escenario *)
Escenario(f) ==
  IF f.diferidos > 0 THEN "renta_temporal_rvd"
  ELSE IF Conyuge(f) = Nulo /\ Hijos(f) = << >> /\ f.garantia = 0 /\ f.aumento = 0
  THEN "renta_inmediata_causante"
  ELSE "renta_inmediata_familia"

(* _familia_desde: the table of the page, from the raw fields and without   *)
(* any validation, row by row with the age of each.                         *)
FilaFamilia(rol, persona) ==
  [rol |-> rol, sexo |-> persona.sexo,
   edad |-> IF persona.nac = Nulo THEN Nulo ELSE Edad(persona.nac)]

FamiliaMostrada(f, causante) ==
  <<FilaFamilia("causante", causante)>>
  \o (IF EnBlanco(f.conyuge) THEN << >> ELSE <<FilaFamilia("conyuge", f.conyuge)>>)
  \o [i \in DOMAIN Hijos(f) |-> FilaFamilia("hijo", Hijos(f)[i])]

-----------------------------------------------------------------------------
(***************************************************************************)
(* renta_inmediata.calcular, month by month from the simulation on.        *)
(***************************************************************************)
ConDerechoPorEdad(h, m) == edad_en_meses(h.nac) + m < 24 * 12

Elegible(h, m) == h.inv # "no" \/ ConDerechoPorEdad(h, m)

(* Faulty variant: a child who has lost the right still counts.             *)
HayComun_Todos(hijos, m) == \E i \in DOMAIN hijos : hijos[i].comun

HayComun(hijos, m) == \E i \in DOMAIN hijos : hijos[i].comun /\ Elegible(hijos[i], m)

CuotaConyuge(hijos, m) == IF HayComun(hijos, m) THEN 600 ELSE 720

ConDerecho(hijos, m) == {i \in DOMAIN hijos : Elegible(hijos[i], m)}

PctHijo(h, m) == IF h.inv = "parcial" /\ ~ConDerechoPorEdad(h, m) THEN 132 ELSE 180

(* The guarantee covers what is left of the table of the causante.          *)
GarantiaLarga(g, causante) == g > 0 /\ g >= 111 * 12 - edad_en_meses(causante.nac)

CuotaHijo(hijos, conyuge, i, m) ==
  PctHijo(hijos[i], m)
  + (IF conyuge = Nulo THEN 600 \div Cardinality(ConDerecho(hijos, m)) ELSE 0)

(* sobrevivencia *)
Sobrevivencia(causante, conyuge, hijos, g, m) ==
  (IF conyuge = Nulo THEN 0 ELSE CuotaConyuge(hijos, m))
  + Total([i \in {j \in ConDerecho(hijos, m) : GarantiaLarga(g, causante) => m < g} |->
             CuotaHijo(hijos, conyuge, i, m)])

(* The factor b of the temporary increase, in hundredths.                   *)
Base(f, m) == 100 + (IF m < f.aumento THEN f.pct ELSE 0)

(* pago, with the causante alive or dead.                                   *)
Pago(f, causante, vive, m) ==
  Base(f, m) * (IF m < f.garantia \/ vive THEN UNIDAD
                ELSE Sobrevivencia(causante, Conyuge(f), Hijos(f), f.garantia, m))

-----------------------------------------------------------------------------
(***************************************************************************)
(* renta_diferida.calcular.  x has A_def, Q_ins, the D and kappa * a_N of a *)
(* temporary annuity of one P, and the balance; both sides of the equation *)
(* are multiplied by the balance.                                          *)
(***************************************************************************)
Prima(x, p) == x.adef * p + x.qins

Comision(x, p) == Min({x.kan * p, 60}) * Max({Prima(x, p), Min({x.saldo, 3000})})

Exceso(x, p) == (Prima(x, p) + x.d * p - x.saldo) * x.saldo + Comision(x, p)

(* The search halves [lo, hi] until nothing is left between them.           *)
Biseccion(x) ==
  LET busca[r \in (0..x.saldo) \X (0..x.saldo)] ==
        LET medio == (r[1] + r[2]) \div 2 IN
        IF r[2] - r[1] <= 1 THEN r[1]
        ELSE IF Exceso(x, medio) > 0 THEN busca[<<r[1], medio>>] ELSE busca[<<medio, r[2]>>]
  IN busca[<<0, x.saldo>>]

-----------------------------------------------------------------------------
(***************************************************************************)
(* The PDF: its options, the amounts of each in hundredths of a pension,   *)
(* its verification code and the detail of the audit event.                *)
(***************************************************************************)
Opciones(f) ==
  IF f.diferidos > 0 THEN {"rvd"} ELSE {"I"} \cup (IF f.aumento > 0 THEN {"II"} ELSE {})

RescateOpcionI(f) == 100 * f.garantia

RescateOpcionII(f) == (100 + f.pct) * f.aumento + 100 * (f.garantia - f.aumento)

(* sorted by date of birth and sex, which keeps the order of equal ones.    *)
NacioAntes(a, b) == a.mes < b.mes \/ (a.mes = b.mes /\ ~a.tarde /\ b.tarde)

VaAntes(a, b) == NacioAntes(a.nac, b.nac) \/ (a.nac = b.nac /\ a.sexo = "H" /\ b.sexo = "M")

Precede(hijos, i, j) ==
  VaAntes(hijos[i], hijos[j]) \/ (i < j /\ ~VaAntes(hijos[j], hijos[i]))

Lugar(hijos, i) == Cardinality({j \in DOMAIN hijos : Precede(hijos, j, i)}) + 1

HijosOrdenados(hijos) ==
  [k \in DOMAIN hijos |-> hijos[CHOOSE i \in DOMAIN hijos : Lugar(hijos, i) = k]]

(* codigo_verificacion: the canonical inputs.                               *)
Codigo(e) ==
  <<e.causante, e.conyuge, HijosOrdenados(e.hijos), e.saldo, e.tasa, e.garantia, e.aumento,
    e.pct, e.diferidos, e.rvd>>

Entradas(f, causante) ==
  [causante |-> causante, conyuge |-> Conyuge(f), hijos |-> Hijos(f), saldo |-> f.saldo,
   tasa |-> f.tasa, garantia |-> f.garantia, aumento |-> f.aumento, pct |-> f.pct,
   diferidos |-> f.diferidos, rvd |-> f.rvd]

(* build_detalle *)
Detalle(f, causante) ==
  LET e == Entradas(f, causante) IN [e EXCEPT !.hijos = HijosOrdenados(@)]

-----------------------------------------------------------------------------
(***************************************************************************)
(* simulador_accion.                                                       *)
(***************************************************************************)
Ocioso == [paso |-> "ocioso", lead |-> Nulo, form |-> Nulo]

(* can_simulate *)
PuedeSimular(p) == Perfil[p] \in {"ceo", "cto", "executive", "coordinator"}

(* get_solicitud_detalle_masked: a Coordinador sees the leads of his own.   *)
PuedeVer(p) == pension # Nulo /\ (Perfil[p] = "coordinator" => pension.de = p)

EnPasoSim(p, paso) == peticion[p].paso = paso

(* The page, and the POST until it waits for the form: it keeps the lead it *)
(* read.  A refusal changes nothing.                                        *)
Leer(p) ==
  /\ peticion[p].paso \in {"ocioso", "respondida"} /\ envios[p] < MaxEnvios
  /\ PuedeSimular(p) /\ PuedeVer(p)
  /\ peticion' = [peticion EXCEPT ![p] =
       [paso |-> "formulario", lead |-> pension.causante, form |-> Nulo]]
  /\ envios' = [envios EXCEPT ![p] = @ + 1]
  /\ UNCHANGED <<pension, eventos, fichas>>

(* _causante_desde_lead *)
CausanteValido(c) == Completa(c)

Aceptado(f, causante) == FormularioValido(f) /\ CausanteValido(causante) /\ Simula(f, causante)

(* After the wait nothing else runs in the process.  A token that is not    *)
(* the session's, a wrong form and what the engine refuses end the request. *)
Rechazar(p) ==
  /\ EnPasoSim(p, "formulario")
  /\ \E f \in Formularios[p] : ~f.token \/ ~Aceptado(f, peticion[p].lead)
  /\ peticion' = [peticion EXCEPT ![p] = Ocioso]
  /\ UNCHANGED <<pension, eventos, fichas, envios>>

(* An intent that is not descargar_pdf shows the result in the page.        *)
Simular(p) ==
  /\ EnPasoSim(p, "formulario")
  /\ \E f \in Formularios[p] :
       /\ f.token /\ Aceptado(f, peticion[p].lead)
       /\ peticion' = [peticion EXCEPT ![p].form = f,
            ![p].paso = IF f.intent = "descargar_pdf" THEN "generar" ELSE "respondida"]
  /\ UNCHANGED <<pension, eventos, fichas, envios>>

GenerarPdf(p) ==
  /\ EnPasoSim(p, "generar")
  /\ \/ peticion' = [peticion EXCEPT ![p].paso = "registrar"]
     \/ peticion' = [peticion EXCEPT ![p] = Ocioso]         \* it cannot be built: 500
  /\ UNCHANGED <<pension, eventos, fichas, envios>>

EventoDe(p) ==
  LET q == peticion[p] IN
  [actor |-> p, escenario |-> Escenario(q.form), detalle |-> Detalle(q.form, q.lead),
   codigo |-> Codigo(Entradas(q.form, q.lead))]

(* Faulty variant: the event that could not be written is only logged.      *)
SinEvento_Sigue(p) == [peticion EXCEPT ![p].paso = "entregar"]

SinEvento(p) == [peticion EXCEPT ![p] = Ocioso]

(* record_simulacion_event commits, or fails: the lead is gone, or the      *)
(* connection breaks, maybe after the commit.  Without the event, 500.      *)
Registrar(p) ==
  /\ EnPasoSim(p, "registrar")
  /\ \/ /\ pension # Nulo
        /\ eventos' = Append(eventos, EventoDe(p))
        /\ peticion' = [peticion EXCEPT ![p].paso = "entregar"]
     \/ eventos' = eventos /\ peticion' = SinEvento(p)
     \/ /\ pension # Nulo
        /\ eventos' = Append(eventos, EventoDe(p)) /\ peticion' = SinEvento(p)
  /\ UNCHANGED <<pension, fichas, envios>>

Entregar(p) ==
  /\ EnPasoSim(p, "entregar")
  /\ fichas' = fichas \cup {[usuario |-> p, codigo |-> EventoDe(p).codigo,
                             opciones |-> Opciones(peticion[p].form)]}
  /\ peticion' = [peticion EXCEPT ![p].paso = "respondida"]
  /\ UNCHANGED <<pension, eventos, envios>>

(* The process dies, or the user goes away.                                 *)
CaidaSim(p) ==
  /\ peticion[p].paso \notin {"ocioso", "respondida"}
  /\ peticion' = [peticion EXCEPT ![p] = Ocioso]
  /\ UNCHANGED <<pension, eventos, fichas, envios>>

(* The CRM gives the lead to another, or deletes it: the foreign key of the *)
(* audit does not let it go once there is an event.                         *)
Reasignar ==
  /\ pension # Nulo
  /\ \E p \in Procesos : p # pension.de /\ pension' = [pension EXCEPT !.de = p]
  /\ UNCHANGED <<peticion, eventos, fichas, envios>>

BorrarLead ==
  /\ pension # Nulo /\ eventos = << >>
  /\ pension' = Nulo
  /\ UNCHANGED <<peticion, eventos, fichas, envios>>

InitSim ==
  /\ pension \in [causante : Causantes, de : Procesos]
  /\ peticion = [p \in Procesos |-> Ocioso]
  /\ eventos = << >> /\ fichas = {} /\ envios = [p \in Procesos |-> 0]

NextSim ==
  \/ \E p \in Procesos :
       \/ Leer(p) \/ Rechazar(p) \/ Simular(p) \/ GenerarPdf(p) \/ Registrar(p) \/ Entregar(p)
       \/ CaidaSim(p)
  \/ Reasignar \/ BorrarLead

SpecSim == InitSim /\ [][NextSim]_varsSim

-----------------------------------------------------------------------------
(* No study leaves without its evidence, whatever fails: a PDF that was     *)
(* delivered has an event of the same user and code, the inputs that the    *)
(* event keeps give that code again, and a lead with events is not deleted. *)
EvidenciaSuficiente ==
  /\ \A x \in fichas :
       \E i \in DOMAIN eventos :
         /\ eventos[i].actor = x.usuario /\ eventos[i].codigo = x.codigo
         /\ "rvd" \in x.opciones <=> eventos[i].escenario = "renta_temporal_rvd"
  /\ \A i \in DOMAIN eventos : Codigo(eventos[i].detalle) = eventos[i].codigo
  /\ eventos # << >> => pension # Nulo

Resueltas == {p \in Procesos : peticion[p].form # Nulo}

(* The months in which the right of somebody changes, and their neighbours. *)
Meses(f) ==
  LET cambios == {288 - edad_en_meses(h.nac) : h \in {Hijos(f)[i] : i \in DOMAIN Hijos(f)}}
                 \cup {0, f.garantia, f.aumento}
  IN {m \in UNION {{c - 1, c, c + 1} : c \in cambios} : m >= 0}

SinUltimo(hijos) == SubSeq(hijos, 1, Len(hijos) - 1)

(* How the engine shares out: with certain lives, what the survivors get    *)
(* never grows as months go by, and one beneficiary more never lowers it.   *)
(* But past a guarantee as long as the table the children get nothing of    *)
(* their own and yet lower the share of the spouse, until they lose the     *)
(* right.                                                                   *)
RepartoCoherente(f, causante) ==
  LET c == Conyuge(f)
      hs == Hijos(f)
      sob(con, hijos, m) == Sobrevivencia(causante, con, hijos, f.garantia, m) IN
  \A m \in Meses(f) :
    /\ ~GarantiaLarga(f.garantia, causante) \/ m < f.garantia =>
         /\ sob(c, hs, m + 1) <= sob(c, hs, m)
         /\ sob(c, hs, m) >= sob(Nulo, hs, m)
         /\ hs # << >> => sob(c, hs, m) >= sob(c, SinUltimo(hs), m)
    /\ Pago(f, causante, TRUE, m) >= 100 * UNIDAD

(* The rescue that the PDF prints is what the guaranteed months pay, as     *)
(* long as the increase ends with the guarantee or before.                  *)
RescateDeLaGarantia(f) ==
  f.diferidos = 0 /\ f.aumento <= f.garantia =>
    LET meses == 0..f.garantia - 1 IN
    Total([v \in {Base(f, m) : m \in meses} |-> v * Cardinality({m \in meses : Base(f, m) = v})])
      = IF "II" \in Opciones(f) THEN RescateOpcionII(f) ELSE RescateOpcionI(f)

Balances ==
  [adef : {3, 7}, qins : {0, 5}, d : {1, 4}, kan : {1, 9}, saldo : {200}]

(* What the bisection returns balances the account: the premium, the        *)
(* temporary annuity and the commission fit in the balance, and with one    *)
(* more they would not.                                                     *)
DiferidaCuadra ==
  \A x \in Balances :
    LET p == Biseccion(x)
        gasto(q) == (Prima(x, q) + x.d * q) * x.saldo + Comision(x, q) IN
    gasto(p) <= x.saldo * x.saldo /\ gasto(p + 1) > x.saldo * x.saldo

(* What a user is shown of a simulation is right: the table has the people  *)
(* simulated with ages that the checks know, a deferred annuity has nobody  *)
(* else, the pension is shared coherently and the amounts of the PDF agree  *)
(* with the payments of the engine.                                         *)
ResultadoCoherente ==
  \A p \in Resueltas :
    LET f == peticion[p].form
        c == peticion[p].lead
        filas == FamiliaMostrada(f, c) IN
    /\ Len(filas) = 1 + Len(Hijos(f)) + (IF Conyuge(f) = Nulo THEN 0 ELSE 1)
    /\ \A i \in DOMAIN filas : filas[i].edad # Nulo /\ filas[i].edad \in 0..100
    /\ Escenario(f) = "renta_temporal_rvd" => Len(filas) = 1 /\ RescateOpcionI(f) = 0
    /\ RepartoCoherente(f, c) /\ RescateDeLaGarantia(f)
    /\ f.diferidos > 0 => DiferidaCuadra

(* A user is shown the right result, and what was shown can be proved later. *)
SimulacionFiel == EvidenciaSuficiente /\ ResultadoCoherente
=============================================================================
