-------------------------- MODULE TableroEjecutivo --------------------------
(***************************************************************************)
(* The readers of the CRM: the executive dashboard, the board of leads     *)
(* (bandeja) its alerts link to, and the XLSX export, over a ledger that   *)
(* keeps changing under them.  The writers are the operations of CrmLedger *)
(* plus the ones only a reader notices: a lead that arrives, a note, a     *)
(* day that passes.                                                        *)
(*                                                                         *)
(* A day is a number; ages and staleness are differences of days.  AFP and *)
(* fuente are filters and charts of the same form as origen, which stands  *)
(* for the three of them.  Readers do not write what others read, so one   *)
(* of each is enough, one at a time.                                       *)
(***************************************************************************)
EXTENDS CrmLedger, FiniteSetsExt

CONSTANTS
  Origenes,       \* values of leads.origen_lead
  Dias,           \* days the clock takes
  Cutover,        \* lead_state_history_cutover, or Nada
  Historias,      \* what may have happened to a lead before the readers come
  Hoy,            \* the day they come
  Filtros,        \* filters a Socio submits to /dashboard
  TamPagina,      \* page_size of the board (10)
  EXPORT_MAX_ROWS,
  MaxEscrituras,  \* bound on what happens while they read
  MaxFallos       \* bound on the queries that fail in a render

ASSUME TableroAssumption ==
  /\ Dias \subseteq Nat
  /\ Hoy \in Dias
  /\ Cutover \in Dias \cup {Nada}
  /\ TamPagina \in Nat \ {0}
  /\ EXPORT_MAX_ROWS \in Nat
  /\ {MaxEscrituras, MaxFallos} \subseteq Nat
  /\ IsFiniteSet(Asesores)
  /\ \A S \in SUBSET Leads : S # Nada
  /\ Nada \notin [dia : Dias, origen : Origenes]

VARIABLES
  hoy,         \* now(), in days
  alta,        \* per lead: day of fecha_ingreso and origen, or Nada
  altas,       \* the leads by created_at
  dias,        \* per lead: days of its assignments, its state changes, its notes
  escrituras,  \* how many times the data or the day changed
  tablero,     \* the render of /dashboard
  bandeja,     \* a walk over the pages of /leads
  exporta,     \* a request of /leads/export.xlsx
  auditoria    \* the exportacion_xlsx events

datos == <<ledger, hoy, alta, altas, dias, escrituras>>
vars == <<datos, tablero, bandeja, exporta, auditoria>>

(* What one statement reads. *)
Datos ==
  [hoy |-> hoy, alta |-> alta, altas |-> altas, dias |-> dias,
   estado |-> estado, asig |-> asig, hist |-> histEstado]

-----------------------------------------------------------------------------
(***************************************************************************)
(* Populations: the shared predicates of lead_activity_sql.py and the      *)
(* dimension filters.                                                      *)
(***************************************************************************)
CARTERA_INACTIVA_ESTADOS ==
  {"cerrado", "perdido", "no_interesado", "datos_erroneos", "no_contactado"}

Umbral == 5

Ingresados(d) == {l \in Leads : d.alta[l] # Nada}

Activo(d, l) == d.estado[l] \notin CARTERA_INACTIVA_ESTADOS

SinAsignar(d, l) == d.asig[l] = {}

UltimoMovimiento(d, l) ==
  Max({d.alta[l].dia} \cup d.dias[l].asig \cup d.dias[l].cambio \cup d.dias[l].nota)

(* Faulty: a note is not a movement. *)
EstancadoSinNotas(d, l) ==
  Max({d.alta[l].dia} \cup d.dias[l].asig \cup d.dias[l].cambio) + Umbral <= d.hoy

Estancado(d, l) == UltimoMovimiento(d, l) + Umbral <= d.hoy

(* A filter: estado, asesor and origen, or Nada; the period is [desde,      *)
(* hasta], both Nada when the form leaves it empty.                         *)
Dimensiones(d, f, l) ==
  /\ f.estado \in {Nada, d.estado[l]}
  /\ f.asesor # Nada => f.asesor \in d.asig[l]
  /\ f.origen \in {Nada, d.alta[l].origen}

EnPeriodo(d, f, l) ==
  /\ f.desde # Nada => f.desde <= d.alta[l].dia
  /\ f.hasta # Nada => d.alta[l].dia <= f.hasta

PeriodoActivo(f) == f.desde # Nada \/ f.hasta # Nada

Poblacion(d, f) == {l \in Ingresados(d) : Dimensiones(d, f, l)}

Periodo(d, f) ==
  IF PeriodoActivo(f) THEN {l \in Poblacion(d, f) : EnPeriodo(d, f, l)} ELSE {}

(* active_assignment: one active assignment per lead, or none.              *)
AsesorActivo(d, l) == IF d.asig[l] = {} THEN Nada ELSE CHOOSE a \in d.asig[l] : TRUE

Tramo(n) ==
  IF n <= 2 THEN "0-2" ELSE IF n <= 7 THEN "3-7" ELSE IF n <= 15 THEN "8-15"
  ELSE IF n <= 30 THEN "16-30" ELSE "+30"

Antiguedad(d, l) == Tramo(d.hoy - d.alta[l].dia)

(* The days of first management: a note or a general change of state, never *)
(* the assignment, of a lead whose history is complete.                     *)
Gestiones(d, l) ==
  IF Cutover = Nada \/ d.alta[l].dia < Cutover THEN {} ELSE d.dias[l].cambio \cup d.dias[l].nota

(* v_historial_estado_lead: the transitions of a lead. *)
Transiciones(d, l) ==
  {<<d.hist[l][i].de, d.hist[l][i].a>> :
     i \in {j \in 1 .. Len(d.hist[l]) : d.hist[l][j].accion = "cambio_estado_lead"}}

-----------------------------------------------------------------------------
(***************************************************************************)
(* The aggregates.  GROUP BY returns a row only for the groups there are.  *)
(***************************************************************************)
Agrupar(S, Clave(_), Fila(_)) ==
  [k \in {Clave(l) : l \in S} |-> Fila({l \in S : Clave(l) = k})]

Contar(S, Clave(_)) == Agrupar(S, Clave, Cardinality)

Estancados(d, S) == {l \in S : Estancado(d, l)}

Asignados(d, S) == Cardinality({l \in S : d.dias[l].asig # {}})

Gestionados(d, S) == Cardinality({l \in S : Gestiones(d, l) # {}})

(* get_metricas_operacionales_por_asesor and get_cartera_por_asesor, merged *)
(* by _build_asesores.                                                      *)
FilaAsesor(d, S) ==
  [total |-> Cardinality(S),
   activa |-> Cardinality({l \in S : Activo(d, l)}),
   estancados |-> Cardinality(Estancados(d, S)),
   asignacion |-> Asignados(d, S),
   gestion |-> Gestionados(d, S)]

Pasos(d, S) == UNION {{<<l, t>> : t \in Transiciones(d, l)} : l \in S}

(* get_funnel: the leads of the period since the cutover, the transitions   *)
(* they made and how many left each origin.                                 *)
Funnel(d, f) ==
  LET S == Periodo(d, f)
      post == {l \in S : Cutover # Nada /\ Cutover <= d.alta[l].dia}
      pasos == Pasos(d, post) IN
  [excluidos |-> Cardinality(IF Cutover = Nada THEN {} ELSE S \ post),
   denominador |-> Cardinality(post),
   pasos |-> Contar(pasos, LAMBDA p : p[2]),
   bases |-> Contar({<<p[1], p[2][1]>> : p \in pasos}, LAMBDA p : p[2])]

Disponible(f, x) ==
  /\ Cutover # Nada /\ PeriodoActivo(f)
  /\ x.excluidos = 0 /\ x.denominador > 0 /\ DOMAIN x.pasos # {}

(* The producers of _build_snapshot and _build_period, in their order. *)
Productores ==
  <<"kpis", "estancados", "estado", "antiguedad", "estancadosAntiguedad", "asesores",
    "matriz", "categorias", "ingresados", "evolucion", "funnel", "tiempos">>

SeccionDe(p) ==
  CASE p \in {"kpis", "estancados"} -> "resumen"
    [] p \in {"antiguedad", "estancadosAntiguedad"} -> "antiguedad"
    [] p \in {"asesores", "matriz"} -> "asesores"
    [] p \in {"ingresados", "evolucion"} -> "evolucion"
    [] OTHER -> p

get_kpi_snapshot(d, S) ==
  [total |-> Cardinality(S),
   activa |-> Cardinality({l \in S : Activo(d, l)}),
   sinAsignar |-> Cardinality({l \in S : SinAsignar(d, l)})]

get_antiguedad(d, S) ==
  Contar({l \in S : Activo(d, l)}, LAMBDA l : Antiguedad(d, l))

get_estancados_por_antiguedad(d, S) == Contar(Estancados(d, S), LAMBDA l : Antiguedad(d, l))

get_casos_por_estado(d, S) == Contar(S, LAMBDA l : d.estado[l])

get_casos_por_estado_y_asesor(d, S) ==
  Contar(S, LAMBDA l : <<AsesorActivo(d, l), d.estado[l]>>)

get_distribucion_origen(d, S) == Contar(S, LAMBDA l : d.alta[l].origen)

get_evolucion(d, f) == Contar(Periodo(d, f), LAMBDA l : d.alta[l].dia)

Producir(p, d, f) ==
  LET S == Poblacion(d, f) IN
  CASE p = "kpis" -> get_kpi_snapshot(d, S)
    [] p = "estancados" -> Cardinality(Estancados(d, S))
    [] p = "estado" -> get_casos_por_estado(d, S)
    [] p = "antiguedad" -> get_antiguedad(d, S)
    [] p = "estancadosAntiguedad" -> get_estancados_por_antiguedad(d, S)
    [] p = "asesores" ->
         Agrupar(S, LAMBDA l : AsesorActivo(d, l), LAMBDA T : FilaAsesor(d, T))
    [] p = "matriz" -> get_casos_por_estado_y_asesor(d, S)
    [] p = "categorias" -> get_distribucion_origen(d, S)
    [] p = "ingresados" -> Cardinality(Periodo(d, f))
    [] p = "evolucion" -> get_evolucion(d, f)
    [] p = "funnel" -> Funnel(d, f)
    [] p = "tiempos" -> [asignacion |-> Asignados(d, S), gestion |-> Gestionados(d, S)]

(* section_failed: t.fallos are the producers that failed.                  *)
SeccionFallida(t, s) == \E p \in t.fallos : SeccionDe(p) = s

Valor(t, p) == t.v[CHOOSE i \in DOMAIN Productores : Productores[i] = p]

(* The fallback of _section. *)
Vacio(p) ==
  CASE p = "kpis" -> [total |-> 0, activa |-> 0, sinAsignar |-> 0]
    [] p \in {"estancados", "ingresados"} -> 0
    [] p = "funnel" -> [excluidos |-> 0, denominador |-> 0, pasos |-> <<>>, bases |-> <<>>]
    [] p = "tiempos" -> [asignacion |-> 0, gestion |-> 0]
    [] OTHER -> <<>>

-----------------------------------------------------------------------------
(***************************************************************************)
(* The board: _build_crm_query_filters.  The portfolio of a Runner or a    *)
(* Coordinador replaces the asesor filter; alerta is the flag of the link. *)
(***************************************************************************)
Alertas == {"sin_asignar", "estancados"}

(* Faulty: the asesor asked for in the URL wins over the portfolio.         *)
FiltradosSinCartera(d, u, b) ==
  {l \in Poblacion(d, b) :
     /\ b.alerta = "sin_asignar" => SinAsignar(d, l)
     /\ b.alerta = "estancados" => Estancado(d, l)}

Filtrados(d, u, b) ==
  {l \in Poblacion(d, IF TieneCartera(Rol[u]) THEN [b EXCEPT !.asesor = Ficha[u]] ELSE b) :
     /\ TieneCartera(Rol[u]) => Ficha[u] # Nada
     /\ b.alerta = "sin_asignar" => SinAsignar(d, l)
     /\ b.alerta = "estancados" => Estancado(d, l)}

(* How many of S there are from the i-th lead on, the last ones to arrive    *)
(* first: its place in ORDER BY created_at DESC, id DESC.                   *)
Puesto(filas, S, i) == Cardinality({j \in i .. Len(filas) : filas[j] \in S})

EnPuestos(filas, S, p, q) ==
  {filas[i] : i \in {j \in 1 .. Len(filas) : filas[j] \in S /\ Puesto(filas, S, j) \in p + 1 .. q}}

(* Faulty variant: the page is skipped that comes first.                    *)
PaginaDesplazada(d, u, b, k) ==
  EnPuestos(d.altas, Filtrados(d, u, b), k * TamPagina, (k + 1) * TamPagina)

(* LIMIT page_size OFFSET (k - 1) * page_size                               *)
Pagina(d, u, b, k) ==
  EnPuestos(d.altas, Filtrados(d, u, b), (k - 1) * TamPagina, k * TamPagina)

UltimaPagina(w) == w.k * TamPagina >= w.total

(* Faulty: the filter by estado is lost on the way to the listing.          *)
EnlaceSinEstado(f, alerta) ==
  [estado |-> Nada, asesor |-> f.asesor, origen |-> f.origen, alerta |-> alerta]

(* _alert_hrefs: the period never reaches the listing. *)
Enlace(f, alerta) ==
  [estado |-> f.estado, asesor |-> f.asesor, origen |-> f.origen, alerta |-> alerta]

SinAlerta(f) == Enlace(f, Nada)

-----------------------------------------------------------------------------
TableroLibre == [fase |-> "libre"]
BandejaLibre == [fase |-> "libre"]
ExportaLibre == [fase |-> "libre"]

(* A lead before the readers come: who it is, what moved it and when.       *)
Historia == [alta : [dia : Dias, origen : Origenes] \cup {Nada},
             dias : [asig : SUBSET Dias, cambio : SUBSET Dias, nota : SUBSET Dias],
             estado : EstadosLead, asig : SUBSET Asesores, hist : Seq(EventoEstado)]

(* A lead has one active assignment at most.                                *)
ASSUME HistoriasAssumption ==
  /\ Historias \subseteq Historia
  /\ \A h \in Historias : \A x, y \in h.asig : x = y

TypeOKTablero ==
  /\ TypeOK
  /\ hoy \in Dias
  /\ alta \in [Leads -> [dia : Dias, origen : Origenes] \cup {Nada}]
  /\ Len(altas) = Cardinality(Ingresados(Datos))
  /\ {altas[i] : i \in 1 .. Len(altas)} = Ingresados(Datos)
  /\ dias \in [Leads -> [asig : SUBSET Dias, cambio : SUBSET Dias, nota : SUBSET Dias]]
  /\ escrituras \in 0 .. MaxEscrituras
  /\ tablero.fase \in {"libre", "leyendo", "listo", "dejado", "error"}
  /\ bandeja.fase \in {"libre", "contar", "listar", "pagina"}
  /\ exporta.fase \in {"libre", "contar", "leer", "auditar", "responder",
                       "entregada", "rechazada", "fallida"}

InitTablero ==
  \E h \in [Leads -> Historias], orden \in UNION {[1 .. n -> Leads] : n \in 0 .. Cardinality(Leads)} :
    /\ hoy = Hoy
    /\ alta = [l \in Leads |-> h[l].alta]
    /\ {orden[i] : i \in DOMAIN orden} = {l \in Leads : h[l].alta # Nada}
    /\ \A i, j \in DOMAIN orden :
         /\ orden[i] = orden[j] => i = j
         /\ i < j => h[orden[i]].alta.dia <= h[orden[j]].alta.dia
    /\ altas = orden
    /\ dias = [l \in Leads |-> h[l].dias]
    /\ estado = [l \in Leads |-> h[l].estado]
    /\ asig = [l \in Leads |-> h[l].asig]
    /\ cita = [c \in Citas |-> Nada]
    /\ histEstado = [l \in Leads |-> h[l].hist]
    /\ histCita = [c \in Citas |-> <<>>]
    /\ escrituras = 0
    /\ tablero = TableroLibre
    /\ bandeja = BandejaLibre
    /\ exporta = ExportaLibre
    /\ auditoria = <<>>

-----------------------------------------------------------------------------
(***************************************************************************)
(* What happens while somebody reads; what is written when no reader will  *)
(* see it is left out.  A walk over the board keeps account of the leads   *)
(* that were in its population all along, of how many left it and of how   *)
(* many came between the count of a page and its rows.                     *)
(***************************************************************************)
Escribir ==
  /\ escrituras < MaxEscrituras
  /\ tablero.fase # "error"
  /\ exporta.fase \in {"libre", "contar", "leer"}
  /\ escrituras' = escrituras + 1
  /\ bandeja' =
       IF bandeja.fase = "libre" \/ bandeja.siempre = Nada THEN bandeja
       ELSE LET antes == Filtrados(Datos, bandeja.u, bandeja.b)
                tras == Filtrados(Datos', bandeja.u, bandeja.b) IN
            [bandeja EXCEPT
               !.siempre = @ \cap tras,
               !.salidas = @ + Cardinality(antes \ tras),
               !.coladas = @ + (IF bandeja.fase = "listar" THEN Cardinality(tras \ antes) ELSE 0)]
  /\ UNCHANGED <<tablero, exporta, auditoria>>

(* create_solicitud *)
Ingresar(l, o) ==
  /\ alta[l] = Nada
  /\ alta' = [alta EXCEPT ![l] = [dia |-> hoy, origen |-> o]]
  /\ altas' = Append(altas, l)
  /\ UNCHANGED <<ledger, hoy, dias>>
  /\ Escribir

(* update_lead_status *)
Mover(u, l, e) ==
  /\ alta[l] # Nada /\ estado[l] # e
  /\ CambiarEstado(u, l, e)
  /\ dias' = [dias EXCEPT ![l].cambio = @ \cup {hoy}]
  /\ UNCHANGED <<hoy, alta, altas>>
  /\ Escribir

(* assign_lead *)
Repartir(u, l, a) ==
  /\ alta[l] # Nada
  /\ Asignar(u, l, a)
  /\ dias' = [dias EXCEPT ![l].asig = @ \cup {hoy}]
  /\ UNCHANGED <<hoy, alta, altas>>
  /\ Escribir

(* append_lead_comment *)
Anotar(u, l) ==
  /\ alta[l] # Nada
  /\ PuedeEscribir(Rol[u]) /\ EnCartera(u, asig[l])
  /\ hoy \notin dias[l].nota
  /\ dias' = [dias EXCEPT ![l].nota = @ \cup {hoy}]
  /\ UNCHANGED <<ledger, hoy, alta, altas>>
  /\ Escribir

PasarDia ==
  /\ \E d \in Dias : d > hoy /\ hoy' = d
  /\ UNCHANGED <<ledger, alta, altas, dias>>
  /\ Escribir

Escritura ==
  \/ \E l \in Leads, o \in Origenes : Ingresar(l, o)
  \/ \E u \in Usuarios, l \in Leads, e \in Manuales : Mover(u, l, e)
  \/ \E u \in Usuarios, l \in Leads, a \in Asesores : Repartir(u, l, a)
  \/ \E u \in Usuarios, l \in Leads : Anotar(u, l)
  \/ PasarDia

-----------------------------------------------------------------------------
(***************************************************************************)
(* The render of /dashboard: build_executive_dashboard.  foto is the       *)
(* REPEATABLE READ snapshot of dashboard_read_snapshot.                    *)
(***************************************************************************)
AbrirTablero(u, f) ==
  /\ tablero.fase = "libre" /\ bandeja.fase = "libre"
  /\ EsSuperuser(Rol[u])
  /\ tablero' = [fase |-> "leyendo", u |-> u, f |-> f, foto |-> Datos, version |-> escrituras,
                 v |-> <<>>, fallos |-> {}]
  /\ UNCHANGED <<datos, bandeja, exporta, auditoria>>

Turno == Productores[Len(tablero.v) + 1]

Guardar(x, fallos) ==
  tablero' = [tablero EXCEPT
                !.v = Append(@, x), !.fallos = fallos,
                !.fase = IF Len(tablero.v) + 1 = Len(Productores) THEN "listo" ELSE @]

(* Faulty: every query in a transaction of its own.                         *)
LeerSinFoto ==
  /\ tablero.fase = "leyendo"
  /\ Guardar(Producir(Turno, Datos, tablero.f), tablero.fallos)
  /\ UNCHANGED <<datos, bandeja, exporta, auditoria>>

(* One producer, run by _section: its queries in their savepoints.          *)
Leer ==
  /\ tablero.fase = "leyendo"
  /\ Guardar(Producir(Turno, tablero.foto, tablero.f), tablero.fallos)
  /\ UNCHANGED <<datos, bandeja, exporta, auditoria>>

(* A query fails and its savepoint is rolled back: the section is recorded  *)
(* as failed and its fallback stands for the result.                        *)
Fallar ==
  /\ tablero.fase = "leyendo"
  /\ Cardinality(tablero.fallos) < MaxFallos
  /\ Guardar(Vacio(Turno), tablero.fallos \cup {Turno})
  /\ UNCHANGED <<datos, bandeja, exporta, auditoria>>

(* The connection is lost: the savepoint cannot be rolled back either, the  *)
(* transaction cannot end and the route answers 503.                        *)
PerderConexion ==
  /\ tablero.fase = "leyendo"
  /\ tablero' = [fase |-> "error"]
  /\ UNCHANGED <<datos, bandeja, exporta, auditoria>>

-----------------------------------------------------------------------------
(***************************************************************************)
(* A walk over /leads.  Each page counts and then lists, two statements    *)
(* under READ COMMITTED; the page offers the next one from its own count.  *)
(***************************************************************************)
Recorrido(u, b) ==
  [fase |-> "contar", u |-> u, b |-> b, k |-> 1, total |-> 0, vistos |-> {},
   siempre |-> Nada, salidas |-> 0, coladas |-> 0]

(* The chip of an alert, which the template hides with the summary.  What   *)
(* remains of the render is the number that was clicked.                    *)
SeguirAlerta(alerta) ==
  /\ tablero.fase = "listo" /\ bandeja.fase = "libre"
  /\ ~SeccionFallida(tablero, "resumen")
  /\ bandeja' = Recorrido(tablero.u, Enlace(tablero.f, alerta))
  /\ tablero' = [fase |-> "dejado", version |-> tablero.version,
                 cuenta |-> IF alerta = "estancados" THEN Valor(tablero, "estancados")
                            ELSE Valor(tablero, "kpis").sinAsignar]
  /\ UNCHANGED <<datos, exporta, auditoria>>

AbrirBandeja(u, f) ==
  /\ tablero.fase = "libre" /\ bandeja.fase = "libre"
  /\ bandeja' = Recorrido(u, SinAlerta(f))
  /\ UNCHANGED <<datos, tablero, exporta, auditoria>>

ContarFilas ==
  LET S == Filtrados(Datos, bandeja.u, bandeja.b) IN
  /\ bandeja.fase = "contar"
  /\ bandeja' = [bandeja EXCEPT !.fase = "listar", !.total = Cardinality(S), !.coladas = 0,
                                !.siempre = IF bandeja.k = 1 THEN S ELSE @]
  /\ UNCHANGED <<datos, tablero, exporta, auditoria>>

ListarPagina ==
  /\ bandeja.fase = "listar"
  /\ bandeja' = [bandeja EXCEPT !.fase = "pagina",
                                !.vistos = @ \cup Pagina(Datos, bandeja.u, bandeja.b, bandeja.k)]
  /\ UNCHANGED <<datos, tablero, exporta, auditoria>>

SiguientePagina ==
  /\ bandeja.fase = "pagina" /\ exporta.fase = "libre"
  /\ ~UltimaPagina(bandeja)
  /\ bandeja' = [bandeja EXCEPT !.fase = "contar", !.k = @ + 1]
  /\ UNCHANGED <<datos, tablero, exporta, auditoria>>

-----------------------------------------------------------------------------
(***************************************************************************)
(* The export of what the board shows: export_leads_xlsx.  The count, the  *)
(* rows and the audit event are three transactions.                        *)
(***************************************************************************)
PedirExportacion ==
  /\ bandeja.fase = "pagina" /\ exporta.fase = "libre"
  /\ EsSuperuser(Rol[bandeja.u])
  /\ exporta' = [fase |-> "contar", version |-> escrituras, total |-> 0, filas |-> {}]
  /\ UNCHANGED <<datos, tablero, bandeja, auditoria>>

ContarExportacion ==
  LET n == Cardinality(Filtrados(Datos, bandeja.u, bandeja.b)) IN
  /\ exporta.fase = "contar"
  /\ exporta' = [exporta EXCEPT !.total = n, !.version = escrituras,
                                !.fase = IF n > EXPORT_MAX_ROWS THEN "rechazada" ELSE "leer"]
  /\ UNCHANGED <<datos, tablero, bandeja, auditoria>>

LeerExportacion ==
  /\ exporta.fase = "leer"
  /\ exporta' = [exporta EXCEPT !.fase = "auditar",
                                !.filas = Filtrados(Datos, bandeja.u, bandeja.b)]
  /\ UNCHANGED <<datos, tablero, bandeja, auditoria>>

(* Faulty: the number audited is the one of the count.                      *)
AuditarElConteo ==
  /\ exporta.fase = "auditar"
  /\ auditoria' = Append(auditoria, [por |-> bandeja.u, n |-> exporta.total])
  /\ exporta' = [exporta EXCEPT !.fase = "responder"]
  /\ UNCHANGED <<datos, tablero, bandeja>>

(* record_xlsx_export_event *)
AuditarExportacion ==
  /\ exporta.fase = "auditar"
  /\ auditoria' = Append(auditoria, [por |-> bandeja.u, n |-> Cardinality(exporta.filas)])
  /\ exporta' = [exporta EXCEPT !.fase = "responder"]
  /\ UNCHANGED <<datos, tablero, bandeja>>

Entregar ==
  /\ exporta.fase = "responder"
  /\ exporta' = [exporta EXCEPT !.fase = "entregada"]
  /\ UNCHANGED <<datos, tablero, bandeja, auditoria>>

(* A transaction fails, or the process stops, before the answer leaves.     *)
FallarExportacion ==
  /\ exporta.fase \in {"contar", "leer", "auditar", "responder"}
  /\ exporta' = [exporta EXCEPT !.fase = "fallida"]
  /\ UNCHANGED <<datos, tablero, bandeja, auditoria>>

Lectura ==
  \/ \E u \in Usuarios, f \in Filtros : AbrirTablero(u, f) \/ AbrirBandeja(u, f)
  \/ Leer \/ Fallar \/ PerderConexion
  \/ \E alerta \in Alertas : SeguirAlerta(alerta)
  \/ ContarFilas \/ ListarPagina \/ SiguientePagina
  \/ PedirExportacion \/ ContarExportacion \/ LeerExportacion
  \/ AuditarExportacion \/ Entregar \/ FallarExportacion

NextTablero == Escritura \/ Lectura

SpecTablero == InitTablero /\ [][NextTablero]_vars

-----------------------------------------------------------------------------
(***************************************************************************)
(* Properties.                                                             *)
(***************************************************************************)
(* The producers of P have run and their sections are shown. *)
Bien(t, P) ==
  \A p \in P : /\ \E i \in DOMAIN t.v : Productores[i] = p
               /\ ~SeccionFallida(t, SeccionDe(p))

(* The same, when the last of them has just run. *)
Recien(t, P) == t.v # <<>> /\ Productores[Len(t.v)] \in P /\ Bien(t, P)

Total(g) == MapThenSumSet(LAMBDA k : g[k], DOMAIN g)

Sumar(g, Campo(_)) == Total([k \in DOMAIN g |-> Campo(g[k])])

En(g, k) == IF k \in DOMAIN g THEN g[k] ELSE 0

(* "All observe the same database state and cannot mix two instants"        *)
(* (build_executive_dashboard): whatever is written during the render, the  *)
(* sections it shows agree with one another.  The states, the origins and   *)
(* the advisors add up to the total, the age ladder to the active           *)
(* portfolio, the matrix to its margins, the row of no advisor to the       *)
(* unassigned, the evolution and the coverage of the funnel to the leads of *)
(* the period, and no transition is made by more leads than left its        *)
(* origin, nor these by more than have a history.                           *)
TableroCoherente ==
  /\ TypeOKTablero
  /\ tablero.fase \in {"leyendo", "listo"} =>
       LET t == tablero
           V(p) == Valor(t, p) IN
       /\ Recien(t, {"kpis", "estado"}) => Total(V("estado")) = V("kpis").total
       /\ Recien(t, {"kpis", "categorias"}) => Total(V("categorias")) = V("kpis").total
       /\ Recien(t, {"kpis", "antiguedad"}) => Total(V("antiguedad")) = V("kpis").activa
       /\ Recien(t, {"estancados", "estancadosAntiguedad"}) =>
            Total(V("estancadosAntiguedad")) = V("estancados")
       /\ Recien(t, {"kpis", "estancados", "asesores"}) =>
            LET filas == V("asesores") IN
            /\ Sumar(filas, LAMBDA r : r.total) = V("kpis").total
            /\ Sumar(filas, LAMBDA r : r.activa) = V("kpis").activa
            /\ Sumar(filas, LAMBDA r : r.estancados) = V("estancados")
            /\ (IF Nada \in DOMAIN filas THEN filas[Nada].total ELSE 0) = V("kpis").sinAsignar
       /\ Recien(t, {"asesores", "matriz"}) => \A a \in DOMAIN V("asesores") :
            V("asesores")[a].total = Total([e \in EstadosLead |-> En(V("matriz"), <<a, e>>)])
       /\ Recien(t, {"estado", "matriz"}) => \A e \in DOMAIN V("estado") :
            V("estado")[e] =
              Total([a \in Asesores \cup {Nada} |-> En(V("matriz"), <<a, e>>)])
       /\ Recien(t, {"asesores", "tiempos"}) =>
            /\ Sumar(V("asesores"), LAMBDA r : r.asignacion) = V("tiempos").asignacion
            /\ Sumar(V("asesores"), LAMBDA r : r.gestion) = V("tiempos").gestion
       /\ Recien(t, {"ingresados", "evolucion"}) => Total(V("evolucion")) = V("ingresados")
       /\ Recien(t, {"ingresados", "funnel"}) /\ Disponible(t.f, V("funnel")) =>
            V("funnel").denominador = V("ingresados")
       /\ Recien(t, {"funnel"}) => \A p \in DOMAIN V("funnel").pasos :
            /\ V("funnel").pasos[p] <= En(V("funnel").bases, p[1])
            /\ En(V("funnel").bases, p[1]) <= V("funnel").denominador

(* "If the alert says 37 unassigned leads, the listing linked from that     *)
(* alert has to return the same 37 rows" (lead_activity_sql.py), and so     *)
(* does the export of that listing: while nothing is written, the number of *)
(* the alert, the total of the board, the rows of its pages and the rows of *)
(* the file are the same leads.                                             *)
MismaPoblacion ==
  /\ bandeja.fase \in {"listar", "pagina"} /\ bandeja.b.alerta # Nada
     /\ escrituras = tablero.version =>
       /\ bandeja.total = tablero.cuenta
       /\ bandeja.fase = "pagina" /\ UltimaPagina(bandeja) =>
            Cardinality(bandeja.vistos) = bandeja.total
       /\ exporta.fase \in {"auditar", "responder", "entregada"} =>
            /\ Cardinality(exporta.filas) = bandeja.total
            /\ bandeja.vistos \subseteq exporta.filas

(* Whoever walks the pages to the last one misses a lead that was on the    *)
(* list all along only because another one left the list meanwhile, or came *)
(* between the count of the last page and its rows: one for each.  And a    *)
(* user with portfolio sees no lead of another advisor, whatever is asked.  *)
RecorridoCompleto ==
  bandeja.fase = "pagina" =>
    /\ UltimaPagina(bandeja) =>
         Cardinality(bandeja.siempre \ bandeja.vistos) <= bandeja.salidas + bandeja.coladas
    /\ TieneCartera(Rol[bandeja.u]) => \A l \in bandeja.vistos : asig[l] = {Ficha[bandeja.u]}

(* AC-8 of the export: every file that leaves has exactly one audit event,  *)
(* by a Socio, with the rows it really carries; none leaves over the limit  *)
(* unless leads arrived between the count and the rows.                     *)
ExportacionAuditada ==
  /\ exporta.fase \in {"responder", "entregada"} =>
       auditoria = <<[por |-> bandeja.u, n |-> Cardinality(exporta.filas)]>>
  /\ exporta.fase \in {"contar", "leer", "auditar", "rechazada"} => auditoria = <<>>
  /\ \A i \in 1 .. Len(auditoria) : EsSuperuser(Rol[auditoria[i].por])
  /\ exporta.fase = "entregada" /\ Cardinality(exporta.filas) > EXPORT_MAX_ROWS =>
       escrituras > exporta.version
=============================================================================
