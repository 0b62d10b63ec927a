------------------------------ MODULE PuertaApi ------------------------------
(***************************************************************************)
(* The entrance of the public API: POST /api/v1/leads as threads of one    *)
(* process run it, through the rate limiter of one client and the pool of  *)
(* connections.  What the transaction does is LeadIntake's business; here  *)
(* it commits, is refused, fails, or loses the answer of its commit.       *)
(*                                                                         *)
(* The limiter takes no lock: between two of its statements other threads  *)
(* run.  The pool of psycopg is external: it opens with all its            *)
(* connections, gives one to a thread at a time, and replaces a broken one.*)
(***************************************************************************)
EXTENDS Naturals, Sequences, FiniteSets

CONSTANTS
  Hilos,          \* threads that serve requests
  Tomas,          \* connections of the pool: pool_max_size
  max_requests, window_seconds,
  MaxReloj,       \* bound: the clock
  MaxEntradas,    \* bound: requests
  Nadie

(* What Settings validates; no thread and no connection is nobody.          *)
ASSUME PuertaAssumption ==
  /\ {max_requests, window_seconds} \subseteq Nat \ {0}
  /\ {MaxReloj, MaxEntradas} \subseteq Nat
  /\ Nadie \notin Hilos \cup Tomas

VARIABLES
  reloj,      \* time.monotonic()
  intentos,   \* attempts of the client
  piscina,    \* _connection_pool: open or not, who holds _pool_lock, its idle connections
  hilo,       \* the request each thread serves
  libro       \* history: requests let in, overlaps, requests begun

varsPuerta == <<reloj, intentos, piscina, hilo, libro>>

Quieto == [paso |-> "libre", ahora |-> 0, trampa |-> FALSE, etapa |-> "catalogo",
           toma |-> Nadie, estado |-> 0, guardo |-> FALSE]

En(h, paso) == hilo[h].paso = paso

Pasa(h, paso) == hilo' = [hilo EXCEPT ![h].paso = paso]

Responde(h, estado) == hilo' = [hilo EXCEPT ![h] = [Quieto EXCEPT !.estado = estado]]

EnLimite == {h \in Hilos : hilo[h].paso \in {"podar", "sacar", "contar", "anotar"}}

-----------------------------------------------------------------------------
(***************************************************************************)
(* create_lead until the limiter: the body is JSON and is said to be.      *)
(***************************************************************************)
Llegar(h) ==
  /\ En(h, "libre") /\ libro.entradas < MaxEntradas
  /\ \/ Responde(h, 415) /\ libro' = [libro EXCEPT !.entradas = @ + 1]
     \/ /\ hilo' = [hilo EXCEPT ![h] = [Quieto EXCEPT !.paso = "podar", !.ahora = reloj]]
        /\ libro' = [libro EXCEPT !.entradas = @ + 1, !.cruce = @ \/ EnLimite # {}]
  /\ UNCHANGED <<reloj, intentos, piscina>>

(***************************************************************************)
(* InMemoryRateLimiter.allow.                                              *)
(***************************************************************************)
(* Faulty variant: an attempt expires one tick late.                        *)
Vencido_Tarde(t, ahora) == t + window_seconds < ahora

Vencido(t, ahora) == t + window_seconds <= ahora

Podar(h) ==
  /\ En(h, "podar")
  /\ Pasa(h, IF intentos # << >> /\ Vencido(Head(intentos), hilo[h].ahora)
             THEN "sacar" ELSE "contar")
  /\ UNCHANGED <<reloj, intentos, piscina, libro>>

(* popleft takes what is first now, and fails if nothing is.                *)
Sacar(h) ==
  /\ En(h, "sacar")
  /\ IF intentos = << >> THEN Responde(h, 500) /\ UNCHANGED intentos
     ELSE Pasa(h, "podar") /\ intentos' = Tail(intentos)
  /\ UNCHANGED <<reloj, piscina, libro>>

Contar(h) ==
  /\ En(h, "contar")
  /\ IF Len(intentos) >= max_requests
     THEN /\ Responde(h, 429)
          /\ libro' = [libro EXCEPT !.negadas = @ \cup {hilo[h].ahora}]
     ELSE Pasa(h, "anotar") /\ UNCHANGED libro
  /\ UNCHANGED <<reloj, intentos, piscina>>

Anotar(h) ==
  /\ En(h, "anotar")
  /\ intentos' = Append(intentos, hilo[h].ahora)
  /\ libro' = [libro EXCEPT !.admitidas = Append(@, hilo[h].ahora)]
  /\ hilo' = [hilo EXCEPT ![h].paso = "dentro", ![h].ahora = 0]
  /\ UNCHANGED <<reloj, piscina>>

-----------------------------------------------------------------------------
(***************************************************************************)
(* The rest of create_lead: the key, the body, the honeypot and the secret *)
(* are looked at after the attempt was counted.                            *)
(***************************************************************************)
Mirar(h) ==
  /\ En(h, "dentro")
  /\ \/ Pasa(h, "pool")
     \/ \E estado \in {400, 422, 503} : Responde(h, estado)
     \/ hilo' = [hilo EXCEPT ![h] = [Quieto EXCEPT !.estado = 201, !.trampa = TRUE]]
  /\ UNCHANGED <<reloj, intentos, piscina, libro>>

(* initialize_pool: one thread builds the pool, the others wait for the     *)
(* lock and then find it.                                                   *)
PedirPool(h) ==
  /\ En(h, "pool") /\ piscina.candado = Nadie
  /\ IF piscina.abierta THEN Pasa(h, "obtener") /\ UNCHANGED piscina
     ELSE Pasa(h, "construir") /\ piscina' = [piscina EXCEPT !.candado = h]
  /\ UNCHANGED <<reloj, intentos, libro>>

(* _build_pool opens the pool, or times out and leaves none.                *)
Construir(h) ==
  /\ En(h, "construir")
  /\ \/ /\ piscina' = [piscina EXCEPT !.abierta = TRUE, !.candado = Nadie, !.libres = Tomas]
        /\ Pasa(h, "obtener")
     \/ piscina' = [piscina EXCEPT !.candado = Nadie] /\ Responde(h, 500)
  /\ UNCHANGED <<reloj, intentos, libro>>

(* getconn gives an idle connection, or waits until PoolTimeout.            *)
Obtener(h) ==
  /\ En(h, "obtener")
  /\ \/ \E c \in piscina.libres :
          /\ piscina' = [piscina EXCEPT !.libres = @ \ {c}]
          /\ hilo' = [hilo EXCEPT ![h].toma = c, ![h].paso = "usar"]
     \/ piscina.libres = {} /\ Responde(h, 500) /\ UNCHANGED piscina
  /\ UNCHANGED <<reloj, intentos, libro>>

(* What the service does with the connection.  First it looks the catalogs  *)
(* up: a wrong value is a ValueError, which the service keeps as such.      *)
Sigue(h, etapa, estado, guardo) ==
  hilo' = [hilo EXCEPT ![h].paso = "devolver", ![h].etapa = etapa,
                       ![h].estado = estado, ![h].guardo = guardo]

UsarCatalogo(h) ==
  /\ En(h, "usar") /\ hilo[h].etapa = "catalogo"
  /\ \/ Sigue(h, "alta", 0, FALSE) \/ Sigue(h, "fin", 422, FALSE) \/ Sigue(h, "fin", 500, FALSE)
  /\ UNCHANGED <<reloj, intentos, piscina, libro>>

(* create_solicitud_idempotent; the exception of a commit whose answer is   *)
(* lost is that of a commit that never was.                                 *)
UsarAlta(h) ==
  /\ En(h, "usar") /\ hilo[h].etapa = "alta"
  /\ \/ Sigue(h, "fin", 201, TRUE)
     \/ Sigue(h, "fin", 409, FALSE)
     \/ Sigue(h, "fin", 500, FALSE)
     \/ Sigue(h, "fin", 500, TRUE)
  /\ UNCHANGED <<reloj, intentos, piscina, libro>>

(* Faulty variant: a connection that failed is forgotten.                   *)
Devueltas_SinFallidas(h) ==
  IF hilo[h].estado = 500 THEN piscina.libres ELSE piscina.libres \cup {hilo[h].toma}

Devueltas(h) == piscina.libres \cup {hilo[h].toma}

(* The end of get_db_connection: rolled back, closed if that fails, and in  *)
(* any case returned: the pool opens another in the place of a closed one.  *)
Devolver(h) ==
  /\ En(h, "devolver")
  /\ piscina' = [piscina EXCEPT !.libres = Devueltas(h)]
  /\ hilo' = [hilo EXCEPT ![h].toma = Nadie, ![h].etapa = IF @ = "alta" THEN @ ELSE "catalogo",
                          ![h].paso = IF hilo[h].etapa = "alta" THEN "pool" ELSE "libre"]
  /\ UNCHANGED <<reloj, intentos, libro>>

Tictac ==
  /\ reloj < MaxReloj /\ reloj' = reloj + 1
  /\ UNCHANGED <<intentos, piscina, hilo, libro>>

InitPuerta ==
  /\ reloj = 0 /\ intentos = << >>
  /\ piscina = [abierta |-> FALSE, candado |-> Nadie, libres |-> {}]
  /\ hilo = [h \in Hilos |-> Quieto]
  /\ libro = [entradas |-> 0, admitidas |-> << >>, negadas |-> {}, cruce |-> FALSE]

NextPuerta ==
  \/ \E h \in Hilos :
       \/ Llegar(h) \/ Podar(h) \/ Sacar(h) \/ Contar(h) \/ Anotar(h) \/ Mirar(h)
       \/ PedirPool(h) \/ Construir(h) \/ Obtener(h)
       \/ UsarCatalogo(h) \/ UsarAlta(h) \/ Devolver(h)
  \/ Tictac

SpecPuerta == InitPuerta /\ [][NextPuerta]_varsPuerta

-----------------------------------------------------------------------------
(* What the client is told is true: a lead was kept behind a 201 that is    *)
(* not the honeypot's, and nothing behind a 4xx; only a 500 leaves it open. *)
RespuestaVeraz ==
  \A h \in Hilos :
    En(h, "libre") /\ hilo[h].estado # 0 =>
      /\ hilo[h].estado = 201 => (hilo[h].guardo <=> ~hilo[h].trampa)
      /\ hilo[h].guardo => hilo[h].estado \in {201, 500}

(* No connection is lost and none is shared, whatever fails: one that is    *)
(* not idle is held by one thread that is using it.                         *)
SinFugas ==
  /\ piscina.abierta =>
       \A c \in Tomas :
         c \notin piscina.libres <=> \E h \in Hilos : hilo[h].toma = c
  /\ \A h, k \in Hilos : hilo[h].toma # Nadie /\ h # k => hilo[h].toma # hilo[k].toma
  /\ \A h \in Hilos : hilo[h].toma # Nadie <=> hilo[h].paso \in {"usar", "devolver"}

EnVentana(t) ==
  {i \in DOMAIN libro.admitidas : libro.admitidas[i] <= t /\ t < libro.admitidas[i] + window_seconds}

(* Requests that do not meet in the limiter are held to max_requests in any *)
(* window, and one is refused only when the window is full.                 *)
LimiteJusto ==
  ~libro.cruce =>
    /\ \A t \in 0..reloj : Cardinality(EnVentana(t)) <= max_requests
    /\ \A t \in libro.negadas : Cardinality(EnVentana(t)) = max_requests

(* The entrance keeps its promises to clients and to the database. *)
PuertaSegura == RespuestaVeraz /\ SinFugas /\ LimiteJusto
=============================================================================
