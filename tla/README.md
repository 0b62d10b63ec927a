# Verification of tpi-backend

TLA+ models, TLC runs and TLAPS proofs about *tpi-backend*, the back office of
Tu Pensión Inteligente: a FastAPI application over PostgreSQL and S3 that takes
leads from a public form, assigns them to advisors, follows their state, books
meetings, keeps attachments and simulates pensions; the AWS tools that deploy
it; and the agent harness under which it is developed. The modules keep the
(mostly Spanish) names of the source. Paths below are relative to the repository.

## 1. Inventory

| Component | State it keeps | Operations | What makes it correct |
|---|---|---|---|
| CRM state and assignment (`app/services/solicitud_service.py`, `app/repositories/solicitud_repository.py`) | `tpi.leads.estado_lead`, `tpi.asignaciones`, events in `tpi.auditoria` | `update_lead_status`, `assign_lead` | no lost update, one active assignment, the audit is a chain, users write in their own portfolio only, reserved states |
| Agenda (`app/services/agenda_service.py`, `app/repositories/agenda_repository.py`, `app/models/agenda.py`) | `tpi.citas`, its two constraints (migration 010), events | `agendar`, `reagendar`, `cancelar`, `marcar_realizada`, `marcar_no_asistio` | no overlap per responsable, one booked meeting per lead, closed meetings stay closed, hours of work, no deadlock between row locks |
| Week view (`app/web/agenda_presentation.py`) | none | `build_week_grid`, `_asignar_carriles` | every meeting shown once, at its hour, in lanes that do not collide |
| Lead intake (`app/api/routes.py`, `create_solicitud_idempotent`) | `tpi.personas`, `tpi.leads`, `tpi.api_idempotency` | `POST /api/v1/leads`, replay, expiry, `delete_test_lead` | one lead per key, coherent answers, at most one event, every call ends |
| Rate limiter and connection pool (`app/api/abuse.py`, `app/database/connection.py`) | attempts per client; connections | `allow`, `get_db_connection` | fair limit, no connection lost or shared, rollback on every error path |
| Attachments (`app/attachments/`, `append_lead_comment_with_attachments`, `delete_attachment`) | S3 objects, marks in the note, events | put, append, audit; view; delete, mark, audit; cleanup | object, mark and audit agree up to what was interrupted |
| Dashboard, bandeja, XLSX export (`app/repositories/executive_dashboard_repository.py`, `app/services/executive_dashboard_service.py`, `app/services/xlsx_export.py`) | export events | sections over one snapshot, alerts and links, pages, export | one instant, same population behind an alert and its link, audited export |
| Pension simulator (`app/simulador_pension/`, `app/services/simulador_service.py`) | simulation events | simulate, PDF | evidence of every study that leaves, rights of the beneficiaries |
| Harness workflow (`scripts/harness/`, `harness/workflow.yaml`) | `harness/state.json`, `transitions.jsonl`, task files | transitions with their guards, activate, accept, close, worktree | what is deployed was reviewed and approved; log, state and task files agree |
| Harness supervisor, orchestrator and gates | `run.lock`, sessions, drafts, backlog | worker turns, denials, gates, interview, `approve.py` | no turn after a denial, truthful turns, orders that are accepted |
| Promotion (`deployment/aws/promote_*.py`, `.github/workflows/deploy-dev-eb.yml`) | EB environment, versions, S3 keys | preflight, pipeline, promotion, rollback, postflight | nothing but the approved release runs; nobody's version is overwritten; green is true |
| Infrastructure of attachments (`deployment/aws/adjuntos_s3_infra.py`) | bucket, policy, roles, malware plan | apply, verify, rollback | the application reads only scanned files; a rollback loses no attachment it could see |
| Data of DEV (`scripts/dev_reset_leads.py`, `scripts/dev_usuarios.py`) | leads, bucket, secret, advisors | reset and seed, add and remove users | notes with files, all the seeds or none, no user lost |
| Login, validators and configuration, release scripts | – | constants, functions on strings, one-shot reads | not modelled (section 6) |

Interaction. Web handlers, threads of the public API and administration scripts
are independent callers of one database; they share nothing else (each
transaction takes its own pooled connection). The agenda writes the state of
the lead through `_update_lead_status_tx`, in its own transaction. Both read
portfolios and responsables in transactions of their own *before* the write
transaction. The intake publishes its event after the commit and outside the
transaction. The isolation level is READ COMMITTED, but for the dashboard, whose
sections read one REPEATABLE READ snapshot. S3, the database and the secret of
the users share no transaction. The harness is a set of commands over files that
nothing locks; two terminals, the human's and the agents', run them.

What is hard here: read-then-write across two transactions; row locks taken in
two tables; constraints that make a transaction wait for another; deadlock
aborts; replays that meet the first request at every point of its life; keys
that expire in between; a crash between commit and answer, between two stores or
between two files; AWS calls whose answer is lost; a human who types in one
window what another program proposed in a different state; hour arithmetic at
the ends of the day. `PROJECT.json`, "hazards", lists each with its line.

## 2. Modules

| Module | Models | State | Actions |
|---|---|---|---|
| `CrmRules` | vocabulary and rules: states, profiles, who may do what, state after each operation | – | – |
| `CrmData` | population, rows, portfolio and responsable rules | – | – |
| `CrmLedger` | **abstract**: the committed CRM data, an operation per step | `estado`, `asig`, `cita`, `histEstado`, `histCita` | `CambiarEstado`, `Asignar`, `Agendar`, `Reagendar`, `Cerrar` |
| `CrmTransactions` | **detailed**: concurrent calls, statement by statement | the ledger, `activo`, `pc`, `pet`, `vista`, `ant`, `leadLock`, `citaLock` | one per statement or read: `ResolverAlcance`, `ExigirCartera`, `ResolverResponsable`, `BloquearCita`, `BloquearLead`, `Escribir`, `VerificarRestricciones`, `Commit`; `Pedir`, `DetectarInterbloqueo`, `Caida`, `CambiarDisponibilidad` |
| `AgendaCalendar` | validators of hours and the week view over the accepted meetings | `ahora`, `citas` | `Agendar`, `Reagendar`, `Cerrar`, `Avanzar` |
| `IntakeData` | keys, fingerprints, people | – | – |
| `IntakeLedger` | **abstract**: a request per step | `personas`, `leads`, `registro`, `vigencia` | `Crear`, `Limpiar`, `Borrar`, `Vencer` |
| `LeadIntake` | **detailed**: concurrent calls of `create_solicitud_idempotent` | the above and the calls, answers, events | `Pedir`, `LimpiarFila`, `Reservar`, `Leer`, `Bloquear`, `BuscarPersona`, `InsertarPersona`, `Confirmar`, `Publicar`, `Caida`, ... |
| `PuertaApi` | the limiter of one client without a lock, and the pool, by threads | `reloj`, `intentos`, `piscina`, `hilo` | `Podar`, `Sacar`, `Contar`, `Anotar`; `Construir`, `Obtener`, `UsarCatalogo`, `UsarAlta`, `Devolver`, ... |
| `LeadAttachments` | three stores without a transaction between them | `lead`, `objeto`, `limpio`, `auditoria`, `pc`, `ll` | a step per S3 or database call of note, view, deletion and cleanup; `Escanear`, `Asignar` |
| `TableroEjecutivo` | dashboard, bandeja and export over the ledger while it changes | `CrmLedger`'s, days and origins, the three readers | the writers, `Leer` per producer, pages, the three transactions of the export |
| `Simulador` | a simulation from the form to the page or the PDF | the lead, requests, events, documents | `Leer`, `Rechazar`, `Simular`, `GenerarPdf`, `Registrar`, `Entregar`, `CaidaSim`, `Reasignar`, `BorrarLead` |
| `HarnessStates` | `workflow.yaml`: states, roles, the 39 transitions | – | – |
| `HarnessWorkflow` | the engine: commands that load, check, write, log and save | `est`, task files, `log`, `ambiente`, `pc`, `ll` | one per write: `Comando`, `Registrar`, `Guardar`, the four files of `close_task`, `Activar`, `Aceptar`, `CrearWorktree`, `Caida`, ... |
| `HarnessRunner` | supervisor and orchestrator around their workers | `est`, `candado`, `run`, `obrero` | `Arrancar`, the steps of a run (`Paso`), `Interrumpir`, `Morir`, the environment |
| `HarnessGates` | what the gates and the interview show and compose, and `approve.py` | state, backlog, drafts, orchestrator, windows | `Preparar`, `Responder`, `Proponer`, `Entrevistar`, `Teclear`, `LeerBorrador`, `LeerArchivos`, `Confirmar`, ... |
| `PromocionEB` | workflow, pipeline and both promoters, call by call | `entorno`, `versiones`, `claves`, `corrida`, `github` | `Aws`, `Promotor`, `Flujo` and their steps |
| `InfraAdjuntos` | `apply`, `verify`, `rollback`, call by call | `bucket`, `rolGD`, `permiso`, `plan`, `objetos`, `orden` | `Aplicar`, `Verificar`, `Revertir`, `Abortar`, `Mundo` |
| `DatosDev` | the two tools of DEV from two consoles | `lead`, `archivos`, `secreto`, `asesores`, `comando` | the steps of each command, the intake, notes with files, an edit of the secret |
| `MC*` | small instances for TLC; `MCPiezas` and `MCDespliegue` hold several families of initial states that share no state | | |
| `*_proofs` | theorems | | |

Correspondence, in the points a reader of the code will ask about.

*CRM and agenda.*

- A transaction is invisible until its commit. `CrmTransactions` keeps only
  committed rows in the tables; what a call has written and not committed is a
  function of its request (`Fila`) and is seen by the others only in the waits
  it causes (`Bloqueantes`). `Commit` applies all rows at once.
- READ COMMITTED: a `SELECT ... FOR UPDATE` waits and then reads the newest
  committed row (`BloquearCita`, `BloquearLead`); other reads are single steps.
- The exclusion constraint and the partial unique index of `tpi.citas` are
  checked against committed rows nobody is writing (fail) and against both
  versions of rows in flight (wait). Two reschedules that swap their hours wait
  for each other; `DetectarInterbloqueo` aborts either.
- Every error path (a failed read, a violated constraint, a lost connection, a
  deadlock) ends in `Abortar`, which gives back the locks: `get_db_connection`
  rolls back on any exception and on return to the pool.
- The agenda is closed by three methods of the same shape; they are one action
  with the operation as a parameter (`Cerrar`).

*Intake.* `Reservar` is `INSERT ... ON CONFLICT DO NOTHING`, which waits for an
uncommitted insert or delete of the key. `Leer` and `Bloquear` are the two moments
of `SELECT ... FOR UPDATE`: finding a row version and locking it. The `DELETE` of
expired keys visits the rows of its snapshot in any order, one per `LimpiarFila`.
`Vencer(k)` lets 24 hours pass for the record of `k`. `Caida` after `Confirmar` is
the crash that loses the event and the answer of a committed lead.

*Attachments.* The application is one uvicorn worker per instance. The handlers
that write (note, deletion, cleanup) are `async def` and do not await inside the
service, so one runs at a time on an event loop (`Lazos`); the view is a plain
`def` and runs in a thread (`Hilos`). The environment has one instance, but
during a promotion the candidate may share database and bucket: hence two loops.
A failed call may have had its effect. `Caida` forgets a request anywhere.

*Readers.* A dashboard takes its snapshot and then runs its twelve producers one
by one while the data move on; each section has its savepoint and its fallback,
and a lost connection ends the render in a 503. AFP and fuente are filters of the
same form as origen. Readers write nothing others read, so one of each is enough.
The export counts, reads and audits in three transactions.

*Harness.* A command loads `state.json` once and saves what it computed from it,
so whatever another terminal saved in between is lost: `hist.cruce` records that
a command was saved over something it had not read (accept waits for a human between
load and save); `hist.resuelta` that a human resolution
skipped a stage; `hist.cayo` that a command which writes task files died half way. The
actor of a transition is the role of the state it leaves. A file of evidence whose
own content its guard refuses changes nothing and is left out; the rest "is what
it says", and agents may say anything but about git and the environment.
`HarnessRunner` lets the workers, their orphans and the human do any declared
transition. In `HarnessGates` each read of a command is a step: the state, with the
hash of the draft; the draft again, whose text `define` saves without hashing it once
more; backlog, completed tasks and current task. What a command does after its
confirmation is one step (`HarnessWorkflow` has its writes, and the crashes between
them), and nothing is followed beyond a crossing. The history variable
`memoria.relevos` keeps the drafts that an interview put in the place of another while
a command stood between its two reads of it.
In it the commands of gates, acceptance and resolution may also be typed by
heart, `activate` does not look at "pending", `define` and `activate` write the
backlog they read, and the interview may finish when the state is no longer IDLE.

*Deployment.* The pipeline is QUEUED: one promoter at a time; an operator with the
console is not queued. `update-environment` is atomic; a deployment that goes
wrong leaves the old or the new version, unhealthy. In `InfraAdjuntos` one
command runs at a time, interrupted anywhere, while the application uploads,
GuardDuty scans and EB may recreate the environment (which loses the inline
policy); the settings that are always written together are one flag. In
`DatosDev` the guards on host, account and user are taken as passed, and
`asesores.nombre` is unique (`docs/database/02_PHYSICAL_SCHEMA.md:530`).

*Simulator and entrance.* Amounts that the properties do not compare are left
out: probabilities of survival are certain, shares are counted in 1/1200 of a
pension. The window of the limiter is pruned, measured and extended in separate
steps by threads.

Definitions commented as *Faulty* are wrong variants of the definition that
follows; no specification uses them. They exist to show that each property
can fail (`PROJECT.json`, "mutants").

## 3. Runs

| Run | Bounds | Shows |
|---|---|---|
| `ledger` | 3 users, 3 advisors, 2 leads, 2 meetings, 3 hours (two overlap, two touch), 6 audited events | all safety of the committed data: overlap, one booked meeting per lead, chains and histories, portfolio and profiles, irreversibility |
| `cartera` | 2 calls, 2 leads, 3 meetings, 11 requests of a Socio, a Coordinador (switched on and off) and a Runner, among them two reschedules that swap the hours of one Socio, 5 events | refinement of the ledger; fresh reads; only constraint checks take part in a deadlock; every call ends |
| `piezas` | week view: 3 meetings, 2 responsables, starts on Friday, Saturday and Monday, accepted and refused durations; simulator: 2 profiles, one sending, several families of beneficiaries, among them one past a long guarantee and one of five children; entrance: 2 threads, 1 connection, limit 2 in a window of 2, clock to 3, 3 requests; gates: 3 ids; with a deployment one draft and one window of every command, without one two drafts and two windows that define and activate | week view, simulations and their evidence, limiter and pool, gates |
| `tarde` | starts from 18:00 to 23:30 | **violation**, finding 1 |
| `intake` | 2 calls, each with two requests over 2 keys and 2 payloads of one person, 4 leads, each key expires once, one lead may be deleted | one lead per key and validity, answers, event, deadlocks, refinement; every call ends |
| `intake_borrado` | one key | **violation**, finding 2 |
| `adjuntos` | 1 lead, 2 attachments, 2 loops and a thread, a Socio and a Coordinador, a file that is accepted and one that is refused | marks, objects and audit |
| `harness` | 3 tasks (one deploys by the fast path and has human criteria, one does not deploy, one deploys outside the fast path), 2 heads and the commits they become, 2 sessions, 1 rework round, 1 artifact round, 1 build, 1 human decision | delivery, limits, agreement of files, log |
| `tablero` | 3 leads with four histories, 2 filters, pages of 2, export limit 2, 2 writes, 1 failure | one instant, alerts and links, pages, export |
| `supervisor` | an orchestrator after a supervisor that was killed and left its worker, 2 turns, 2 changes, 1 edit by hand, 2 deaths | denials, turns, termination |
| `supervisor_candado` | two runs started together | **violation**, finding 3 |
| `despliegue` | promotion: 2 executions, one update of an operator or one change of health (`MaxImprevistos`), 1 look at an execution not yet visible, 2 looks; bucket: 3 commands, 1 recreation, 1 attachment, 2 looks at the plan; data: 2 consoles, 3 commands, 2 seeds, 2 coordinators | promotion, bucket, data of DEV |

Every CONSTANT of a `.cfg` that is not in the table is a set of model values or a
rule of the repository. The limits that the code reads from its configuration are
made small: `VISIBILIDAD` is 6 looks in the code, `OBSERVACIONES` 90,
`PLAN_RETRIES` 6, `MaxArtefacto` 2 and `MaxRework` 3 in
`harness/policies.yaml`; the loops have the same exit at any limit.

Why the bounds are enough. The hazards of the CRM and the intake need two
interfering calls; a cycle of waits closes with the two reschedules of `cartera`.
The overlap cases of two hours are equal, partial and touching, all in
`MCHorarios`. Six events let a lead be assigned, booked, moved, closed and booked
again. `MaxEventos` only stops *new* requests, so calls in progress always finish.
One expiry is enough for a key to be cleaned and taken again while an older call
still looks at it. In `LeadIntake` a call starts only while lead ids are left for
every open call: a bound on leads, not a guard of the code; leads are
interchangeable, so the next free id is taken. Three commands over the bucket are
what it takes for a permission given before the policy to matter: an apply, a
rollback that dies after the policy, an apply. Two executions let a retry meet what
a dead promoter left. A reset of DEV commits at most once, because a second one
would repeat the first over its own seeds; of the intake one lead comes meanwhile.
One draft and one window of every command with a deployment, and two drafts and two
windows that define and activate without one, are separate families of `piezas`. `MaxManos`, `MaxMuertes`, `MaxAjenos`, `MaxSaltos`, `MaxImprevistos`
count the things that nobody can be trusted to do a bounded number of times.

Symmetry is used in `piezas`, `adjuntos`, `harness` and `tablero`, over values that
are only compared; no run with a liveness property uses it.

Deadlock checking is off because a bounded system, or one nobody calls, may
stop; that calls do not block each other forever is what the liveness
properties (`TodaPeticionTermina`, `TodaLlamadaTermina`, `TodaCorridaTermina`) check.

Fairness. Nobody has to make a request; nothing has to fail, expire or be
deleted. A statement that waits for nobody runs (weak fairness). PostgreSQL
serves the waiters of a row or of a unique key from a queue, and a constraint
check waits for the very transactions it met, so a call that could be served
again and again is served (strong fairness on `BloquearCita`, `BloquearLead`,
`VerificarRestricciones` and, in `LeadIntake`, on the steps of each call). The
deadlock detector runs (weak fairness). A run of the supervisor goes on by
itself: its worker ends or runs out of time, and the human at its terminal
answers in the end (`WF(Paso(r))`); nobody else has to do anything.

### Findings

1. `validate_fin_dentro_de_horario` (`app/models/agenda.py:154`) compares the
   hour of the end without its day. A meeting at 23:30 for 30 minutes ends at
   00:00 and is accepted; `docs/AGENDA_USO.md:45` says meetings end by 19:00.
2. `docs/DECISIONES_TECNICAS.md:26` promises the existing result to a repeated
   key and payload. When the cleanup deleted the lead, the record stays without
   lead until it expires, and every replay fails with "todavia esta en proceso"
   (`app/repositories/solicitud_repository.py:392`).
3. `run_lock` (`scripts/harness/supervisor.py:419`–432) creates `run.lock` before it
   writes its pid into it. A second run that meets it empty takes it for the lock
   of a dead process and deletes it: two supervisors at once, against line 393.

### What the models showed and no run states

Behaviours a reader should know of; the properties are stated so that they hold
with them, and say so in their comments.

- Agenda: that the responsable is active is not looked at again at the commit
  (`app/services/agenda_service.py:337`); a change of state by hand or an assignment moves
  a lead off `reunion_agendada` with its meeting still booked
  (`app/repositories/solicitud_repository.py:1233`); the timeline is ordered by the start of
  transactions (`app/repositories/agenda_repository.py:153`).
- Dashboard: a section that failed is filled with zeros, and the leads of the period on the
  cards, or the total the panel of states announces, then show that zero, although
  `app/services/executive_dashboard_service.py:95` says that a failed section is never
  presented as one. With OFFSET pages, each lead that leaves the list hides another one.
  An export may exceed `EXPORT_MAX_ROWS` by what came in after the count.
- Rate limiter: it documents a fixed window and keeps a sliding log; threads that
  meet may let in more than the limit, even by more than one each, because two of
  them can drop the same expired attempt and one that is not.
- Simulator: its routes say "solo executive y ceo/cto" and let coordinators in
  (`app/web/routes/simulador.py:15`); with a spouse and children the age of the causante
  may be 60 to 92, 62 to 92 in `docs/SIM_RV_V1_PENDIENTES.md`; twins given in another order
  give another verification code; the increase may outlast the guarantee, and the
  second rescue then exceeds the guaranteed payments; past a guarantee as long
  as the table a common child lowers the share of the spouse and gets nothing.
- Harness: an acceptance saved over a task that closed meanwhile leaves VERIFYING
  without a task, from which no command returns to IDLE; `define` hashes the draft
  (`scripts/harness/approve.py:114`) and reads it again (line 119), so that a draft the
  interview puts there in between is the one saved, although the hash it passed is of the
  earlier one: the function's own text asks that the draft "match the hash the human saw"
  (line 107), and the human does see the text he saves before he types the id;
  `resolve_to_preparing` (`harness/workflow.yaml:130`) clears candidate and approval but not the acceptance. The
  `finally` of `run_lock` deletes the file whoever owns it. On POSIX only the direct
  child of a run is killed. `validate_progress` compares the session with the others only
  (`scripts/harness/supervisor.py:314`). A gate the human answered in another terminal stops
  the orchestrator. The gate of AWS loops without looking at the state again.
- Promotion: a target that became healthy after the last look may be rolled back, and
  the promoter rolls back by itself, which `docs/DEV_EB_DEPLOYMENT_RUNBOOK.md:273` tells people not to do; `tpi-dev-eb-pipeline.json` runs the baseline
  promoter, whereas the postflight of `deploy-dev-eb.yml` expects the candidate.
- Bucket: `apply` gives the application its permission (step 6) before the bucket its
  policy (step 7), and never corrects a plan that differs (`docs/ADJUNTOS_INFRA_S3.md:33`); a rollback
  deletes the attachments that were uploaded after it had looked (`:57`).
- Data of DEV: the reset lists the files before its confirmation and deletes them before its
  commit; a lead taken in between two of its DELETEs makes it fail and revert
  without the files; some of its seeds have a history that is no chain; `dev_usuarios.py`
  writes the whole secret over whatever is there (`scripts/dev_usuarios.py:465`).

## 4. Proofs

All theorems hold for every value of the constants that satisfies the named
assumptions, which TLC evaluates in a run:

- types of the population, of the requests and of the histories a run starts
  from; markers such as `Nada`, `Nulo` or `NoHay` are not data (`DatosAssumption`, `NadaAssumption`,
  `PeticionesAssumption`, `HistoriasAssumption`, `WorkflowAssumption`, `GatesAssumption`);
- limits and bounds are naturals, and those that the code takes as at least 1 are
  positive (`BoundsPromocion`, `BoundsInfra`, `RunnerAssumption`, `TableroAssumption`, and `PuertaAssumption`, which is
  what `app/config/settings.py:281` accepts for the limiter);
- keys, lead ids, calls, advisors, the meetings there can be and the runs that were killed are
  finite sets (`IntakeAssumption`, `FinitudAssumption`, `TableroAssumption`, `CalendarioAssumption`,
  `RunnerAssumption`); names of different kinds of users differ (`ConsolasAssumption`); instants
  are minutes and ids numbers (`CalendarioAssumption`);
- the spouse and the rows of a form are persons with the fields it has and the day of a simulation
  is a date (`SimuladorAssumption`); what an attachment may be (`AdjuntosAssumption`).

What a sum over a set, the loop over sorted meetings or the bisection computes is recursive, and the
library's induction theorems cannot be used here. Those proofs take a least counterexample
instead (`WFMin` over the naturals): the recursion has a solution up to every number, or
its invariant holds up to every number (`HastaEl`).

The theorems are about the specifications without fairness: fairness only removes
behaviours. `CrmLedger`'s are about `Spec`, without the bound on events of its run.

- **`CrmLedger_proofs`**: `TypeOK`, `SinSuperposicion`, `UnaAgendadaPorLead`,
  `CadenaEstado`, `HistorialFiel`, `AutorizacionRespetada`, `CitaIrreversible`: every
  property of the run. The first two are inductive together with the types: the only
  rows that become booked are those of `Agendar` and `Reagendar`, whose guards compare them
  with every other. The chains need lemmas about appending an event; the fidelity
  of the histories is carried per kind of event. Whoever wrote still has the lead in
  his portfolio because assignments are never withdrawn (`CarteraCrece`), and every
  step writes either an event of a lead by somebody with the right to it or one of a meeting
  (`EstadoConDerecho`, `CitaConDerecho`).
  The readers (`TabInv` of `TableroEjecutivo`): `ExportacionAuditada`, `RecorridoCompleto`,
  `MismaPoblacion`, whatever is written under them. A list is seen as the places of its members
  (`Puesto`), so that pages are intervals of places. A write moves the place of a lead
  that stays by at most the leads that left or slipped in before it; `Camino` keeps that the
  leads listed all along that were not seen, up to where the pages went, are at most those
  that left. What an alert counted is what its link lists while the version is the
  same (`Alertado`); the export is between two versions (`Exportado`).
  And `TableroCoherente`: each section of a dashboard that did not fail is what its producer makes of
  one snapshot (`Render`), of the types of a snapshot (`FotoBien`); and the groups that a chart makes
  of a finite population, by state, by advisor, by origin or by day, add up to it (`Particion`), which is
  what makes sections of different queries agree.
- **`CrmTransactions_proofs`**. The inductive invariant `Inv` joins types, lock
  ownership (`CandadosCoherentes`), freshness (`LecturasVigentes`) and
  `Programa`: which statements each operation can be at, that the meeting it
  acts on belongs to the lead it locks, and that nobody else holds the id of a
  meeting being inserted. Freshness holds because every writer of a row holds its
  lock. `SoloRestriccionesInterbloquean` (theorem `OrdenDeCandados`) is proved from the
  definition of `EnCiclo`: for a call that is not checking a constraint one
  exhibits a set closed under waiting that does not contain it.
  The refinement (theorem `Refinamiento`): `CrmTransactions` implements `CrmLedger` under the
  identity mapping: every action but `Commit` leaves the committed rows alone, and
  `Commit` is the ledger's action of the operation. The strengthening
  `Comprobado` says that what was checked earlier still holds at the commit.
  The responsable was checked before the transaction and stays valid because an
  assignment is never taken back: it is this monotonicity, not a lock, that
  makes the early check sound. State and assignment of the lead are frozen by
  its lock. And two calls past the constraint check never have incompatible
  rows, nor one of them with a committed row other than its own.
- **`IntakeLedger_proofs`**. One lead per key and validity follows from: a
  lead of the present validity implies a record of the present validity. It needs that records
  are only cleaned once expired (`Vencidas`) and survive the deletion of their lead.
  `RegistroFiel`, what a record says of its lead, is proved too.
- **`LeadIntake_proofs`**: `Base`, the refinement `ImplementaIntake`, and every safety
  property of the run. `Base` adds to the types: a row that a call deleted or will look at
  has expired (`SoloVencidas`); a row is deleted, and a key reserved, by one call
  (`Exclusivas`); and there is an id for every call that may still insert
  (`HayIds`, a count of finite sets). The invariant of `IntakeLedger` is used
  through the refinement, so `UnLeadPorVigencia` of the calls is that of the
  promise. For `SoloLaLimpiezaInterbloquea`: calls past the DELETE and not committed hold rows
  they deleted. The sets of rows that a call deleted or will still find to delete are nested
  (`Anidadas`): rows only expire, and each call took its snapshot at one instant. The
  deletions are disjoint, so at most one call past the DELETE holds rows, and a cycle
  in which nobody is deleting would need two.
  The way in (`PuertaEnOrden` of `PuertaApi`): `PuertaSegura`. Of the pool, every connection is
  idle or in one hand, and who builds it holds its lock (`PoolEnOrden`). Of the limiter, as
  long as two threads were not inside it at once, the deque is the end of the sequence of the
  requests let in and what fell off it had expired (`ColaFiel`), so a window never holds more than the
  limit, and exactly the limit when somebody was refused (`VentanasJustas`).
- **`LeadAttachments_proofs`**: `Inv` and the three properties of the run. An uploaded uuid
  is a secret of its request until its note may have been written (`Secretos`), so nobody
  else deletes or marks it; a uuid marks one attachment (`Unicas`); what was uploaded is in the
  bucket until then (`Subidas`); a deleted object is gone before its mark (`Quitadas`); and
  `ConDueno` strengthens `SinHuerfanos` with the requests that still may delete the object.
- **`HarnessWorkflow_proofs`**: `EntregaSegura`, `LimitesDelCiclo`, `Coherencia` and
  `CadaCambioRegistrado`, for any tasks, commits, sessions and limits. The two terminals
  alternate by the role of the state, so the only command that can be old when it saves is an
  accept, or a command of the agent that an accept overtook (`Turnos`). What makes a delivery
  safe is carried by every state that is or may yet be saved, old or not (`Seguro`); the
  limits and the agreement with the task only by what is fresh (`Vigente`, `Fresca`); and
  the task files are followed through the stages of a closing (`Ficheros`). The 39
  transitions are split by the effects they share, not one by one.
  The gates (`GInv` of `HarnessGates`): `PuertasFieles`. Until a command writes over what it
  had not read, the state, the current task and the backlog agree, and a block has its
  reason in the last transition (`Acuerdo`); a window that is not old holds what the files hold
  (`VentanaFresca`); a window that defines has checked the hash of a draft of its id, and
  the draft it goes on with is that one or one that came between its two reads
  (`VentanaCotejada`, `GCotejo`), so that what the backlog gets is one of both; and while
  nothing moved since the human was asked, the question, the class of the block and each
  order proposed are those of the state (`OrqFresco`). The
  id that the interview suggests is free because it is past the largest one in use, which
  exists because ids are bounded (`MaxEs`).
- **`HarnessRunner_proofs`**: `DenegadoEsAbsoluto` and `TurnoVeraz`, for any number of runs, turns
  and deaths. The worker a run waits for is the last it launched and no other of it is alive
  (`Vivos`, `Turnos`), so what was denied stops the run (`Negados`). A history tells of
  transitions that were made, in their order, and of all since its first entry, whatever was cut
  off its front (`Fiel`); and when the snapshot of a turn is taken nothing was
  done after its last entry (`Foto`). So what follows that entry in a later history
  is what was done in the turn.
- **`Piezas_proofs`**, five specifications that share nothing:
  - *promotion* (`InvPromocion`): `EntornoAprobado`, `SinPisar`, `VerdeVeraz`. What a
    promoter checked stays checked while it runs (`Comprobado`: contents of an approved key and
    of a version do not change); what it saw at its start still stands unless an operator wrote,
    and an undo comes only after its own update was accepted (`Derecho`); the end of an
    execution is told only to the workflow that started it (`Seguida`).
  - *bucket* (`InvInfra`): `InfraSegura`. `AplicadoHasta`, `VerificadoHasta` and
    `RevertidoHasta` say how far a command has come and what is then true; once a
    rollback has looked, every real attachment is a late one. The proof attempt showed an
    earlier statement false at three commands: after an interrupted rollback an apply gives
    the permission before it puts the policy back. The property now says so, and the
    run has the three commands.
  - *data of DEV* (`InvDatos`): `DatosCoherentes`, `SecretoSinPerdidas`. One reset at a time,
    which has seen every file but the late ones, and the leads of those files
    stay until it commits (`ReinicioUnico`); past its DELETE what it saw is within what it
    deleted (`ReinicioHasta`); a lead with a mark, or about to get it, lacks its file only
    under the reset that is at the bucket or after one that broke off (`MarcaConArchivo`); and a
    version of the secret that was read and is still the last loses only coordinators (`SecretoLeido`).

  - *week view* (`AgendaInv`): `SemanaCorrecta`. A row in the table was accepted by the
    validators, so its day is Monday to Friday and its start after the first hour shown; with
    the arithmetic of days and minutes it is in the column of its day of the week of
    its Monday and in no other, at its minute. The lanes have an invariant over the meetings
    placed so far (`Reparto`, kept by `PasoReparto` case by case of the loop): each lane of the
    open group ends where one of its meetings does (`CarrilOcupado`); meetings that overlap are in
    different lanes of one group (`RepartoSinChoque`); and every group has a meeting at whose start all its lanes are taken
    (`RepartoJusto`), which the number of meetings that take place then must equal (`LlenoJusto`: one
    per lane at most, as they would collide, and at least one).
  - *simulator* (`SimInv`): `SimulacionFiel`. Before a PDF is handed over its event is there
    (`Escrito`), and events only grow. That the inputs kept give the code again rests on
    `OrdenadosQuietos`: the place of a child (`Lugar`) is a bijection, because the order by birth, sex and
    position is total, and ordered children have their places in order. A request that shows something
    holds a form that passed every check with the causante it is shown for (`Admitida`, in `Bien`). The
    shares are then numbers (`SobrevivenciaEs`): with n children that have a right, a of them paid as
    children, 132 n + 48 a, and 600, 720 or nothing more; rights are only lost (`Derechos`), and the spouse's
    share grows only when a child that lowered it loses its own, which is worth more. What
    the children share without a spouse, 600, divides exactly among the at most four that the form takes.
    The rescue is the sum of two kinds of month (`RescateBien`), and the bisection keeps a sign
    change between its ends (`BiseccionCuadra`). The proof attempt showed an earlier statement
    false: past a guarantee as long as the table, the loss of a child's right raises
    the share of the spouse from 50 to 60 percent. The property now says so, and the run has that
    family (`Tardia`).

The larger inductive invariants (the harness's, the three of the deployment) were first
checked by TLC on the instance of their run.

Only model-checked:

- liveness (`TodaPeticionTermina`, `TodaLlamadaTermina`, `TodaCorridaTermina`): fairness
  and ENABLED are out of reach of the prover;
- that the bisection of a deferred annuity balances accounts other than the sixteen of
  `Balances`: the lemma holds for any account whose excess changes sign, the model names those.

`CandadosCoherentes` and the `TypeOK` of `CrmLedger` and `CrmTransactions` are the other way round:
proved, and in no run.

## 5. Abstractions worth knowing

Properties that several conjuncts make up are one definition: `Coherencia`
(harness), `MarcaConObjeto` (attachments), `RespuestasCoherentes` (intake) and
`TableroCoherente` begin with the `TypeOK` of their module. Histories (`hist`, `fallidos`, `cambios`,
`libro`, `memoria`, `pasado`, `cuenta`) are read by properties and bounds only. A property that excepts
something (`fallidos`, `cruce`, `cayo`, `roto`, `tarde`, `intruso`) says that this is the only
way it can fail.

Some definitions have the form the prover can use rather than that of the code: a page is the
places of its members instead of a piece of a sequence (`Pagina`), sorted children and sorted
meetings are those at each rank (`HijosOrdenados`, `EnOrden`: what a stable sort returns), the loop
over the meetings is a recursive function of their number (`AsignarCarriles`), sums are those of a function over its
domain (`Total`), and what happened in a turn is a set of positions (`TurnoVeraz`). The alternatives of a decision in the code are `IF` chains in their order,
so that at most one applies.

## 6. Not modelled

Text, formatting, PII masking, e-mail and rut validation, sessions and CSRF (the
user is a constant), the SNS client, the serialization of timestamps and the change of daylight saving
time (at midnight in Chile, outside the working hours). The old form's
`registrar_solicitud` has no key and no replay. Of the bandeja and the dashboard: dates as
filters, search, sort, the changes the agenda makes. Of the simulator: the life tables, the value of the UF, the layout
of the PDF, midnight between `now` and `fecha_simulacion`, `portal.py`. Of the harness: the projection
`progress/current.md`, `context_compact`, the check of the runtime, the list of worktrees,
the static-site profile, the command guards (`guard.py` and what it calls). Of the
promotion: the checks of account, TLS, events and artifact. Of the bucket: listings
of more than one page.

## 7. Plan

1. (done) The modules of section 2, their runs and the proofs of section 4.
2. (done) A theorem for every safety property of every passing run.
3. A model of the ordering of the timeline, and of the responsable that is deactivated
   between check and commit, once a run has room for them.
