# snrub.api: TLA+ models, checks and proofs

snrub.api is the backend of a simulated nuclear plant: a FastAPI process, a
simulator process, PostgreSQL and an EMQX broker. This directory models the
parts of it that have state worth arguing about, checks them with TLC on small
instances, and proves the main results with TLAPS for every value of the
constants. `PROJECT.json` lists the runs, the seeded faults (every property is
broken by at least one), the source lines behind each definition, the hazards
and the theorems.

## 1. The system

| component | source | state | operations | talks to |
|---|---|---|---|---|
| incident emitter | `app/services/incident_emitter.py` | `excursion_streaks` in memory; tables `incident_reports`, `incident_types`, `users` | `update_streaks`, `file_auto_reports`, `emit`, once per tick | called by the simulator; shares its tables with the API |
| god-mode levers | `app/routes/godmode.py`, `controllers/actuators.py`, `services/mqtt.py`, `main.py` | API's MQTT client; retained messages; simulator's `actuator_state` | `PUT /godmode/actuators`, `lifespan`, consumer task | API → broker → simulator |
| simulator loop | `app/simulator.py` | loop variables, `plant_states` row, retained alarms | start-up, tick, persist, emit, publish, reconnect, stop | database and broker |
| plant physics | `app/services/plant_model.py`, `telemetry.py` | seven metrics, five levers | `targets_from_actuators`, `step` | called by the simulator |
| alarms | `app/services/alarms.py`, `setpoints.py` | last published level per metric | `classify`, publish on change | broker |
| password reset | `app/controllers/auth/password_reset.py` | tables `password_resets`, `users` | request, use of a token | database; thread pool beside the event loop |
| accounts, tokens, reports | `app/controllers/user.py`, `incident_report*.py`, `app/security`, `routes/auth` | tables `users`, `incident_reports`, `incident_report_subjects`; bearer tokens held by clients | sign in, create/update/delete | database |
| types and categories | `app/controllers/incident_type.py`, `incident_category.py` | their tables | create, recode, read | database |
| generic CRUD | `app/db/crud_base.py` | none | create, update, delete with rollback | database |
| telemetry feed and pool | `app/routes/telemetry.py`, `controllers/telemetry.py`, `db/database.py` | open streams, their sessions; the connection pool; who runs on the event loop | `telemetry_stream`, `get_reactor_metrics`, `get_session` | database; reads the simulator's `plant_states`; shares pool and event loop with every request |
| sensors | `services/sensors.py` | last readings (kept by the simulator) | `sample_all` | called by the simulator |
| start-up and seeds | `scripts/start-dev.sh`, `migrations/`, `seeds/`, `scripts/export_seed_data.py` | the schema revision; the seed files; the session of a run | migrate, four seed stages, serve; seed by hand; export | database, beside the API and the simulator |
| e-mail, photos, configuration | `services/email.py`, `image_processing.py`, `core/config.py` | none | pure I/O | |

### How it runs, and what is hard

* **One event loop.** The API is a single uvicorn worker. A coroutine route with
  synchronous database code runs from the check of its token to its commit
  without suspending, so such requests are atomic towards each other. Two places
  are not: `reset_password_with_token` is a plain `def` and runs in the thread
  pool, and `reset_password` awaits the e-mail.
* **Two processes, one database.** The simulator's emitter reads, decides and
  writes in separate statements at READ COMMITTED while the API commits between
  them.
* **A broker that forgets.** Levers and alarms are retained messages; the broker
  container has no volume, connections drop, and a new subscription receives
  retained copies mixed with live messages.
* **Copies that go stale.** A bearer token copies the account's role; the alarm
  table copies what the broker holds; `connected` copies whether a connection
  was once made; the emitter copies the system account's uid.
* **One loop, one pool.** Queries are synchronous. A session takes a connection with its
  first query, a telemetry stream keeps it until the client leaves, and a coroutine that
  finds the pool empty waits with the event loop in its hands, which the holders need to
  give theirs back. SQLAlchemy's pool timeout is what ends this.
* **Failures between commits.** The simulator, the reset handler, the filing loop and
  the seed run each make several commits that an error, a kill or a restart can separate.
* **Truth and readings.** Reports are filed on the true state, alarms are raised on
  sensor readings that lag behind it.

### What makes each component correct

* emitter: at most one open automatic report per type (*AtMostOneOpenAuto*), only
  for a full debounce (*OnlyDebouncedCodes*), and eventually one for a DANGER
  that lasts (*SustainedDangerIsReported*);
* levers: the path is a register per lever (*ImplementsRegister*) whose reader
  agrees with the broker once it has read everything (*FollowsBroker*,
  *EventuallyFollows*);
* simulator: nothing is published before it is durable (*PublishedIsDurable*), the
  snapshot only moves forward (*SnapshotAdvances*), suppression of unchanged alarms
  never leaves a stale one (*AlarmsAgree*, *AlarmReachesBroker*), a stop ends it
  (*StopEnds*);
* plant and sensors: ranges hold (*TypeOK*), every DANGER has a code (*DangerHasCode*), nominal
  levers bring it back (*Recovers*), quiet stays quiet (*QuietIsSteady*), a stopped pump
  always ends in an excursion (*StoppedPumpIsExcursion*);
* alarms: no metric is two levels away from the truth (*AlarmNeverTwoLevelsOff*) and none
  jumps over its warning (*WarnsFirst*);
* start-up and seeds: a finished run has seeded everything (*FinishedRunSeeds*), nothing an
  earlier run left in the database stops a later one (*OnlyEditsStopARun*), a second run changes
  nothing but relative dates (*RerunChangesNothing*) and none touches what its files do not describe
  (*RunSparesOthers*); one unprivileged account for the emitter (*OneSystemAccount*);
* telemetry feed: a stream whose client has left gives its connection back
  (*LeaversGiveBack*), the feed is at most one period late and catches up (*AtMostOneLate*, *FeedFollows*), and
  every request ends in spite of the pool (*EveryCallEnds*);
* password reset: only the newest token is usable (*ActiveIsNewest*);
* accounts and reports: see *IncidentDesk* below.

## 2. Modules

Each component has a module, an `MC` module with the constants of its runs, and
where there are theorems a `Proofs` module that extends it.

### IncidentEmitter

The simulator's `pc` walks through `emit` statement by statement: `LookupSystemUser`,
then for each ready code `NextCode`, `Dedup` (`_open_auto_report`), `SelectType` and
`FileReport`. `Tick` is one evaluation: it moves `streaks` and the history `window`.
The API's handlers (`OperatorCreateReport`, `UpdateReport`, `DeleteReport`, `WriteType`,
`WriteAccount`) are one step each and may fall between any two of those. Errors
(`FilingFails`, `ReporterGone`, `FileReportThenFail`) abandon the tick as the loop's
generic handler does; `Crash` and `Restart` lose the memory. Streaks above the
debounce behave alike and are not counted further. Reports an operator has touched
are marked, because an operator may of course make two reports of one type open.

### ActuatorRegister, ActuatorBus

`ActuatorRegister` is the promise: per lever a position that is set and followed,
where settings may be lost but never reordered, invented or undone by an older one;
a restarted reader starts from nominal. `ActuatorBus` is the code: `lifespan`'s
connection attempts, `Admit` (`get_mqtt_publisher`) and `SetActuator` as two steps of
one request, the broker's retained messages and redelivery, the simulator's
subscription, inbox and consumer. The n-th setting of a lever stands for its value,
which is what lets the order of settings be talked about. `Redeliver` reads the retained copy
when it delivers it, where a broker might have queued it at the subscription; that is an
assumption on EMQX. `ImplementsRegister` maps the
simulator's `actuatorState` to the register's position.

### Simulator

`run_simulator` with one `pc` value for every point at which an await, a commit or an
exception can interfere: waiting for the database, loading or creating the row,
connecting, subscribing, advancing, persisting, emitting, publishing readings and
alarms one by one, sleeping, and the handlers. The consumer task has its own state and
may fail, finish or be cancelled. `state` counts the integration steps behind the
plant so that a lost or repeated one shows.

### PlantModel

`targets_from_actuators`, `_effective_targets`, `_clamp` and `step` in fixed point with
`Resolution` units per unit of a metric; the tables (`METRICS`, `PHYSICAL_RANGES`, `TAUS`,
`ACTUATOR_NOMINAL`, `BASE_METRICS`, the DANGER rails, `EXCURSION_CODE_MAP`) are the
code's. `Tick` is one second, `SetLever` an actuator message, `Restart` the return to
nominal levers with the saved plant and readings. The easing factor `1 - exp(-1/tau)` is rounded
to thousandths.

`Sampled` is `sample_all` with the sensors the program ships, all of them healthy: core
temperature and radiation ease toward the truth with their own time constants, the rest
show it. `Level` is `classify` with all four thresholds. The gaussian noise is not in the
state; `NoiseMargin` is five times the deviation it leaves on a reading (for a lagging sensor
that of the filtered noise), and the properties about alarms allow for it on either side.
Two things the tables show: no lever moves radiation or containment, and containment's base
of 95 is the edge of its warning band, so a quiet plant carries that one warning
(`tests/unit/services/test_alarms.py` has an all-normal baseline because it takes 98).

### PasswordReset

One account. `RequestReset`, `Invalidate` and `CreateToken` are the request's separate
commits; `CheckToken`, `ChangePassword` and `MarkUsed` are the statements of a reset in
the thread pool, of which several may overlap. Tokens expire, the account may be
deleted with its tokens, and an error or a restart cuts either short.

### IncidentDesk

Accounts, tokens, reports and subjects. `RequireRole` checks the role the token
carries and then that the row behind it exists; `Commit` takes a transaction's new
tables if the three foreign keys hold of them and otherwise rolls back and answers 500; an
exception after the commit (a lost answer, the refresh of the row) is a 500 too, written `Late`
so that the properties can tell the two apart, which a client cannot.
Handlers differ in the tables they ask for and in their early answers (403, 404).
`Login` and `GoogleSignUp` sign a token with the row's role; tokens age and expire;
`Restore` puts the database back under a running API, the case `_verify_jwt_user_exists`
names. A uid is never used twice. Properties: a valid report is never answered with a
foreign-key 500 (*NoForeignKeyErrors*), a request refused or failed before its commit leaves every table
alone (*RefusalsChangeNothing*), an administrator's rights come only from somebody who
has them (*AuthorityIsGranted*), and a demotion is complete once older tokens have run
out (*DemotionTakesHold*).

### TelemetryFeed

Every handler of the API by where it is: arriving, checking a connection out, with its
query's answer, awaiting, sending, and the two steps of its end, which the event loop
orders (`Unwind`) and a worker thread performs (`Release`). `loop` is the handler the event
loop is running; it stays with a coroutine from `Resume` to its next await, also while
`CheckOut` finds no connection. `Work` is what requests do with a session: return, await
with the connection in hand (coroutines), or commit and go on with a fresh connection in
the same breath, as `CRUDBase.create` does for its refresh. Streams authenticate, then
`Read` and `Send` in turn, with the simulator's `Persist` and other handlers between the two.
How asyncio, FastAPI and the pool schedule and limit is taken from their documented
behaviour at the locked versions (`uv.lock`) and marked external: `yield` dependencies
leave in a thread, and a pool made by a plain `create_engine` is bounded and times out.

### SeedRunner

The development container's start and the seed run. `Migrate` is `alembic upgrade head`, one
transaction, from any revision a database may have stopped at. A run's four stages are
transactions of one session: `Find` is the lookups and the SELECT of one record, `Write` its
flush, `Commit` the end of the stage; `SeedCategories` and `ReadLookups` lie between. `Key` is
the natural key by which a stage recognises a row, `Changes` the columns an UPDATE really names,
`Pinned` the rows that uncommitted writes and foreign keys lock. Administrators, the emitter and
kills come between any two statements, as far as those locks let them. `Reset` is
`docker-reset.sh`; `ExportNewUsers` and `ExportReports` are the two halves of the export, whose
output is pasted into the seed files: new users are appended, and the reports, if there are any,
replace the list. A stage's records are a set: the order of the committed lists
is left open. Unused uids are all alike, so `NewId` picks one.

The export prints what people have typed as Python source. `TextRead` and `CodeRead` say what
Python reads back of the literal printed for a description or a code: of a description only
quotes are escaped, of a code nothing, so a line break makes it no literal at all (`Nothing`), a
backslash may make it another text, and an empty description comes back as none.
`files.broken` names the lists that are no Python any more. `Begin` then fails at its import, before any stage; the export itself imports the list of
users only. Names are not in the rows, so whether a new user's name breaks that list is left open,
except for the migrations' account, which is called System. Nobody repairs a list by hand in the
model; a later export may replace the list of reports.

What the module shows of the export. The committed list cannot survive it: six of its eighteen
descriptions have line breaks (*SeedRunnerExport* below). Types are not exported, so a database
whose types were created or recoded gives report files that name a code the seeds do not have, and
the next fresh database refuses them. *OnlyEditsStopARun* excepts exactly these two, `files.broken`
and `SelfContained`, beside an edit under way. Automatic reports are exported too; two of one type
collapse into one row when seeded, because their text is the same.

*RerunChangesNothing* is about the columns the rows have here. `occurred_at` is not one: three
reports of the committed list are dated `_days_ago(...)`, so a run on a later day moves them.

## 3. Runs

| run | question | instance | states |
|---|---|---|---|
| IncidentEmitter | duplicates, early reports, a lasting DANGER is reported | 2 metrics, 2 codes, 2 types, 3 reports, 2 system accounts, debounce 2, 1 fault, 1 edit | 1.6 M |
| ActuatorBus | register, agreement, catching up | 2 levers, 2 requests, 2 settings, 2 outages, 1 restart | 2.7 M |
| ActuatorBusDropped | 503 for a dropped connection | 1 lever, 1 request, 1 outage | violated |
| Simulator | durability, alarms, shutdown | 2 alarms, 2 levels, 3 faults, ticks up to 2 | 0.4 M |
| SimulatorOutage | an outage always ends in a reconnection | 1 alarm, 1 fault | violated |
| PasswordReset | one usable token | 3 tokens, 2 resets, 2 faults | 0.1 M |
| PasswordResetReuse | a token sets one password | 1 token, 1 reset, 1 fault | violated |
| PlantModel | ranges, codes, alarms, recovery | every lever at both rails and nominal, 2 commands | 0.7 M |
| IncidentDesk | stale tokens, half-written reports, rights | 2 accounts, 2 reports, 2 tokens, 1 restore | 0.6 M |
| TelemetryFeed | connections given back, freshness, the event loop in the pool's queue | 1 stream, 1 coroutine request, 1 threaded request, pool of 1, 3 queries, 1 fault, ticks up to 2 | 51 k |
| SeedRunner | partial runs, runs beside a live system, migrations, export | 3 accounts, 2 types, 3 reports, 3 texts, 2 edits, 1 export | 3.2 M |
| SeedRunnerExport | an export can be seeded from | one seeded report with paragraphs, 1 export, no edit | violated |

Why the bounds are enough. A duplicate report needs one edit between the emitter's
check and its commit, or a fault after a commit; an edit and a fault allow both at
once, and three reports leave room for the twin of a report and an operator's own. Two
metrics with a code each show that one code's failure leaves the other's report due.
Reordering on the bus needs two settings of a lever, an outage while one is under way
and a second one during the catching up. The simulator's hazards need one fault at the
wrong step and a second while it recovers; the third is for the stop request. The
newest-token rule needs three tokens: one checked, one being invalidated and one being
made. In IncidentDesk two accounts can promote, demote and delete each other while one
reports on the other, and two reports show that writing one leaves the other's
subjects alone. In TelemetryFeed a pool of one
is already full with the stream, so that the coroutine request blocks the event loop while
the threaded one waits beside it or holds the connection in its place; more handlers on
more connections repeat this, and two streams on a pool of two were found to behave alike.
In SeedRunner one edit makes a run fail or leaves a twin behind and the second meets the run
that cleans up; three accounts are the emitter's, one of the seeds and one more, and an export
is only interesting with a reset after it. One text is such that its literal breaks; a text that is
read back as another one, and codes that break, are in the theorems only.
In PlantModel there is no bound on ticks: with a finite resolution the
plant has finitely many states. `Staff`, `MaxEdits`, `MaxExports`, `MaxFaults`, `MaxOutages`, `MaxRestarts`,
`MaxSetpoints`, `MaxTicks`, `MaxCommands`, `MaxQueries`, `MaxTokens` and `MaxRestores` are the only bounds.
Symmetry is used in PasswordReset only.

`CHECK_DEADLOCK FALSE` stands where the system may really stop: a process that is down
and that nothing restarts (`restart: "no"`), no token and no request left, or a served
database with the edits used up.

### Violated runs

* **ActuatorBusDropped.** `get_mqtt_publisher` is documented to answer 503 if the broker
  was "unreachable at startup / dropped"; `connected` only says that a client object
  exists, so after a drop requests are still admitted.
* **SimulatorOutage.** `except MqttError` awaits `_cancel_task(consumer)`, which suppresses
  only `CancelledError`. If the consumer task ended with its own `MqttError` first, that
  error leaves the handler and ends the process, where log line and test expect a
  reconnection.
* **PasswordResetReuse.** The new password and `used` are two commits; an error between
  them leaves the token good for a retry, while a test says a token cannot be used twice.
* **SeedRunnerExport.** A database is seeded with a description in paragraphs, as six committed
  ones are, exported, and the output pasted in. The line break stands raw inside a one-line literal,
  the next run fails on the import, and `start-dev.sh` stops there under `set -e`; the script and
  `README.md:164-169` call its output seed-friendly and the full list for the seed file. The property
  leaves out files that name what they do not have, so the literal is the only cause.

## 4. Fairness

* IncidentEmitter: the loop keeps ticking and its statements return while the process
  is up. Nothing is assumed about restarts, operators or faults.
* ActuatorBus: the broker delivers and the consumer task takes what is delivered. API,
  reconnections and outages get no fairness; the property asks for a simulator that
  stays subscribed.
* Simulator: the event loop keeps running the process and its calls return or raise.
  Database, broker and network get none.
* PlantModel: the simulator ticks.
* TelemetryFeed: asyncio runs ready handlers first come, first served, so a handler that is
  ready again and again gets the event loop (strong fairness of `Dispatch`); a query, a thread
  or a wait for the pool that has begun comes to an end (weak fairness of `Run`). Clients,
  the simulator and the database get none.
* IncidentDesk: a token whose role is no longer its account's ages and expires
  (`exp`, 30 minutes). Other tokens get no fairness, because a new sign-in may renew
  what the model holds as one element.

## 5. Proofs

Constants are only assumed to be what their `ASSUME`s say; TLC evaluates these on every
run.

* `IncidentEmitterProofs`. *TypeCorrect*; *AtMostOne* from `DedupInv`: type codes are unique,
  every report's type exists, any other automatic report of the type being filed is one
  an operator touched, and from `Dedup` to `FileReport` nothing untouched is open. The
  property alone is not inductive, for it says nothing of a report about to be filed.
  *OnlyDebounced* from `DebounceInv`: a streak of n means DANGER in the last n evaluations.
* `ActuatorBusProofs`. *TypeCorrect*; *Follows*, with the invariant that a subscribed
  simulator is consuming; *Implements*: every step of the bus is a step of the register or
  none. The invariant `Ordered` says that along wire, inbox and lever settings ascend, and
  that none is ahead of what was sent; the refinement needs it because a copy that is
  redelivered must be no older than what the simulator holds.
* `PasswordResetProofs`. *TypeCorrect*; *NewestOnly*, from the invariant that a request which
  is still invalidating has every usable token on its list.
* `SimulatorProofs`. *TypeCorrect*; *Durable* and *Advances* from `SnapshotInv`: a process that has
  loaded its state is never behind the snapshot in ticks and at most one integration step
  behind it (the commit that succeeded before `emit` failed), which the next tick takes again;
  *Agree* from `AlarmInv`: a connection is only made with an empty table of levels, without
  which the broker's topics and the table could part while nothing is connected.
* `PlantModelProofs`. *TypeCorrect*: every metric stays in its physical range at every
  resolution and for every position of the levers, because `step` clamps last; *Quiet*: the
  base is a fixed point of integrator and sensors, with the levels it has; *Coded*: the codes
  cover the DANGER rails of every metric, in any state. The alarms need two invariants, since
  the physical ranges alone would let the core run away from its thermowell. `Coupled` is the
  region the couplings leave: nothing moves radiation and containment, the clamp on reactivity
  keeps power within 15 points of its base, and so nothing drives the core below 582 degrees or
  towards more than 1208. `Following` says that every other reading is the truth and that the
  core's is off by at most 183 thousandths of the way the core may still have to go in that
  direction (and 6 units of rounding); it is inductive because the sensor closes 181 thousandths
  of its gap in a tick and the core only 33 of its own. From them *AlarmsAreClose* (the gap that two
  levels would take is 69.5 degrees, the gap there can be 64.2 at the coarsest resolution) and,
  with `TickMoves`, which bounds what one tick does to each metric, *DangerIsWarnedOf*; also
  *OutOfReach*: the codes of radiation and containment can never be reported. *StoppedPumpDrains*
  is the step of *StoppedPumpIsExcursion*; only that ticks go on is left to TLC.
* `IncidentDeskProofs`. Every request has one of two shapes, an answer that changes
  nothing or one commit (`AccountRequestShape`, `ReportRequestShape`), and the rest follows:
  *TypeCorrect*, *NothingChanges*, *NoErrors* (with the foreign keys as the inductive
  invariant `References`) and *Granted* (with `SignedForAccounts`: a token is only ever signed
  for an account that exists or existed, without which a new account could find an
  administrator's token waiting for it).

* `TelemetryFeedProofs`. *TypeCorrect*, of which the pool's bound is the interesting part,
  and *SentIsRecent*, from the invariant `Recent`: neither the row nor what a
  stream is about to send falls behind what the row was when it last sent.
* `SeedRunnerProofs`. *TypeCorrect*, with the foreign keys, from `SeedInv`: what a run has staged
  fits its table (`Fits`: some columns of a row, all of them if the row is new) and names rows
  that are there, because types are never deleted and `Pinned` keeps the accounts and reports;
  one lemma (`OthersCommit`) says that a commit of others which spares the pinned rows leaves all
  of it in order. *Spares*, from `SpareInv`: until an administrator interferes, what is found,
  staged and swapped is a described report or new. *OneAccountStays*, from `AccountInv`: which
  accounts an older database may have, that files and exports know the system account as the
  migrations leave it, and that a run stages nothing harmful to it; it assumes that the committed
  list of users does not name it (`AccountAssumption`). *FinishedRunsSeed* and *NothingLeftStopsARun*,
  from `RunInv`: until an administrator interferes every record of the stage is still to come or
  handled, where handled means that a row with its key is, or is about to be, as one of the records
  with that key has it (`Progress`); what has been found stays true until it is written (`FoundHolds`),
  which is where a report filed by the emitter in between could have hurt; the lookups name the rows
  they were read from; and the stages before are done. A run over files that do not parse has no stage to fail in, which is why the exception for it is in the
  property and nowhere in the invariant. Neither theorem says anything of uniqueness: files and
  tables with several records to a key are covered. *RerunsChangeNothing*, from `CodesInv` (codes of
  types are unique, as the open transaction sees them too) and `RerunInv`: over a stage that is as
  seeded nothing is staged and every pair of a report and a subject that is swapped out is swapped in.
  It needs that the committed types have distinct codes (`CodesAssumption`, true of
  `seeds/data/incident_types.py`).

Every type invariant, safety invariant and action property of the passing runs is proved.
Only model-checked: the liveness properties (*SustainedDangerIsReported*, *EventuallyFollows*,
*AlarmReachesBroker*, *StopEnds*, *Recovers*, *StoppedPumpIsExcursion*, *DemotionTakesHold*,
*FeedFollows*, *EveryCallEnds*, *LeaversGiveBack*), since the prover reasons about neither `ENABLED` nor
fairness, and the properties of the violated runs, which are false.

## 6. Not modelled

* `DEGRADED` and `FAILED` sensors (`sensors.py`): no code sets them. Noise is a margin, see PlantModel.
* `compute_targets` and the impact tables of `services/telemetry.py`: nothing in the application
  calls them since the levers drive the plant. `BASE_METRICS` is in PlantModel.
* E-mail, photos, configuration, API documentation routes: input and output only.
* Migrations that change the schema, and their downgrades: one transaction before anything
  runs. Those that change rows are in SeedRunner. So is `APP_ENV`: the guard of the seeds lets
  the development container pass, and nothing else starts them.
* The convergence `plant_model.py:14` calls monotone: only that the plant comes back (*Recovers*) is checked.
* Names, e-mail addresses, photos and account status: no handler decides on them except
  to find the account a request is about. Two rows may carry one address; the model
  lets either be found.

## 7. Plan

Order followed so far: the emitter and its proofs, the lever path with its abstract
register and refinement, the simulator loop, the password reset, the plant, the desk, the feed,
the seeds, the sensors and alarm bands, the simulator's and the seeds' proofs, then the seed
runs' and the alarms' invariants.

Next:

1. a composition of Simulator, PlantModel and IncidentEmitter on one tick, with an
   abstract specification of what an operator sees of an excursion;
2. the steps the other liveness properties rest on, as *StoppedPumpDrains* is for one: that a plant
   with nominal levers comes nearer to its base, that a due report is filed by the next poll;
3. the API's lifetime: `--reload` and restarts over open streams and half-done requests.
