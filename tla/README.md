# SentinelSIEM: specifications

TLA+ modules of the parts of SentinelSIEM in which several actors change the
same state or a step may fail half way, with the TLC runs that check them and
the proofs TLAPS checks:

* the path of an event, from the TCP socket of the collector to the alert
  documents that analysts read and change;
* incidents, which the requests of the API write document by document;
* users and sessions, as concurrent PostgreSQL transactions;
* the WebSocket connections that messages from Redis are sent to.

File names without a directory are in `backend/app/`.

## The system

Three kinds of process share Redis, OpenSearch and PostgreSQL:

```
 clients -> [collector process] -> Redis list -> [ingestion worker] -> OpenSearch
             TCPCollector           siem events    parse, detect,        events, results,
             CollectorRuntime                      alert, correlate      alerts, incidents
                                                                            ^
                     analysts -> [API processes] ---------------------------+
                         ^          |  |  |
                         |          |  |  +--> PostgreSQL: users, roles, sessions
                         +-WebSocket+  +-----> Redis channel of realtime messages
```

| Part | State | Operations | Interacts with |
|---|---|---|---|
| Collector (`ingestion/collectors/tcp.py`, `ingestion/collector_runtime.py`) | client tasks, bounded buffer, forwarding task | read a line, put, forward, stop | pushes to the Redis list |
| Queue (`ingestion/queues/redis.py`) | the list | `put` (RPUSH), `get` (BLPOP) | between collector and worker |
| Worker (`ingestion/worker.py`, `pipeline.py`, `retry.py`, `dead_letter.py`) | event in hand, attempt, dead letters | `process_one`, `_process_event`, stop, close | owns the engines and an `AlertManager` |
| Detection (`detection/engine.py`, `suppression.py`) | suppression entries with a lifetime | `evaluate` | called by the worker |
| Correlation (`correlation/`) | a window for each rule and group | `evaluate` | called by the worker |
| Alert domain (`alerts/lifecycle.py`, `suppression.py`, `escalation.py`) | none | transition table, two policies | used by the manager |
| Alert manager (`alerts/manager.py`, `service.py`) | alerts, deduplication index, audit lists | create, merge, escalate, transition, assign | saves in tasks nobody awaits |
| Alert API (`api/routes/alerts.py`, `api/dependencies.py`) | a manager for each request | transition, assign | reads and writes the same documents |
| Incidents (`incidents/`, `storage/opensearch/incidents.py`) | incident, note, evidence, audit and timeline documents; the application's manager | create, update, assign, transition, add notes and evidence, promote | alerts name incidents, own indices |
| Accounts (`auth/authentication.py`, `user_management.py`, `adapters.py`, `sessions.py`) | users, roles, failed attempts, sessions | login, logout, revoke, create, change role, enable, disable, lock, unlock, reset, delete | one PostgreSQL transaction for each request |
| Realtime (`api/websocket/`) | connections with permissions and channels, a lock, the bridge task and its subscription | connect, authenticate, subscribe, publish, disconnect | Redis channel, tokens in PostgreSQL |
| Audit, MITRE, threat intelligence, risk, assets, parsing | catalogues and records | lookups, imports, text processing | requests; parsing by the worker |

What makes this system hard:

* **Saves overtake each other.** `AlertManager` is synchronous. Each change
  schedules a task that writes the whole alert, without a version.
* **Three kinds of copy of an alert**: in the worker, in a request, in the
  store. The worker never reads the store.
* **Everything the worker knows is memory.** Suppression entries, windows,
  alerts, index and dead letters end with the process; so does the event in
  hand, which BLPOP has already taken from the list.
* **Retries repeat a function with effects.** An attempt may fail after it has
  entered suppression, counted occurrences or consumed a window.
* **Policy failures look like dependency failures.** An illegal transition
  raises in the middle of a batch.
* **Shutdown** waits for a pop without a timeout (worker) and for connections it
  would close itself (collector).
* **A request on an incident is a series of writes**, to documents another
  request has read or is about to replace, and nothing undoes the first ones.
* **Transactions decide on what they have read** and update what has been
  committed since; an HTTP error rolls back what was done to report it.
* **A publish sends without the lock** under which it has chosen whom to send to.

For each part, what makes it correct: the manager keeps one alert for a key, an
audit history that replays to the status, and the policies applied to the present
count; the store is never ahead of the worker; the worker loses no event but one
that Redis has removed for it, by a crash or a failing read, and counts a rule once; detection spaces repeated passes by the lifetime;
correlation reports what the definition of a pattern says and uses an evaluation as evidence once;
the collector forwards a prefix of what each client sent; incidents go through
their lifecycle step by step and their trail tells what they went through; a user
who may not log in has no session and one administrator is left; a connection is
sent all it may see, in order, and nothing else.

## Modules

| Module | Models | Built on |
|---|---|---|
| `AlertLifecycle` | transition table, suppression and escalation policy, what an operation does to one alert (constant operators) | |
| `AlertRegister` | what alert management promises: one case per key (abstract) | `AlertLifecycle` |
| `AlertManager` | one manager: alerts, index, audit | `AlertLifecycle`, refines `AlertRegister` |
| `AlertSystem` | worker, store, saves in flight, requests, restarts | `AlertLifecycle` |
| `EventDelivery` | what the worker promises: events in order, each at most once (abstract) | |
| `IngestionWorker` | queue, attempts, retries, dead letters, detection results, alerts, correlation, shutdown, crash | `AlertLifecycle`, refines `EventDelivery` |
| `DetectionEngine` | suppression guard, rules, plugins, clock | |
| `CorrelationEngine` | windows, threshold and sequence rules | |
| `Collector` | clients, handlers, buffer, forwarder, shutdown | |
| `Incidents` | requests, their writes, incident documents and records, promotion, restart | |
| `Accounts` | transactions of logins and user management, rows, row locks, sessions | |
| `Realtime` | subscription, bridge, connection manager, connection handlers | |
| `*Proofs` | theorems about the module they are named after | that module, TLAPS |
| `EnginesProofs` | theorems about `DetectionEngine` and `CorrelationEngine`; it extends both, hence the prefixes in the former | both, TLAPS |
| `MC*` | instances for TLC | |

### Correspondence with the code

**Atomicity.** All processes are asyncio programs. What runs between two awaits
is one action; an await that may fail is a step with a success and a failure.
`AlertManager`, `DetectionEngine.evaluate` and `CorrelationEngine.evaluate` have
no await, so each call is one action. PostgreSQL runs at READ COMMITTED: a
statement sees what is committed when it begins, and an update waits for the
lock of its row.

**AlertLifecycle / AlertManager.** An alert is `[key, status, count, assignee]`.
Severity, risk score and priority are functions of the key: both adapters derive
them from the rule, every rule has one severity, and the deduplication key names
the rule. `MergeDuplicate` is `_merge_duplicate` with the suppression that
follows it; `EvaluateEscalation` makes its one or two transitions at once.
`SuppressionRaises` says when the transition to SUPPRESSED raises: the
occurrence has been recorded then, and the caller sees an exception.

**AlertSystem.** The work on an event is a record of what it changes. `Created`
is `create` for one result after the other, `Escalated` the `evaluate_escalation`
of the alerts returned; `HandleBatch` does both for the detections and then for
the correlations, and stops where the code would raise. `WorkerHandles` is all of it,
one action because there is no await. Each change adds a save (owner, identifier, whole
alert) to a set; `SaveLands` takes any of them. A request loads the
document, applies the change to it, is answered, and closes its client, with
which its own save may be lost. The history variables `run`, `born` and `skipped`
record what the properties speak of and guard only bounds.

**IngestionWorker.** `phase` is the await the worker is at. A `get` has two steps:
Redis removes the event (`Take`), and the reply arrives and is decoded
(`GetReturns`). `GetFails` is an exception of `get` before or after the removal, a
lost reply or a payload it refuses (`ingestion/queues/redis.py:93-133`); none is
inside the `try` of `process_one`, so the worker logs it and goes on (`dropped`). `Parse`, `SaveEvent`,
`PublishAndDetect` and `PersistResult` are the stretches of `_process_event`;
the last one includes alerts and correlation, which follow without an await.
`CallFails` is an exception of the awaited call, `DetectionRaises` one of
`DetectionEngine.evaluate`, after the rules have been entered. Dead-lettering is one step with
the failure that exhausts the attempts, because the in-memory queue does not
wait. Alerts are kept as `AlertRegister` keeps them, one for each key. One
threshold rule with one group stands for correlation here; `CorrelationEngine`
has the rest. `EntryExpires` lets a suppression entry outlive its 60 seconds
while its event is still being attempted; `slow` remembers the events it has
happened to. A start whose dependencies are not up ends like a crash before the
first pop and is not a step of its own.

**DetectionEngine.** `now` is the clock the guard reads. The plugins of an
evaluation are given an outcome each; `invalid` is a result that does not
validate, which ends the evaluation: the rule results that would have passed are
then `withheld`.

**CorrelationEngine.** Conditions are sets of event kinds. Timestamps are
arbitrary: events arrive in any order of time. `EvaluateNext` is the first
evaluation of an event, `EvaluateAgain` that of a retry: after an evaluation only
the alerts of its matches can raise, so that it follows a match
(`ingestion/worker.py:783-885` under `ingestion/pipeline.py:84`). `turn` numbers the
evaluations of one event; `MaxTurns` bounds them as the attempts do.

**Collector.** A line fits, is skipped (blank, or over the limit by its newline
only) or is longer than the limit of the stream. `Disconnect` closes or resets.
`FinishClose` is the return of `wait_closed` of Python 3.12 and later, which
waits for the connections (`Attached`), with the cancellation of the handlers
that are left.

**Incidents.** A request has read its incident and computed the new one on a
manager of its own before it awaits the first write, so that is one action
(`Submit`); `PersistIncident`, `PersistNote`, `PersistEvidence`, `PersistAudit`
and `PersistTimeline` are the writes it then awaits, in this order, and
`RequestFails` the exception of any of them. Documents are the whole incident;
records and entries are sets, because each has an identifier of its own that
nothing depends on. `documents` is what a read by identifier sees, `searchable`
what a search finds, which lags behind until `Refresh`. `PromoteAlert` works on
`memory`, the application's manager; it has no persister.

**Accounts.** An operation reads (`Login`, `Manage`), may count administrators
(`CountAdmins`), updates the row (`UpdateUser`, `RecordSuccessfulLogin`,
`RecordFailedLogin`, each waiting for the row's lock), revokes sessions and
commits. `row`, `ended` and `session` of a request are what it has written and
not committed; `RowLocked` says who waits for it. The DELETE and INSERT of
`set_role` are split where another commit can come between the snapshot of the
first and its lock (`BeginReplace`). A refused login is an HTTP exception, on which `get_db_session`
rolls back (`RejectLogin`). Passwords are numbered; sessions note the one they
were opened with.

**Realtime.** `Forward` is the bridge taking a message and the manager noting
its recipients under the lock; `SendTo` one `send_json`, in the order of
registration, which waits while the peer does not read (`stalled`); `DropStale` the
removal of one whose send failed, under the lock again. `Connect` takes the lock
and begins one of the two awaits it is held across: the accept, which ends in
`Accepted`, or the close of a connection beyond the limit, which ends in `Refused`. A handler goes from `open`
to `authenticating` and back, or to `closing`, from where its `finally` removes
the connection. `alive` is whether the socket still takes a message; what a
handler has received before its peer left is not processed any more, which only
makes it end sooner. Histories of a closed socket are dropped.

## Runs

Each run checks the properties of its configuration; `expect` in `PROJECT.json`
says whether TLC passes or finds a counterexample. The latter state what a
document or comment of the repository says and the code does not do.

| Run | Question | Bounds |
|---|---|---|
| `alert_manager` | index, policies, audit, refinement | 3 keys (medium, high, high), 2 alerts, threshold 2, 3 occurrences, 5 audit entries |
| `alert_system` | copies of an alert, duplicates in the store, batches that raise | 3 rules, events with 1 or 2 results, 2 alerts, 3 occurrences, 1 worker save in flight when an event arrives, 2 incarnations, 1 request, failing store |
| `ingestion_worker` | loss, duplication, order and counting of events, settling, shutdown, refinement | 2 logins and a malformed line, 3 attempts, 2 failing calls or reads, 1 crash, expiring entries, fairness |
| `lost_alert` | documented, not so | 2 events, 3 attempts, 1 failing call |
| `correlation_engine` | soundness, completeness, consumption | the 2 rules of the repository, threshold 2, window of 1, times 0..2, 4 evaluations, up to 3 of one event, 2 groups |
| `detection_engine` | guard | 2 rules, 2 events, 1 plugin with every outcome, lifetime 2, times 0..5 |
| `collector` | order, completeness, forwarding, shutdown | 2 clients with 2 lines, buffer of 1, 1 failing push, fairness |
| `incidents` | lifecycle, audit trail, timeline and lost updates under failing writes | 1 incident, 2 requests at a time out of 4, 3 kinds of PATCH |
| `promotion` | documented, not so | as above |
| `accounts` | sessions, last administrator, roles, passwords under concurrent transactions | 2 administrators and 1 user to create, 2 roles, 2 sessions, 2 passwords, 2 transactions at a time out of 4 |
| `lockout` | documented, not so | as above with a threshold of 2 failures |
| `realtime` | limit, permissions, order and completeness, progress of the bridge | 3 connections for 2 places, 2 messages, users with and without the channel, fairness |

**Why the bounds are enough.** Threshold 2 instead of 10 keeps the three
regions that the policy tells apart: below, at and above it (3 occurrences).
Two audit-relevant actors on one alert already overtake each other; a second
alert adds what batches and the index do. Three attempts have a first, a
middle and a last. Time 0..2 with a window of 1 has inside, at the end and
outside, and late events. A buffer of 1 is full as soon as it is used. Two
overlapping requests of four on one incident or user see every order of reads,
writes and commits of two operations, after two others have made the state they
meet; `Incidents` has no property about two incidents. Two administrators are
the least of whom each can remove the other. Three connections for two places
have one too many, and a place that becomes free while one is accepted; two
messages have an order. Symmetry is declared for identifiers, users and
requests, and in no run with liveness.

**Deadlock** is checked where the program does not stop: `incidents` and
`accounts`, whose requests always end and can be followed by another step.
Elsewhere (`CHECK_DEADLOCK FALSE`) the instance has finitely many events,
occurrences or messages and stops when they are used up. Where waiting for ever
would be a defect, a liveness property says so.

**Fairness.** `IngestionWorker!FairSpec`: weak fairness of the worker's step
(one task on one loop: it runs when it can), of `Take` (Redis answers when the
list is not empty) and of the restart (the deployment restarts the container).
Failing calls and reads, crashes, enqueues and stop requests are not fair.
`Collector!FairSpec`: weak fairness of each task; strong fairness of a
handler's put, because putters of an `asyncio.Queue` are woken in order, so none
is overtaken for ever. Clients and the operator are not fair.
`Realtime!Fairness`: weak fairness of the bridge's task and of the end of an
accept or refusal, which is the first thing written to its socket; strong fairness
of the sends, because a task that waits for room in a socket is woken once the peer
reads, if only now and then. A peer that is there and does not read is not
fair: nothing in the code closes it, and the send has no timeout. Nobody has to
connect, subscribe, publish, read or leave, and no handler has to get through
an answer to its peer.

### What the runs show

The structure holds: with whatever interleaving, the manager keeps its index,
policies and audit consistent; saves never put the store ahead of the worker;
the worker takes events in the order in which they were sent, and only a crash or a
failing read loses one; suppression makes rule results safe to
retry while its entries last; the incremental correlation agrees with the
definition, also when a retry evaluates an event again; no incident skips a status and no audit entry tells of a change that
was not stored; a login in progress never outlives the disabling of its account;
the connection limit holds across the accept, and a publish neither leaks nor
loses a message when its recipients change under it.

Three runs expect a counterexample:

* `lost_alert`: the suppression entry is made before the results are saved; when
  the save fails, the retry finds its own results suppressed and raises no alert.
* `promotion`: the promotion of an alert works on the application's manager,
  which was built without persistence. The request is answered 201 and the
  incident is in no index (`api/dependencies.py:286`).
* `lockout`: the failed attempt is recorded in the transaction that the refusal
  of the login rolls back (`api/dependencies.py:721`): no account is ever locked
  by failures.

Other behaviours the models have, that a reader of the documents may not expect:

* From ESCALATED, where a high severity alert is as soon as it is created, the
  lifecycle refuses SUPPRESSED: from the threshold on each occurrence raises,
  after it has been counted (`alerts/manager.py:318-344`, `SuppressionRaises`).
  `EscalatedUnlessSkipped` says what it does to the rest of a batch. It also ends
  the attempt before correlation, on every attempt, although
  `ingestion/worker.py:791-792` says "Correlation always runs independently from
  Detection".
* `docs/architecture/data-flow.md:75-79` has a queue that preserves the work of a
  failing worker. `BLPOP` removes an event before it is processed
  (`ingestion/queues/redis.py:72`) and nothing puts it back: a worker that crashes takes the event
  in hand with it, and a `get` that raises after the removal drops the event, without a
  letter, while the worker goes on. `LossesAccounted` counts both.
* Retries count plugin and correlation results again, so `RuleCountedOnce` is about
  rules. A retry after the alert of a match has raised evaluates its event on the
  window that comes next, although `correlation/engine.py:142-144` consumes a window
  so that evidence is used once: the event is evidence of both.
  `EvidenceConsumed` says that nothing else makes it so.
* `detection/engine.py:226-228` promises that a broken plugin does not affect the
  rules. What a plugin returned is validated outside its guard (`:254`): an
  invalid result ends the evaluation after the rules have been entered, and the
  next evaluation of the event suppresses rule results that nobody was returned.
  `SuppressedPassedBefore` holds because it counts them (`withheld`).
* `docs/phase-12-incident-management.md:35` has transitions from CONTAINED and from
  RESOLVED back to INVESTIGATING, "for controlled recovery/reopening". The
  table of the code (`incidents/lifecycle.py:31-56`) leads from CONTAINED to RESOLVED
  and from RESOLVED to CLOSED only: no incident can be reopened. `LostOnlyByOverlap`
  rests on it.
* `docs/api/phase-15-api-streaming.md:38` says that the connection manager isolates
  failed clients. A client that fails is dropped; one that is there and does not read
  is not, and `send_json` is awaited without a timeout (`api/websocket/manager.py:199`):
  it keeps this message and all later ones from everybody for as long as it stays
  (`Blocked`, which `BridgeGoesOn` names as the one obstacle).
* Saves of one alert overtake each other, and a request may be answered though
  its save is lost (`alerts/manager.py:682`, `api/dependencies.py:615`):
  `CopiesNeverAhead` and `SuppressionEarned` are what is left of order. The save
  of a request that has read NEW may land after the worker has suppressed the
  alert, and puts ACKNOWLEDGED over SUPPRESSED in the store.
* A restarted worker does not load alerts and makes second ones for their keys
  (`OneStoredAlertPerKeyAndRun`).
* A failing push ends the forwarder for good (`SentLinesForwarded`). For a line
  over the limit of the stream the handler waits for an exception `readline` does
  not raise, so that it ends with everything the client had still to be read
  (`ingestion/collectors/tcp.py:169-171`).
* A worker that waits for an event, and a collector that has clients, do not
  stop when told to (`StopEndsWorkerUnlessIdle`, `CloseEndsOnceClientsLeave`).
* Of two overlapping requests on an incident the later write takes back what
  the other changed (`LostOnlyByOverlap`), its status included. Evidence that a
  request before has recorded is never found to be a duplicate
  (`incidents/evidence.py:67`).
* Two overlapping requests remove the last two administrators
  (`AdminLostOnlyByOverlap`); `set_locked` does not ask for another one at all
  (`auth/user_management.py:1185`). Two that set the role of one user leave it
  both (`RolesDoubledOnlyByOverlap`). A login that has verified a password keeps
  its session through a reset that overtakes it (`OldPasswordOnlyByOverlap`).
* `api/routes/auth.py:520` and `:602` call methods of `AuthenticationService`
  that it does not define: changing one's own profile or password always fails,
  and is therefore no operation of `Accounts`.
* A session that ends, or a role that changes, does not reach a socket that is
  already authenticated: `StreamPermitted` speaks of what some authentication of
  the connection allowed. A bridge that has ended is not started again while the
  application runs (`api/websocket/bridge.py:86`).

Each property of a passing run has a mutant: a definition beside the one it
replaces, with a plausible mistake, under which TLC finds the property violated.

## Proofs

TLC checks the small instances above; the theorems hold for all keys,
severities, identifiers, thresholds, rules, requests, connections and bounds that
the assumptions of the modules admit.

**`AlertManagerProofs`.** `TypeOK` is inductive. `OneAlertPerKey` is inductive
with it because it states the agreement of index and alerts in both directions:
that a key has one alert needs every alert to be the indexed one.
`NoNoisyNewAlert` follows from what the suppression step returns
(`AfterSuppressionFacts`), for operations that change the count, and from the
status for those that do not. `AuditReplaysStatus` is inductive relative to
types and index; its lemmas say what appending one, or the two entries of an
escalation, does to a chain. `FinalAndImmutable` is an action property: no edge
of the table leaves SUPPRESSED or CLOSED and `Apply` appends.
`ManagerImplementsRegister` maps the index and the alerts to the register; every
step is a step of one key of the register or a stutter, for which the index has
to be one to one.

**`AlertSystemProofs`.** Types, and the four invariants of the run. A worker keeps an alert
that is ahead of every copy, so `CopiesNeverAhead` and `SuppressionEarned` need to
say of each copy in the store, in a save or in a request that its alert was
created, that its count is not above the worker's, and that the policy accounts
for its status, at most one occurrence late (`CopyInv`); the alert in memory itself is
never late between two events (`QuietInv`). `OneStoredAlertPerKeyAndRun` follows
from the keys of the copies (`KeyInv`), which stay apart because the index leads to
every alert in memory (`Indexed`). The step that takes work is `WorkerHandles`.
`Good(w0, R)` is the set of what the work on a batch can have become since it
began as `w0`: index consistent, identifiers enough for the keys without an alert,
alerts grown and no save ahead of them, and whoever is due for escalation among
the alerts of the batch. One occurrence keeps it (`OccurGood`), hence so do any number
(`CreatedGood`); the escalation of a batch leaves nobody due (`EscalatedGood`),
unless an exception has ended it, which is what `skipped` records.

**`EnginesProofs`, detection.** The invariant that carries `RepeatsAreSpaced` and
`SuppressedPassedBefore` relates the entries to the results that passed: every
entry comes a lifetime before it expires from a pass, or from one that the evaluation
of a broken plugin found and withheld (`EntriesPassed`), and every pass of the
last lifetime has its entry (`PassesEntered`). Neither assumes anything of plugins.

**`EnginesProofs`, correlation.** `EvidenceConsumed` is not inductive: it compares
what windows and matches hold as sequences, and a window with the same sequence
as a match would pass it and violate it one event later. `EvidenceApart` tells
windows and matches apart by what they are, and adds that what they hold was
evaluated before and is held once (`EvidenceSeen`); evaluations are numbered by
event and turn, and two of one event differ by a retry after a match
(`Numbered`), which is what `EvidenceConsumed` allows. What a rule fires on plays no part
there. It does in `MatchesAreSound` and `NoPatternPending`, which say that the
engine agrees with the definition of a pattern (`Pattern`), as `SoundInv` does for every
open window. For a sequence rule this is that a greedy scan finds the conditions in
order if and only if they are there (`SequenceFindsPattern`): whatever places
satisfy the first conditions, the scan is not behind them. For a threshold rule it is
a bound on the number of matching events (`ThresholdFindsPattern`).

**`IngestionWorkerProofs`.** `LossesAccounted` needs to know that Redis has removed
an event for the worker exactly from `Take` to the end of the last attempt
(`InHandWhileHeld`), and that what has not been sent is nowhere else. Whatever
rules, plugins, policies and correlation find, an attempt moves no event, or
settles the one in hand (`Settled`); a crash, or a failing get, adds at most
that one to the lost. `ImplementsDelivery` maps list, hand and attempt to
themselves and the outcome of an event to its fate, or to "lost" where it has
vanished: every step is one of `EventDelivery` or a stutter, because only what
Redis has removed for the worker can vanish, and only the last attempt, which
`attempt` counts without a gap (`AttemptsCounted`), is followed by a letter.
`RulesCountOnce` is about what one attempt leaves to the next. As long as the
entries of an event live, a rule result that is not suppressed belongs to a key
the event has not been counted for (`FoundGuarded`), and one that has been counted
has its entry (`CountedGuarded`); an event that is not in hand and still to be handled has
counted nowhere (`ToCome`). Within an attempt a key is counted once because no two
rules have one identifier (`KeyAssumption`, which `detection/registry.py:73`
enforces).

**`CollectorProofs`.** Types, with the size of the buffer; a handler that puts and
a forwarder that pushes have an event in hand (`HoldsEvent`). `PrefixReachesRedis`
is a statement about four places at once, list, forwarder, buffer and socket.
`LineUpInv` says that the socket of a client has the lines after the `Read(c)`-th
(`SocketInv`), that what is past the handler comes before (`PassedInv`) and in turn from
list to buffer (`OrderInv`), and that nothing that fits is missing in between as
long as the forwarder works (`GapInv`). When it fails, the list keeps what it has,
which has no gap either.

**`IncidentsProofs`.** `NoStatusSkipped` is about stored documents, and a request
writes what it computed from an older one: the invariant says of every document
that waits that the status before its own was stored (`WaitingIsNext`), which no
later write takes away because `reached` only grows. `AuditFollowsStore` needs
the entries a request has still to write to be covered by what its document will
have stored when they are written (`WaitingIsCovered`). The converse,
`StatusesAudited`, needs a request that brings a new status to bring its entry
(`NewStatusRecorded`) and to keep it until it is written or the incident is counted
as broken (`TrailInv`). `LostOnlyByOverlap` needs that a request that runs alone
writes a successor of what is stored when it writes, not only of what it has read:
`RequestsFollow` says so for each phase of a request, and `OneAtATime` that nobody
else writes meanwhile.

**`AccountsProofs`.** A transaction that has written the row of a user excludes
all others from it (`Exclusive`); hence what it has computed from the committed
row still holds when it commits (`RowOK`, `KeepsOK`). `SessionsOK` adds that the
sessions that will outlive the commit fit the row, `LoginOK` that the session a
login creates belongs to a usable row it holds, and `RemovalOK` that who removes
an administrator had seen another. The four safety invariants of the run follow,
together, because each commit preserves them.

**`RealtimeProofs`.** The lock belongs to the connection that is being accepted or
refused (`LockHeld`), so at most one is accepted, and there was room when it was
counted: `WithinLimit`. Channels are within permissions and, while the socket lives,
permissions within what was granted (`ChannelsAllowed`); noted recipients had
that when they were noted, and no connection accepted later is among them
(`TargetsAllowed`): `StreamPermitted`. Order is that of the inbox: what was sent
is older than the current message where that is still to be sent, and the current
one older than those that wait (`ReceivedOlder`, `InboxOrdered`).

**Recursion.** What the worker does for one result after another, and the scan of
a sequence rule, are recursive functions of a natural number. Each module that
needs it derives from the well-foundedness of `<` that such a function exists
and has the value its definition says (`Recursion`), and that a set with 0 and all
successors has all numbers (`NatInd`); inductions are proofs that a set of numbers
is such a set. They are lemmas on sets, not on operators, which the provers
could not instantiate.

**Only model-checked.** The five liveness properties: `QueuedEventsSettle` and
`StopEndsWorkerUnlessIdle`, `SentLinesForwarded` and `CloseEndsOnceClientsLeave`,
`BridgeGoesOn`. Fairness is about ENABLED, which is out of the
prover's reach. Every invariant, action property and refinement of a passing run
has its theorem. The type invariants of `AlertSystem`, `Collector` and `Realtime`
are theorems and in no run.

## Not modelled

Parsing, MITRE, threat intelligence, risk, assets, audit queries, configuration
and the frontend are pure computation, presentation or records of one step (see
`PROJECT.json`). Of what is modelled: metrics, audit documents of alerts and
accounts, search and statistics methods of the repositories, profiles and the
force-password-change flag of users, pings and answers of sockets are left out.
The `submit` of the pipeline, its backpressure policy, and `cleanup` of the
suppression guard are not called in production.

## Plan

Done, in this order: `AlertLifecycle`, `AlertManager`, `AlertSystem`,
`IngestionWorker`, `CorrelationEngine`, `DetectionEngine`, `Collector`,
`Incidents`, `Accounts`, `Realtime`, `EventDelivery`, and the proofs above. What
would come next:

1. An abstract line that `Collector` implements, as `IngestionWorker` does
   `EventDelivery`, and the composition of the two over one list: each line sent is
   handled at most once and in its client's order.
2. An abstract incident of which documents, trail and timeline are views, with
   `Incidents` as its refinement where no requests overlap.
3. Audit and MITRE imports, should they come to be changed by several requests.
