# axis-control in TLA+

A TLA+ model of axis-control: the control plane (`packages/control`), the agent
on each worker (`packages/agent`), the wire protocol they share
(`packages/shared`) and the way both use NATS and PostgreSQL. TLC checks the
model on small instances, TLAPS proves the main safety properties for every
value of the constants. Paths below are relative to the root of the repository;
`control/` and `agent/` stand for `packages/control/src/axis_control/` and
`packages/agent/src/axis_agent/`.

## 1. The system

An operator sends `POST /api/instances/{id}/commands` (disable or enable) to
the control plane. The control plane saves the command as `pending`, publishes
it on `commands.<id>` as a NATS request, and answers 202 with a delivery hint.
The agent of that worker runs `docker compose stop` or `start` and publishes
the outcome on `status.<id>`. The control plane verifies the agent token of the
report, makes the command terminal and, if it completed, sets the instance's
`workload_state`. A sweeper fails the commands nobody answered in time.
Agents get their id and token by `POST /api/instances`, keep them in a file, and
publish heartbeats from which the control plane derives `reachability`.

| Component | State it keeps | Operations | Talks to |
|---|---|---|---|
| Command dispatch (`control/services/command_dispatcher.py`, `adapters/nats_publisher.py`, `api/commands.py`) | per request, in memory: where it stands | look up token, save, publish, wait for the probe, answer | store, broker |
| Status handling (`services/status_handler.py`, `adapters/nats_subscriber.py`) | the report being handled | verify, complete the command, flip the workload state | broker, store |
| Timeout sweeper (`services/command_sweeper.py`) | none; one loop | fail all pending commands older than the timeout | store |
| Store (`adapters/postgres.py`, `domain/models.py`) | tables projects, instances, commands | one SQL statement each | |
| Control-plane process (`control/main.py`) | which subscriptions and tasks run | start in order, shut down, reconnect | all of the above |
| Agent, commands (`agent/agent.py`, `runners.py`) | the command it runs; the compose stack | receive, check the token, run, report | broker, docker |
| Agent, identity (`registration.py`, `control_plane.py`, `identity.py`) | `instance.json` and `.tmp`, the attempt | override, load, register with retries, save, reset | HTTP, file system |
| Registration service (`services/registration.py`, `api/instances.py`) | none; three statements | find or create the project, insert the instance | store |
| Heartbeats (`agent/heartbeat.py`, `adapters/nats_heartbeat.py`) | the loop's timer; `last_heartbeat_at` | publish, receive, record, derive reachability | broker, store |
| NATS and nats-py | connections, subscriptions, queues | route, answer 503, reconnect | external |
| Schema migration (`control/schema.py`) | the columns of a database of any version | one block of DDL at every start | store |
| Backup job (`packages/backup/backup.sh`) | local buffer, snapshots on the vmsingle volume, bucket | dump, snapshot, tar, delete, upload, trim, by crond or an operator | store, vmsingle, S3 |

What makes it hard:

* **Interleaving.** Both processes are single event loops, but every `await` is
  a point where any other coroutine runs: a request between its INSERT and its
  publish, a report between its two UPDATEs, the sweeper beside both.
* **At-most-once delivery.** Core NATS drops what nobody is subscribed to, a
  broken link loses what was in a buffer, and the publisher cannot tell a
  delivered command from a lost one. Nothing is retransmitted.
* **Crashes.** Only PostgreSQL and `instance.json` survive. A process can end
  between any two steps, and an acknowledged effect may lose its reply.
* **Time.** A timeout races a late answer, a probe timeout races the broker's
  503, a stale window races a lost heartbeat, a sweep races the next one.
* **Half-done work.** A backup cycle fails between any two commands, and another
  one runs beside it; a database may come from any version or any dump.

What makes each component correct, in short: a row exists before its message;
nothing is executed twice; a terminal status is final and earned; the workload
state follows completed commands only, and ends where the worker ended; every
command and every request ends; an identity in use is registered; one project
row per name; orphaned rows only from faults, and one live identity per agent; a
living agent is never shown as offline for one lost beat and a dead one does not
stay online; a silent command is given up in time, never before; what is backed
up can be restored; an upgrade keeps the operator's intent. PROJECT.json lists
the hazards behind these, each at its line.

## 2. Modules

    Protocol -- CommandStore --\
         \                      ControlPlane --\
          \---- Broker --------/                CommandLoop -- MCCommandLoop
                        \------ Agent ---------/    |     \--- CommandLoopProofs
                                                    |                 |
    Protocol -- CommandLedger <-- (refinement) -----/         CommandLoopSafety
                                                                      |
                                                             CommandLedgerProofs

    Enrolment <-- (refinement) -- Registration -- MCRegistration
                                            \--- RegistrationProofs

    SweeperTiming -- SweeperProofs            Heartbeat -- HeartbeatProofs

    Backup -- BackupProofs                    SchemaMigration -- SchemaMigrationProofs

| Module | Models | State and actions |
|---|---|---|
| `Protocol` | `axis_shared/protocol.py`, `verify_agent_token` | constants, messages, enumerations |
| `CommandStore` | the statements on `commands` and the workload update | `status`, `failure_reason`, `workload`; one operator per SQL statement, so a WHERE clause and its UPDATE are one step |
| `Broker` | NATS as the code uses it (external) | connections `linked`, `subscribed`; FIFO queues `ctlOut`, `inbox`, `agentOut`, `reports`; the 503s under way `unheard`. Routing, detaching (with loss from a buffer), reattaching |
| `Agent` | `agent.py`, `runners.py` | `running`, `stack` (the real compose stack), `outcome`; start, receive, compose succeeds or fails, stop, reconnect |
| `ControlPlane` | dispatcher, status handler, sweeper, `main.py` | `phase` (start-up order), `orders`, `dispatch` (one program counter per request), `overdue`, `flipping` (between the two UPDATEs). A step ends where the code awaits |
| `CommandLoop` | the composition, its faults, fairness and properties | `faultsLeft` bounds the faults |
| `CommandLedger` | the abstract promise to an operator | accept, complete-and-flip in one step, fail, time out a set |
| `Registration` | agent start-up against the registration endpoint | `proc`, `attempt`, `awaited`, `used`, `tmp`, `disk` on the agent; `handler`, `found`, `project`, `row` on the control plane |
| `Enrolment` | the abstract promise about identities | `state` and `owner` of an identity: make, hold, lose |
| `SweeperTiming` | the sweeper's loop and its UPDATE, in discrete time | `wake`, `stamp` (the `now` of the sweep under way), `fails`, `status`, `issued`, `saved`; start, wake, return or raise, stop, and the rows' INSERTs and reports in between |
| `Backup` | `backup.sh` under `set -e` and `pipefail` | `step[r]`: the command each of two runners executes; `local`, `snapshots`, `bucket`; a command succeeds, fails with some effect, or dies with its container |
| `SchemaMigration` | `SCHEMA_DDL`, and what changes rows between two starts | `columns`, `status`, `workload`, `token`, `dump`; start, stop, register, update, dump, restore; `intent` is a history variable |
| `Heartbeat` | publisher, subscriber, `reachability_of`, in discrete time | `now`, `alive`, `born`, `died`, `due`, `missed`, `flight`, `stamp`, `last` |

Abstractions. Ids are numbers: a command is its position in the order of issue,
an instance row the number of the call that made it, and its token is known by
the same number. `Expire` makes commands overdue oldest first, because
`issued_at` grows with the order of issue. Message texts, logging, the payloads'
formats and messages that do not parse (dropped before any state change) are
left out. `GET` requests change nothing and are not actions. A compose run that
raised leaves the stack in an unknown state. `RowToken` and `AgentToken` are
constants of the command loop: registration makes them agree
(`IdentityIsRegistered`), an agent in override mode has `NoToken`. In
`Registration` the bootstrap secret matches; with a wrong one each call ends in
a 401 that changes nothing. `Crash` is a crash of the process; a power failure
that loses a renamed file (the code does not call fsync) is not modelled.
`SweeperTiming` repeats the sweeper of `ControlPlane` with clocks and without
messages; there `Expire` stands for the clock. `MaxDelay` bounds how late a
coroutine runs and how long a statement takes, and an UPDATE may or may not see
a row that commits while it runs. In `Backup` crond does not overlap itself
(busybox's does not), a cycle is shorter than a day (`SettingsAssumption`), and two
cycles do not begin in the same second, which names their files; a file is whole
when the command that wrote it ran to its end. In `SchemaMigration` the block is
one step, since asyncpg sends a query without arguments as one implicit
transaction; that is also why no version has both the old and the new column, so
that the condition `workload_state IS NULL` of its UPDATE is true of every row it
meets. A restore replaces the tables that are in the dump: a dump without tables
changes nothing. It takes `intent` back with the data. The sweeper of the command
loop runs as soon as the subscriptions stand, before HTTP is served, as in
`main.py:77`.

## 3. Runs

Every passing run has a mutant of the code for each of its properties, listed in
PROJECT.json: TLC finds the property violated when, say, the WHERE clause drops
`status = 'pending'` or the publisher retries after a timeout. The mutated forms
stand beside the definitions they replace, with a comment.

| Run | Question | Bounds |
|---|---|---|
| `commandloop_faults` | Is the loop safe under faults? | 2 workers (one in override mode), 2 commands, any 2 faults |
| `commandloop_ledger` | Does it implement `CommandLedger`, and does the workload state follow the worker? | 1 worker, 2 commands, 3 faults, none between the two UPDATEs of a report |
| `commandloop_liveness` | Does every command settle and every request end? | 1 worker, 2 commands, 1 fault, fair control plane |
| `registration` | Do identities hold under crashes, lost replies and races, and does the registration implement `Enrolment`? | 2 agents of one new project (symmetric) and 1 override agent, 2 attempts each, 4 calls, 2 faults, 1 reset |
| `registration_liveness` | Does every agent come up, also when two create their project at the same time? | 2 registering agents, 2 attempts each, 4 calls, 2 faults |
| `heartbeat` | Is `(lost + 1) * (interval + jitter) + delay` enough as a stale window, and are births and deaths noticed? | the default settings, 10 s and 30 s, in units of 2.5 s: jitter 1, delay 2, 1 lost beat, 32 units, 2 lives |
| `sweeper` | Is a silent command given up in bounded time, and never early? | 1 command, timeout 2, interval 1, delay 3, 1 failing sweep in a row, 25 units, 2 lives |
| `backup` | Do bucket and buffer stay restorable, whatever fails or overlaps? | 3 days of 2 units, retention 0, 4 cycles, 1 of them manual, 2 faults |
| `schema_migration` | Does the block fit any earlier database, and keep what was last set in its history? | 2 instances, all 6 versions, any number of starts, writes, dumps and restores |
| `commandloop_flip_lost` | Can a completed command miss its flip? (yes) | 1 worker, 1 command, 1 fault |
| `commandloop_override_agent` | Does an override agent run commands? (no) | 1 worker, 1 command, no fault |
| `commandloop_delivered_now` | Does `delivered_now` mean that the command reached anyone? (no) | 1 worker, 1 command, 1 fault |

Why the bounds are enough to be interesting. Two commands are what it takes to
overtake one another, to be timed out together, and to leave the workload state
to the wrong one of them. Two faults cover a lost message together with a crash,
or a crash of each side. The faults are: either process stops at any step, either
link breaks and loses any part of its buffers, any SQL statement raises
(with or without having taken effect), the publish raises. In `registration`,
four calls are two attempts for each agent, or for one of them two lost ones, a
success, and one more after a reset; two attempts make the last attempt, the retry
and the process that gives up happen. In `registration_liveness` the calls are as
many as the agents and the faults together, so the bound never stops an agent; the
two race each other, and their own lost requests, for the row of the project.
In `heartbeat` 32 units hold a life, a death
that is noticed, and a second life; the stale window is exactly the bound, so
that an excluded boundary is found, and the run shows what the default settings
tolerate: one lost beat, and jitter and delay of 2.5 s and 5 s. In `sweeper` 25
units hold the latest moment `TimelyTimeout` allows, with a command that one
sweep just misses, one that raises, and a restart. The delay is longer than the
timeout, so that a row can be overdue when its INSERT commits, while the UPDATE of
a sweep is under way that may miss it: with `Due` defined without `saved`, TLC finds
`TimelyTimeout` violated. Commands do not touch each other's rows in this module, so
one is enough; the theorems are about any set. In `backup` the retention of
0 days is the strictest, and makes every file of the first day expire before the
third; two faults are a failed cycle on each side of a successful one. The
states of `schema_migration` are finite without a bound.

Bounds in the modules: `MaxCommands`, `MaxFaults` (CommandLoop); `MaxCalls`,
`MaxFaults`, `MaxResets` (Registration); `MaxTime`, `MaxStarts` (Heartbeat and
SweeperTiming); `MaxTime`, `MaxCycles`, `MaxManual`, `MaxFaults` (Backup).
Deadlock is checked in the registration and schema runs. The command loop may
stop when all commands are settled and no fault is left, and the timed models
stop at `MaxTime`; those runs say `CHECK_DEADLOCK FALSE`.

**Fairness.** `CommandLoop!FairSpec` assumes only of the control plane that its
event loop gets to each coroutine (asyncio), that the sweeper's loop runs and
survives exceptions (`command_sweeper.py:84`; `SweeperTiming` has the sweeps that
raise, and bounds what they cost), that the clock advances, that a
dead process is restarted (`docker-compose.yml:55`, `restart: unless-stopped`)
and that its client reconnects (`max_reconnect_attempts=-1`). Nothing is assumed
of agents, broker or operators. `Registration!FairSpec` assumes that the worker
restarts its container (`docker-compose.worker.yml:54`) and that both processes
run their coroutines; an outage is any finite number of faults.

## 4. Proofs

Every invariant and every action property that a passing run checks, and both
refinements, are theorems. Constants are arbitrary: any set of instances, any
number of commands, faults, calls, cycles and resets, any token assignment, any
settings. Assumptions are the named `ASSUME`s of the modules: types of the
constants, distinctness of the null values, and in `Backup` that a cycle is shorter
than a day.

| Module | Theorem | States |
|---|---|---|
| `CommandLoopProofs` | `TypeCorrect` | `TypeOK` |
| `CommandLoopSafety` | `TerminalStays` | `TerminalIsTerminal` |
| | `LaunchedAtMostOnce` | `ExecutedAtMostOnce` |
| | `RowBeforeMessage` | `PublishedIsPersisted` |
| | `NoListenersStands` | `NoListenersIsDefinitive` |
| | `OutcomesAreJustified` | `OutcomeJustified` |
| | `WorkloadIsEarned` | `OnlyCompletionsMoveWorkload` |
| `CommandLedgerProofs` | `LoopKeepsLedger` | `FlipMayFail = FALSE => LedgerSpec` |
| | `CompletionsFlip` | `FlipMayFail = FALSE => CompletedCommandFlips` |
| | `ReportsArrive` | `NoReportLost` |
| | `WorkloadFollowsWorker` | `FlipMayFail = FALSE => WorkloadMatchesWorker` |
| `RegistrationProofs` | `RegistrationTyped` | `TypeOK` |
| | `IdentitiesHold` | `IdentityIsRegistered` |
| | `ProjectsAreUnique` | `OneProjectPerName` |
| | `RegistrationEnrols` | `EnrolmentSpec` |
| | `OrphansCounted` | `OrphansAreAccounted` |
| `SweeperProofs` | `SweeperTyped` | `TypeOK` |
| | `SweepsAreNotEarly` | `NeverEarly` |
| | `SweepsAreTimely` | `TimelyTimeout` |
| `HeartbeatProofs` | `HeartbeatTyped` | `TypeOK` |
| | `LivingIsOnline` | `Tolerant => NoFalseOffline` |
| | `BirthsAreSeen` | `NewAgentIsSeen` |
| | `DeathsAreNoticed` | `DeathIsNoticed` |
| `BackupProofs` | `BackupTyped` | `TypeOK` |
| | `BucketRestores` | `BucketIsRestorable` |
| | `BufferRestores` | `BufferIsRestorable` |
| | `RecentKept` | `RecentBackupsAreKept` |
| | `TrimsSafely` | `TrimHasSuccessor` |
| | `SnapshotsCounted` | `SnapshotsAreAccounted` |
| `SchemaMigrationProofs` | `SchemaTyped` | `TypeOK` |
| | `StatementsAlwaysFit` | `StatementsFit` |
| | `IntentAlwaysSurvives` | `IntentSurvives` |

Three theorems have the hypothesis `FlipMayFail = FALSE`: without it they are false,
as `commandloop_flip_lost` shows. It excludes one thing only, a fault while the flip
of a recorded completion is still to come; all the other faults of section 3 may
happen anywhere.

*The command loop.* None of the properties is inductive. The invariant comes in
layers, each proved to be preserved with the help of those below it:

1. `Typed` is `TypeOK` and the fact that a request that has begun belongs to an
   issued command.
2. `StatusInv` relates a request's program counter to its row: no row before
   the INSERT, a row from then on. With it an INSERT cannot overwrite a row,
   which gives `TerminalStays`.
3. `OnceInv`: `QueueInv` says that the queues from the control plane's buffer
   to an agent's inbox hold only genuine messages, no command twice and none in
   two queues, and that a command in a queue has not been launched; `RunInv`
   that what runs was launched and is in no queue; `HintInv` that a command that
   was refused by the broker, or answered with `no_listeners`, is nowhere. This
   is the argument that a command is never executed twice: there is one copy,
   and it moves. It gives `LaunchedAtMostOnce`, `RowBeforeMessage` and
   `NoListenersStands`.
4. `ReportInv`: a report under way tells the truth about the outcome of its
   command (`TransitInv`), a terminal status is justified, and the workload
   state, and a flip still to come, belong to a completed command (`MovedInv`).
   It gives `OutcomesAreJustified` and `WorkloadIsEarned`.

Most steps leave a layer's variables alone or only shrink queues; one lemma per
layer (`CalmStep`, `QuietStep`) covers those, and the few steps that matter
(publish, route, receive, return, handle, flip, sweep) have a lemma each.

*The refinement of `CommandLedger`.* The mapping counts a flip under way as done
(`SettledWorkload`) and accepts a command with its INSERT. What it needs beside the
layers is `OneFlip`: the handler has at most one flip to do, so that the mapped
workload state is well defined. The first UPDATE of a report is then the whole of
the ledger's step (`ReportSettles`), the second one a stutter (`FlipStutters`), and
a sweep times out one set of commands. `CompletionsFlip` follows from the steps of
the ledger alone (`ShownNext`): whoever keeps the ledger shows a state some completed
command asked for.

*Reports.* `ReportsArrive` is about the time before the first fault. `HearsInv` says
that whoever can issue a command finds the control plane listening (the start-up
order of `main()`), `TokenInv` that whatever an agent accepts is reported with a token
the control plane accepts, and `DeliveryInv` that an executed command is recorded or
its report is under way.

*The state of the worker.* `WorkloadFollowsWorker` rests on the order of the
reports. `UniqueInv` says that a command is reported once, so that a report that is
gone cannot be replaced; `Lost` describes the commands that will never complete: they
failed, or the agent stopped while they ran, or their report is gone; `LostStays`
shows that this is final. An instance with a lost command is doomed to miss the
hypothesis of the property. Of any other instance `Agrees` says where the truth about
its stack is: in the last report its agent has written and the broker not taken, else
in the last one the control plane has not handled, else in the workload state. A
queue that loses a report in the middle or at an end (`Sheds`) either dooms the
instance or leaves its last report in place.

*Registration.* `IInv` joins the types, `CallInv` (each call's progress agrees
with its project and its row, so that a reply is only ever seen for a committed
row), `HostInv` (an id in memory, in the temporary file or on disk comes from a
replied call of this agent; a torn file is never the one that is renamed) and
`AttemptInv` (the count of attempts).

*The refinement of `Enrolment`.* The mapping: an identity is "none" until its
row is inserted, "held" while it is on its owner's disk, "offered" while the
owner waits for the reply or has the identity in memory, and "lost" otherwise.
`RInv` adds two facts to `IInv`: `BusyInv`, a handler that is not done has no row
(so that an identity is made once), and `HoldInv`, an agent that registers has
nothing on disk, waits for one call at most, and what it has in memory it saves
or has saved (so that two identities of one agent are never live). Then each step
is shown to make, hold or lose one identity, or to stutter: `OthersApart` says that
identities whose owner is not affected stay as they are, `Forgets` covers the ways a
process ends, `InsertRefines` the INSERT, whose reply may already have been given
up.

*Orphans.* `OrphansAreAccounted` bounds a cardinality, so the set of orphans itself
is followed: a step of an agent or a handler makes none (`AgentOrphans`,
`HandlerOrphans`), a fault or a reset at most one (`FaultOrphans`), and takes one off the
bound. That a restart makes none needs `HoldInv`: an agent with an identity on disk
does not register.

*The sweeper.* `LoopInv` says that the event loop and the UPDATE keep to
`MaxDelay`; `WakeInv` gives the next sweep, for each pending command, a deadline: an
interval and a delay after the command was due (or the start of the sweeper), and a
`Period` more for each sweep that has just raised. A sweep that returns and leaves
the command pending had its stamp before the command was due (`SweptRow`), which
starts the deadline anew.

*Heartbeats.* `TimeInv` orders the beats under way and bounds their age. For
`NoFalseOffline` the missing fact is the distance of neighbouring beats: `DueInv`
bounds the next beat by the last one published and the beats missed since, `GapInv`
carries that bound through the queue to the beat recorded last, and the birth of
the present life stands in where a beat belongs to an earlier one. `SeenInv` finds
the first beat of a life recorded, under way, or still to come; `DeathInv` bounds what
is under way when an agent dies.

*Backup.* `BackupInv` follows a cycle from command to command. `WrittenInv` says that
a cycle that has passed the command that writes a file has the whole file in the
buffer and no truncated one (`set -e`), and before that command none; `UploadedInv`
which of its objects are in the bucket. `FileInv` says that the file of a cycle, or of a
later one, is not older than the beginning of that cycle; as a cycle is shorter than a
day (`SettingsAssumption`), what a trim deletes is then older than the cycle that trims,
and that cycle has uploaded both its objects: the successor. Another runner's trim
leaves the files of a cycle under way alone for the same reason. `SnapshotInv` follows
the set of snapshots nobody will delete, which grows only with a fault, by one.

*Schema migration.* `SchemaInv` says of the database, and of the dump, that they are
sound (`Sound`): the columns are those of some version, every row has a value of the
right enumeration in each of them, and what the columns say, in the old enumeration or
the new one, means what was last set in the history of that database. A dump carries
its own history, so what was set after it is given up by its restore, and
`IntentSurvives` says nothing of it. The block takes any sound
database to the current columns with the same meaning, and a current one to itself, so
starts, dumps and restores may come in any order.

## 5. Only model-checked

* Liveness: `EveryCommandSettles`, `EveryRequestIsAnswered`,
  `EveryAgentComesUp`. Fairness and ENABLED are out of the prover's reach. The
  timed models bound what these leave open: `TimelyTimeout` and `DeathIsNoticed` are
  safety properties, and proved.

## 6. What the checks found

* **A flip can be lost** (`commandloop_flip_lost`). The status and the workload
  state are two transactions. A failure, crash or shutdown between them leaves a
  completed command whose workload state never follows: the report is gone, and
  a second one would be ignored as late. `CommandLedger` holds exactly when no
  fault hits this window.
* **An override agent runs nothing** (`commandloop_override_agent`). The comment
  in `agent/registration.py:37` says that it runs commands and that only its
  reports are dropped; `agent/agent.py:74` drops every command when the agent's
  own token is empty. Each such command is answered `delivered_now` and times out.
* **`delivered_now` may have reached nobody** (`commandloop_delivered_now`). A
  probe timeout is taken for a silent subscriber, but it also happens while the
  client reconnects or the 503 is late. `no_listeners`, in turn, is definitive
  (proved).

Noticed while reading, without a run:

* `control/api/instances.py:29-32` and the docstrings of `StatusMessage` and
  `HeartbeatMessage` say that only a hash of the agent token is stored, but the
  plaintext is (`domain/auth.py` says so and why).
* An agent retries a registration only after a transport error; a 500 or a
  proxy's 502 ends its process at once, and its restart policy takes over.
* `command_sweeper.py:29` promises a terminal state "within `timeout_seconds +
  sweep_interval_seconds`". The loop sleeps after a sweep has ended, so the
  duration of two sweeps, and an interval for each sweep that raised, come on top:
  `TimelyTimeout` is the bound the code keeps.
* `control/config.py:54` calls for a stale window that is "a multiple of the
  agent's heartbeat interval". With twice the interval one lost beat and any delay
  show a living agent as offline; `Tolerant` is the condition, and the default
  satisfies it for one lost beat.
* `find -mtime +N` (`backup.sh:99`) keeps the files of N + 1 days, while
  `docker-compose.yml:168` and `:198` speak of N.
* Nothing deletes a snapshot whose cycle failed between `backup.sh:74` and `:82`;
  `SnapshotsAreAccounted` says that there is at most one for each fault.
* After the restore of an older dump, agents that have registered since then keep
  identities the control plane does not know, until `--reset-identity`.
* A snapshot of VictoriaMetrics is a directory of symbolic links, which `tar -czf`
  archives as links. `BufferIsRestorable` and `BucketIsRestorable` speak of whole
  files only; what is in the archive is outside the model.

## 7. Not modelled, and the plan

Not modelled: settings and command line (no state of their own; the values that
matter are constants), deployment, proxy and metrics files. `Registration` and the
command loop are not composed: what the loop needs of the registration is that
the tokens of both sides agree, its constants `RowToken` and `AgentToken`, and
that is `IdentityIsRegistered`, which is proved. The restore of a dump is a step of
`SchemaMigration` only, so the agents left with unknown identities are not modelled;
no code handles them.

Planned: lemmas that the default settings meet `Tolerant`, and what `TimelyTimeout`
amounts to with them; the agreement of `RowToken` and `AgentToken`, which the command
loop takes as constants, stated of `Registration` in the terms of the loop.
