# Formal models of the PostgreSQL migration rehearsal

TLA+ models of `postgres-migration-rehearsal`: what its migration procedure, its
one-shot final protocol and its local control room promise, checked with TLC on
small instances and, where it matters most, proved with TLAPS for every size.
Paths below are relative to the repository root.

## 1. The system

| Component | State it keeps | Operations | Talks to | What makes it correct | Module |
|---|---|---|---|---|---|
| Migration contract (`src/migration_rehearsal/contract.py`, `migrations/*.sql`) | database: `migration_control`, `schema_migrations`, catalogue, grants, `invoices` | `_apply_migration` 0001..0005, `_start_backfill`, `_run_backfill_batch`, `_finish_backfill_enable_v2`, `attempt_down` | PostgreSQL, clients (shared rows, advisory lock) | phase, ledger and catalogue agree; a checkpoint can be trusted; no acknowledged amount is lost | `Migration` |
| V1 / V2 writes (`clients.py`, actors of `contract.py`) | rows of `invoices` | range updates, single row update, V2 inserts | same database | admitted writes succeed, whole and once | `Migration` |
| Concurrency windows (`sync.py`) | barriers, events, abort flag | admission, DML, commit release, abort | client threads and their coordinator | nobody waits for ever; no commit after an abort | `Windows` |
| One-shot final protocol (`final_once.py`) | lock, marker, report, terminal and temporary files | one invocation | gate runner, file system | the effect runs at most once; the terminal never changes and matches its report | `FinalOnce` |
| Gate runner (`final_runner.py`) | gate results, temporaries | freeze checks, gate loop, clean-up | one-shot protocol, child processes | the first failure is the one reported; a success means every gate passed; its report is one the protocol accepts | `GateRunner` |
| Adapter (`control_room_adapter.py`) | engine lock, compose project, receipt | start, run child, clean up, receipt, delivery failure | docker, relay, child engine, HTTP server | only owned resources are removed; a receipt says what is left | `OwnedRuntime` |
| HTTP server (`control_room_http.py`) | request slots, run slot | admit, answer, release | adapter, browser | slots are returned once; one run at a time; the process ends after its requests | `ControlRoomHttp` |
| Relay (`control_room_runtime/relay.py`) | listener, workers, sockets, failures | start, accept, forward, close | adapter, engine child, PostgreSQL | close leaves no thread; a failure is surfaced | `Relay` |
| Lifecycle (`scripts/control_room.py`) | state file, start lock, server process | start, serve, stop | HTTP server process | one owned server; stop signals only it | `Lifecycle` |
| Engine child (`scripts/control_room_engine.py`) | one disposable database | create, migrate, run clients, reset, drop | Migration | final observation belongs to its fixture | not modelled (section 5) |
| Baseline rehearsals (`scripts/rehearse_baseline_v*.py`) | network, container, relay | rehearse, recover, clean up | docker | only owned resources are removed | not modelled (section 5) |
| Browser (`web/control-room/app.js`) | run, reset and review flags | submit, reset, render | HTTP server | no new run before an unclear clean-up was reviewed | not modelled (section 5) |
| CI text guards, demo report, static demo, build scripts | none | - | - | - | not modelled: pure text or build tooling |

**What is hard.** The migration runs while two generations of an application keep
writing. Three mechanisms have to work together: an advisory lock (shared for clients
and batches, exclusive for migrations) guards the phase; row locks order writers and
batches; a trigger mirrors the legacy and the target columns of each row. Batches
are resumable from a checkpoint, every step may fail or be repeated, and the whole
procedure may be rolled back and started again. Around it, the one-shot protocol has to
survive kills between any two file operations, and the control room has to return locks,
slots and containers on every error path. `PROJECT.json` lists the hazards with their
lines and the properties that cover them.

## 2. Modules

- `InvoiceLedger` - the abstract promise: a book of invoices which changes only when a
  client's transaction changes it, whole and by exactly what it asked. Migrations,
  batches and rollbacks do not exist here.
- `Migration` - the detailed model. A *session* is a connection running one function of
  `contract.py` as one transaction: `Begin`, `LockAdvisory`, the admission checks
  (`Admit`, `AdmitClient`, `AdmitBatch`, `LockSingleton`), the table lock of DDL
  (`LockTable`), row locks one by one (`LockBatchRow`, `LockClientRow`), and one commit action
  per function. `Rollback` is possible at every statement: lock and statement timeouts,
  deadlock victims, the failpoints of the tests, a lost connection.
- `MCMigration` - the instance TLC checks.
- `MigrationProofs` - its inductive invariant, the safety theorems and the proof that it
  implements `InvoiceLedger`.
- `OneShot` - the abstract promise of the final gate: the gates run at most once, there is
  one verdict, it never changes, and everyone who asks is told that one.
- `FinalOnce` - the protocol of `final_once.py`, one file operation per step, with callers
  that are killed, meet an `OSError`, or lose power with the whole machine, between any two.
- `MCFinalOnce` - the instance TLC checks.
- `FinalOnceProofs` - its inductive invariant, the safety theorems and the proof that it
  implements `OneShot`.
- `GateRunner` - the effect of that protocol: one run of the frozen gates, with the scanner
  database, the Compose project and the temporaries it works on.
- `Windows` - the two concurrency windows of `sync.py`, with the drivers and actors of
  `contract.py` that meet in them. What their statements do to the rows is `Migration`'s.
- `Relay` - the loopback relay between an engine child and its PostgreSQL container.
- `OwnedRuntime` - one rehearsal as the adapter runs it, around that relay and that child: the
  engine lock, the Compose project, the receipt, the answer, a failed delivery.
- `ControlRoomHttp` - the server process in which such a run is a request.
- `Lifecycle` - the `start` and `stop` commands around such processes.
- `GateRunnerProofs`, `WindowsProofs`, `RelayProofs`, `OwnedRuntimeProofs`,
  `ControlRoomHttpProofs`, `LifecycleProofs` - their inductive invariants and theorems. `MC<module>` is the instance TLC checks of each.

`Relay`, `OwnedRuntime`, `ControlRoomHttp` and `Lifecycle` overlap where they meet, and each takes from its neighbour only what the neighbour
shows: for `ControlRoomHttp` a run returns or raises after some time (`OwnedRuntime`,
`RequestsEnd`), `OwnedRuntime` relies on the run slot for one run in a process, and for a server
in `Lifecycle` SIGTERM leads to its end (`ControlRoomHttp`, `SigtermExits`, with its exception of a
handler that raises; `Lifecycle` then has a server that simply lives on). For `OwnedRuntime`
closing the relay is a step that ends (`Relay`, `CloseReturns`).

### How `Migration` corresponds to the code

| Model | Code |
|---|---|
| `control` | the row of `migration_control`: `phase`, `backfill_last_id`, `backfill_scanned_rows` (`scanned`), `v2_enabled` |
| `ledger` | versions in `schema_migrations` |
| `schema`, `grants` | columns, trigger and constraints of `invoices`; column privileges of `pmr_app_v1`, `pmr_app_v2` |
| `invoices[i]` | `[cents, minor, cur]` = `amount_cents`, `amount_minor`, `currency_code`; a column that does not exist is `Null` in each row |
| `acknowledged` | history variable: what committed client transactions were told they added |
| `op`, `pc` | the function a session runs and the statement it is at; every lock except row locks follows from these two |
| `cand`, `held` | rows its statement has still to lock, rows it has locked |
| `CompatUpdate`, `CompatInsert` | `invoices_compatibility_write()` of 0003; `Null` is its exception |
| `AdvisoryFree` | `pg_advisory_xact_lock` / `_shared` on `ADVISORY_KEY` |

*Grain.* A step is one statement that waits for a lock or reads what others may
change. What a transaction writes becomes visible in its commit action: its rows are under
row locks and its catalogue changes under an exclusive table lock, so the written values
are the same whether computed at the statement or at the commit. Under READ COMMITTED
each statement sees what is committed when it starts, and a `SELECT ... FOR UPDATE` tests a
row again after waiting for it: `SelectBatch` takes the snapshot, `LockBatchRow` locks in
the order of ids and counts only rows still unfilled (`Unfilled`) towards `LIMIT`.

*External.* What PostgreSQL does (lock conflicts, atomic commit and rollback, unique index,
arithmetic on NULL) is not in this repository; those definitions are marked external in
`PROJECT.json`. Lock queues are not modelled: any waiter may be granted next, and a waiter
may time out at any moment.

*Left out.* Migration checksums (the files do not change while the program
runs), the integer width of amounts (checks bound them far below it), connection
identifiers, and what the tests record about locks. The inserts are those of `contract.py`: before
contract the trigger refuses each of them, so a V2 insert that succeeds while
V1 still writes is outside the model, as it is outside the drivers.

### How `FinalOnce` corresponds to the code

| Model | Code |
|---|---|
| `files` | the entries of `reports/final`: `.final-once.lock`, `final-attempt.json` (marker), `final-report.json`, `final-result.json` (terminal), the temporary of each of the last two, and one `work` entry for the temporaries of the gates |
| `disk`, `synced`, `parent` | what a power loss would leave (external) |
| `holder` | the `flock` on the lock file; the kernel drops it with the process |
| `Begin` .. `Replay` | the look before the lock, the lock, the look under the lock |
| `Clean`, `CleanDone`, `Settle`, `Preflight` | `_cleanup_stale_temps`, the orphaned marker, the preflights and `identity()` |
| `Open`, `Fill`, `Fsync`, `Rename`, `Dirsync` | `_write_exclusive` and `_write_atomic`, shared by marker, report and terminal; `job` says what is written, `Dirsync` what comes next |
| `EffectBegins`, `EffectEnds`, `Reread` | the gates and the three `except` clauses around them |
| `OSError` | an exception of a file operation. Only the report of *passed* gates is written inside a `try` that still makes a terminal of it; the negative report's write escapes (`final_once.py:598`) |
| `runs`, `outcome`, `told` | history variables |

A marker or terminal is told apart by its attempt, a report by its status: one run makes at
most one report, so its hash names it. `_read_canonical_mapping` turns a read error into "no
value"; `Read` lets `Settle` take a good marker for an unreadable one. Such an attempt
is settled under the all-zero id and refused by every later call that can read the marker
(`Unread` is the call that cannot), and
`TerminalReadable` names exactly this exception. Also refused for ever, as documented by its
reason code: an attempt whose report write failed, since its temporary stays
(`TERMINAL_STALE_TEMP`).

*The file system.* An fsync of the directory makes its entries durable; the kernel may do so at
any time by itself (`Writeback`), with or without the content of files that were
not synced. The directory is its own entry in `reports/`, which nothing syncs: the first
power loss may drop it (`DirectoryLoss`) or not. Symbolic links and foreign entries, which
the code refuses, are left out: no step of the program creates one.

### How `GateRunner` corresponds to the code

`turn` is the index of the loop in `run_gates` and `at` the next command or file operation of
that gate. A `CommandResult` is its exit code being zero or not, and what it prints: a clean
surface, findings, or nothing valid (`_scanner_surface`). `failed` and `attempted`
are the local flags, `database` what the two digests around a trivy scan are compared with, and
`project` the image of the postgres container that `compose_start` leaves. `ValidReport` is `_valid_report`
of `final_once.py`, the reader at the other end. `Interrupt` is a `KeyboardInterrupt` or
`SystemExit`, which runs the `finally` blocks only. `Update` is somebody else replacing
the scanner database once.

### How `Windows` corresponds to the code

`at` says where each of V1, V2 and the coordinator (`Main`) is; `driver` which of the two windows
is run. A `threading.Barrier` has the states of the library, `filling`, `draining`, `broken`, since an
abort between the last arrival and the last departure breaks the slower party's wait. `abort()` is
three steps, for the flag, the barriers and the events, and every `wait` is followed by its own
look at the flag. Not every failure reaches an `abort()`: `psycopg.connect` stands before the `try`
of both actors (`contract.py:377`, `:927`; `Connect`, which ends in `unconnected`), and
so do the two `executor.submit` of the clients (`:970-971`; `Submit`). `submit` queues its work
before it starts a thread, so when the second one raises the work may still be done, by the
first client's thread (`Dequeue`), while the coordinator leaves through the executor's
block, which waits for both (`leaving`). `Silent` is that one of these has happened.

### How `Relay` corresponds to the code

| Model | Code |
|---|---|
| `at` | the adapter's thread, through `start`, `assert_healthy` and `close` |
| `accepting` | `_accept_connections` |
| `pc[c]` | `_serve_connection`, `_forward` of one connection |
| `free`, `workers`, `registered` | `_capacity`, `_workers`, `_sockets` |
| `open` | the sockets the kernel has open |
| `flow` | the two buffers of `_forward`, in chunks: read, sent, end seen, end passed on |
| `lost` | history variable: a worker that failed has ended while the run went on |

`AssertHealthy` is the adapter's two looks under the lock (`assert_healthy`,
`assert_destination_observed`) in one. A worker that fails is two steps, one that keeps the failure unless `_stop` is set, and its
`finally` block: between them `close` may come. `Talkers` bounds who sends: the others stay
idle until somebody cuts them, which is the hard case for `close`.

### How `OwnedRuntime` corresponds to the code

| Model | Code |
|---|---|
| `at[r]` | the next docker command, file operation or wait of `_owned_compose_runtime`, `_cleanup_receipt`, `record_delivery_failure` or the request around them |
| `holder` | the flock on `engine.lock` |
| `receipt`, `temp` | `last-cleanup.json`, `last-cleanup.tmp` |
| `present[r]` | what `docker` lists under the label of the run's project: its network, its container, a stray |
| `late[r]` | what the daemon still creates after `compose up` was killed by its timeout |
| `recorded[r]` | `before` or the partial inventory, whichever the run has relied on last |
| `job[r]` | `cleanup_state` and `reason` |
| `drifted` | whether somebody else has touched a run's project, before or after the last comparison |

Every command may fail (`Escapes`): in the `finally` block a failure leaves no receipt and the
exception replaces the run's own. An inventory is
three docker commands in a row (`_resource_ids`, `control_room_adapter.py:352-362`) and one step here:
what comes while they run counts as before or after all three. `After` and `Without` say where a thread goes on with and
without its receipt. `None` is no request and no receipt (`NoneAssumption`).

### How `ControlRoomHttp` and `Lifecycle` correspond to the code

`ControlRoomHttp`: `loop` is the main thread in `serve_forever`, `server_close` and the exit of the
interpreter; `slots` is `_request_slots`, `runSlot` is `run_slot`, `threads` is the list that
`ThreadingMixIn` keeps for `server_close`. A request that needs no run is one action, `Other`. A
connection that comes when there is no slot is `Refuse`; a thread that does not start, `StartFails`.
The SIGTERM handler starts a thread and raises when it cannot. Where it raises matters:
out of `serve_forever` (`Sigterm`), or inside of `process_request`, where socketserver catches it and goes
on (`Interrupted`), with the slot of that moment as it happens to be.

`Lifecycle`: `at` is the next system call of each command; `state`, `temp` and `lock` are
`server.json`, `server.tmp` and `start.lock`; `pid`, `life` and `host` are the kernel's view of
the servers, with identifiers it gives out again to servers or strangers (`Comes`); `seen` and `fd`
are what a `stop` has read and the process its pidfd is for. A `start` that is killed leaves its
lock and temporary file (`Kill`); one that is interrupted runs its `finally` blocks (`Interrupt`), and the
server and its state stay. Of a server only its birth, port, SIGTERM
and end are here.

## 3. Runs

`migration` (`MCMigration.cfg`): two connections, two seeded invoices and one
inserted by V2, batches of one row, updates of one or two rows, amounts up to 4. About
300 000 distinct states, under a minute. Each session may run *any* function at any time: this
includes every driver of the repository and orders no driver uses.

| Property | Says |
|---|---|
| `TypeOK` | types; a finished transaction leaves no operation and no row lock |
| `ShapeMatchesPhase` | the committed phase determines the ledger, the catalogue and the privileges |
| `CheckpointSound` | no row at or below the checkpoint is unfilled; the scanned count is at most the number of filled rows, which a row counted twice would break once the others are done |
| `DownStaysOpen` | until contract, `attempt_down` can be refused by no reachable state |
| `TargetTrusted` | once V2 is enabled every row has a valid target side equal to the legacy side |
| `AdmittedWritesSucceed` | what a client was admitted by (phase, privileges, trigger) holds until it ends |
| `PhaseMovesAlone` | the phase follows the procedure's edges, with no other session past its advisory lock |
| `ImplementsInvoiceLedger` | every behaviour is one of the abstract book |

*Bounds.* `Sessions` = 2: the interference in question is between pairs (batch and writer,
migration and insert, rollback and client); the proofs cover any number. Two seeded rows and a
batch of one give a checkpoint in the middle, batches overtaken in front of and behind
it, and updates half done. `MaxAmount` only stops new updates; it never blocks one that has
begun. Symmetry between the two sessions is used, and only safety properties are checked
with it. A session can always roll back or begin something, so deadlock checking is on and
would show a statement that nothing ends.

*Mutants.* Each property has a plausible bug that TLC must find with the same
configuration: a rollback that forgets the checkpoint or the ledger, a row lock that survives its
transaction, a trigger that mirrors only once or in the wrong direction, V2 enabled too early, an
advisory lock one side of which ignores the other.

`final_once` (`MCFinalOnce.cfg`): two callers, two commits they may see, kills and errors
anywhere, no power loss; 12 000 distinct states. `TypeOK`; `TerminalReadable` (a terminal is
accepted by its later readers); `ImplementsOneShot`; `Settles` (an interrupted attempt gets
its terminal). `Settles` is its liveness property: it assumes weak fairness of each
caller's next step, i.e. that a call once begun is executed until it returns and that somebody
calls again, and that failures end (`calm`), since a caller killed each time never settles
anything. It uses no symmetry.

`final_once_power` (`MCFinalOncePower.cfg`): the same with power losses; 490 000 states,
half a minute. `EffectOnce`: the gates run at most once; `VerdictEarned`: a verdict that names
a report belongs to the one run and the report is durable before it. Two callers give a
holder and one that overtakes, blocks or comes after; a third behaves like the second. The
number of calls, kills and power losses is not bounded; only `DirectoryLoss` is (the
directory is new once), by `parent`.

Two runs show where the code promises more than it keeps; both need a power loss:

- `final_once_told` (`VerdictStands`): a call is killed after it renamed a passing terminal and
  before its directory fsync; the next call finds that terminal and reports it without
  syncing anything; power fails, the rename is gone, and the next call settles the
  attempt as interrupted. Two callers have been told different verdicts.
- `final_once_parent` (`SingleAttempt`): `reports/final` is created and never synced in its
  parent. A power loss may take it with its marker, and the effect runs a second time.

`gate_runner` (`MCGateRunner.cfg`): 4 800 states. `GateRunner` has no constants: this is all of
it. `ReportAccepted`: whatever the commands do, the report passes `_valid_report`, so
a finished run is never turned into `INTERNAL_ERROR`. `LeftoverTold`: containers and temporaries are
gone or their gate has failed. `ScansFrozen`: evidence is of the frozen database, though it may be
replaced around a scan. `TestsFrozen`: the tests run only after the inspection of a frozen image;
nobody replaces the image between the two in this model, so it is about their order alone. `Ends`: every command has a timeout,
hence weak fairness of `Step`; interrupts and `Update` need no fairness.

`windows` (`MCWindows.cfg`): 2 800 states; the sizes are the code's, nothing is bounded.
`WindowHolds`: nobody commits unless the coordinator has observed him and released him - an abort,
which sets the same event, releases nobody to commit - and a driver that reports success has seen
every transaction open with its writes done, and all have committed. `AllEnd`: whoever fails,
wherever the others are, all come to an end. Weak fairness of every actor. The timeouts of the client
window are fair only once somebody has failed outside of every `try` (`Silent`): a client that
gets no connection aborts nothing, so its peer stays at the admission barrier, and the coordinator at the
other, until one of the five-second waits is over. After every other failure `abort()` alone wakes
everybody, and no timeout need ever fire. Without fair timeouts after a silent failure `AllEnd` does not hold.

`relay` (`MCRelay.cfg`): three connections for two slots, one of which carries data, one chunk in
each direction; 390 000 states, one to three minutes. `SlotsBalanced`, `NothingLeft` (after `close`: no
thread, no socket, no listener, whoever raced with it), `EndsAfterData`, `HealthSound` (no failure
is lost before a success is confirmed), `CloseReturns`. The third connection meets a full semaphore,
a slot given back, or a relay that stops. Weak fairness of each thread; the accept loop polls every
quarter of a second, so neither a connection nor an idle peer is needed for `close` to return.

`owned_runtime` (`MCOwnedRuntime.cfg`): two runs in two processes, 440 000 states, two minutes. Two are
enough for what the lock and the receipt are about, a run against an older one's delivery; the
proofs cover any number. `ReceiptHonest` and `AnswerHonest`: a receipt or a 200 that speaks of a
clean-up is true for ever of everything its run had recorded. `RemovesOnlyOwn`: a stray that was there at
the last comparison is never removed; one that comes between the comparison and `down` is
(`control_room_adapter.py:869` and `:900`; the comparison itself is three commands, and what comes after
the first of them may be missed as well), which no command of docker could prevent.
A run whose clean-up fails leaves no receipt and removes none: an older run's `complete` may then still be
there, true of that run, and no property is against it. `DeliveryKeepsNewer`: a failed delivery replaces its own run's receipt only. `RequestsEnd`: every request
is answered unless its process is killed; weak fairness of each run's thread, since every docker command
and the child have a timeout. A `last-cleanup.tmp` left by a killed writer refuses every later
receipt (`:668`); the model contains it, and such a run answers 500.

`owned_runtime_answer` (`NothingStarted`) expects a violation: an exception in the clean-up is
answered with `cleanup_state: "not_needed"`, which the page renders as "No database operation
started." (`web/control-room/app.js:338`), while the run's container may still be there.

`control_room_http` (`MCControlRoomHttp.cfg`): four connections for two slots, 70 000 states.
`SlotsBalanced`: a slot and the run slot are given back once on every path. `ExitAfterRequests`: the
process ends after the requests it has admitted. `ClosesCleanly`: only a shutdown thread that did not
start makes `server_close` raise. `SigtermExits`: after a SIGTERM whose handler has started its thread, or has raised out
of `serve_forever`, the process ends; weak fairness of the main thread
and of each request's. Two more connections than slots give one that is refused and one that comes
after a slot was returned. Both `SlotsBalanced` and `SigtermExits` have one exception, a handler that raises
while the main thread is in `process_request` (`Interrupted`). Socketserver swallows what it
raises. The loop goes on; the event it has set (`control_room.py:496-498`) makes every later SIGTERM return at once;
so the process does not end, against its docstring (`control_room.py:489`). The slot of that moment is
lost, or given back twice when the request's thread had begun: one slot more or less from then on.

`lifecycle` (`MCLifecycle.cfg`): two `start`, one `stop` that is repeated for ever, two process
identifiers; every command may be killed, and a `start` interrupted; 260 000 states. `SignalsOwned`: no stranger is ever signalled, whoever has got the
identifier of the state since. `LivingIsRecorded`: a server whose start succeeded is
in `server.json` while it lives. There is one exception, which the property names (`raced`): two commands
remove a dead server's state at once, and a third has started a server between the comparison
and the `unlink` of the slower (`control_room.py:268-278`): the property says that there is no other way, not that this
one is harmless. Two starts and two identifiers are
what a reuse needs. No liveness is claimed: a starter that is killed leaves `start.lock`
and blocks every later start (`:322`), and `start` takes any control room that answers on the
port for its own.

## 4. Proofs

For `Migration`: any number of sessions, any finite set of seeded invoices with any amounts, any
batch size, any update ranges and deltas. Assumptions: `IdsAssumption`
(positive ids; the inserted id is not seeded), `TargetsAssumption` (updates cover seeded
ids and add a positive amount), `NullAssumption` (`Null` is none of the values).

`MigrationProofs!IInv` is the inductive invariant. None of the properties above is inductive
by itself: a batch's effect on the checkpoint depends on which rows it has passed, a
client's write on the trigger still being there when it commits. `IInv` adds

- `ShapeMatchesPhase` (the catalogue follows the phase, so knowing the phase is enough),
- `PlaceInv` (what `op` and `pc` may be together, and where `cand` and `held` may be non-empty),
- `LockInv` (mutual exclusion as far as it matters: a session past its exclusive
  advisory lock is alone, one holder of the singleton row, no row held twice, no reader of the
  table while DDL is pending),
- `CheckedInv` (what a session's admission checks found is still true),
- `BatchInv` (of a batch in flight: every unfilled row between the checkpoint and its last
  row is one it holds or has still to lock),
- `RowsInv` (what rows look like in each phase, and the count behind `scanned`).

The step from `IInv` to `IInv'` is proved per action, split into what concerns the database
(`DbInv`) and what concerns the sessions (`SessionInv`). From it follow `TypeCorrect`,
`PhaseTellsShape`, `CheckpointCorrect`, `WayBackStaysOpen`, `TargetStaysTrusted`,
`AdmissionHolds` and `PhaseMoves`.

`MigrationProofs!Refinement` proves `Spec => ImplementsInvoiceLedger`: 0001 opens the
book, a client commit is one `Credit` or `Add`, every other step changes nothing that shows.
It needs one more invariant, `WholeInv` (the rows a client holds and has still to lock are
exactly one of its target sets, so a commit credits a whole transaction). `BooksBalance` then gives
what a reader may rely on: an invoice shows its seeded amount plus what was acknowledged.

`FinalOnceProofs`: for any number of callers and commits. Assumptions: `DistinctAssumption`
(sentinels differ from values) and `SwitchAssumption`. `EffectOnce` is not inductive: that the effect
begins only when `runs = 0` rests on the marker being absent when the caller looked and on nobody
else having written it since. `IInv` adds `HeldInv` (whoever is past the lock holds it), `SyncInv`
(what appears complete was synced before), `JobInv` (what is being written, and that what is read
back is what was written), `MarkerInv` (no marker before, a durable one after), `RunsInv` and
`EarnedInv` (the outcome, the report, its copy on disk and every terminal agree). From it follow
`TypeCorrect`, `AtMostOnce` and `VerdictsEarned`, with power losses. `Refinement` assumes there are
none: `EffectBegins` is `Run`, `EffectEnds` is `Finish`, the rename of a terminal is `Decide`, an
answer is `Tell`; it needs `ResultInv`, that from a caller's look to its rename there is no
terminal. `TerminalsReadable` (also without power losses) adds `ReadInv`: the marker stays what
its caller wrote, and a terminal can be read from the moment it is composed.

`RelayProofs`: any number of connections, capacity and chunks (`CapacityAssumption`: both are natural
numbers; the set of connections need not be finite, `SlotsInv` shows that those with a slot are). `NothingLeft` is not
inductive; `IInv` adds `PhaseInv` (what the closing thread knows of the accept thread), `WorkerInv`
(`workers` is exactly the set of running ones, and at most one connection is accepted without one),
`SocketInv` (only a holder of a slot has sockets) and `LossInv` (while the run goes on, `stop` or a
broken worker means that a failure is kept). From it follow `TypeCorrect`,
`SlotsStayBalanced`, `CloseLeavesNothing`, `DataBeforeEnd` and `NoLostFailure`.

`OwnedRuntimeProofs`: any number of runs, each with its process (`NoneAssumption`). `IInv` adds `HolderInv` (a
run is past the lock exactly while it holds it), `JobInv`, `DockerInv` (what the daemon still creates is never among what
is recorded, and a started run has recorded exactly its two resources), `StrayInv`, `WriteInv` (a planned
receipt is true already, and a planned delivery receipt replaces its own), `ReceiptInv` and
`ConfirmedInv` (a receipt or a confirmed success belongs to a run that is over, so nothing of that
run will be recorded again). From it follow `TypeCorrect`, `ReceiptsAreTrue`,
`AnswersAreTrue`, `OnlyOwnRemoved` and `NewerReceiptKept`.

`ControlRoomHttpProofs`: any number of connections and slots (`HttpAssumption`: at least one slot).
`IInv` adds that the admitted requests are finitely many and `ListedInv` (no listed thread failed
to start). `SlotsBalanced` says that free slots and held slots add up to all of them, and to one more or less
after a swallowed SIGTERM; the sum is proved step by step (`Sums`). `SlotsStayBalanced`, `ExitComesLast`, `CloseIsClean`.

`LifecycleProofs`: any number of commands and identifiers (`LifecycleAssumption`: the sentinels
differ, and no command is both). `SignalsOwned` rests on `PidInv` (a server has its identifier
until it is reaped) and `StopInv` (the process of a pidfd has, or had, the identifier of the server
that was seen, and is that server once its command line was compared). `LivingIsRecorded` rests on
`LockInv`, `StartInv` and `RecordInv`. `OnlyOwnSignalled`, `LivingStayRecorded`.

`GateRunnerProofs`: no parameters, but a proof that does not depend on which states a search
visits. `IInv` adds to the types `PlaceInv` (which gate, flag and turn each label of `at` can have),
`LoopInv` and `FailureInv` (the gates before `turn` are recorded, up to the first failure as
passed and after it as not run), `EvidenceInv` (a pass has the summary the report will show),
`DueInv` (clean-up is due exactly when `compose_start` was tried), `TempInv` (a temporary outside
`pip_audit` means that its gate failed), `ScanInv`, `ImageInv` and `EndInv` (what the verdict says
of all that). `ReportAccepted` needs nearly all of it: `_valid_report` looks at every gate at
once. From it follow `TypeCorrect`, `ReportsAreAccepted`, `LeftoversAreTold`,
`ScansAreOfTheFrozen` and `TestsAreOfTheFrozen`.

`WindowsProofs`: `WindowHolds` is about who has been where, so `IInv` says what each place implies
of the others. `MeetingInv` is its heart: of a barrier either nobody has passed it (`Gathering`) or
nobody is on the way to it (`Parting`); from `Parting` it follows that whoever the coordinator
does not see open has failed for good. `AbortInv` says what an abort has set by each of its
steps, `BrokenInv` that an aborted window has its barriers broken or somebody about to break them,
`StartInv` who may still be without a thread, `ToldInv` that a released commit has been told or aborted, `DoneInv` what the writer's
event means, `OpenInv` what the coordinator saw. One lemma (`ShiftKeeps`) covers every step of an actor that
goes forward or fails; three more cover the ways through a barrier.

Of the liveness of these two the safe part is proved. `RunIsBounded`, in both modules, gives a rank (what is
left of a gate and the gates to come; what is left of the three actors' ways) which every step,
interrupt, timeout or update lowers: at most 130 and 51 of them. `NobodyIsStranded` adds for the client window
that no wait is circular and, as long as nobody has failed outside of every `try` (`Silent`), none needs its timeout: who waits in a barrier has somebody on his
way or about to break it, a held commit has a coordinator who has yet to release it, and
a coordinator who waits for workers holds none of them up. What is left to TLC is that a step which
can be taken is taken.

Only model-checked: liveness under fairness (`Settles`, `Ends`, `AllEnd`, `CloseReturns`,
`RequestsEnd`, `SigtermExits`), which the provers do not reach.

## 5. Not modelled

- The engine child (`control_room_engine.py`) is a straight sequence of one process on a database of its own:
  create, the procedures of `Migration`, reset, drop. What others see of it, an exit and a result,
  is `Child` in `OwnedRuntime`; its concurrent sections are `Windows` and `Migration`.
- The baseline rehearsals are run by hand on a network and container of their own and repeat the
  shape of `OwnedRuntime` (inventory, comparison, removal, count) with the same relay. Their
  recovery after a lost answer of `docker run` is not modelled.
- The browser application renders one answer at a time; its text for `not_needed` is used once, for the
  finding above.
- Of the adapter: the field checks of `_validate_engine_response`, `scenario_summaries` and
  `historical_evidence`, pure functions of documents, and the branch for a
  `FixtureValidationError`, which no HTTP request reaches (`do_POST` answers the invalid sample itself).
- Of the gate runner: the freeze and preflight checks, pure functions that decide before the first gate.
- Of the migration contract: the fixed drivers that sequence its transactions
  (`_enter_backfill`, `exercise_*`), which `Migration` covers as free interleavings and `Windows` where they
  wait for each other; migration checksums, as the files do not change.
- CI text guards, demo report, static demo, build and verification scripts: pure text or tooling.
