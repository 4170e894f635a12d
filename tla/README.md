# Formal models of the EAP middleware

This directory holds TLA+ models of the middleware (`src/eap_middleware`,
`src/gateway`), of the simulated tools it is tested and run against
(`src/simulator`) and of the control panel (`src/gui`), the TLC configurations
that check them on small instances, and TLAPS proofs of what matters most. The
middleware sits between semiconductor tools, which speak SECS/GEM, and their
consumers: an MQTT broker, an HTTP platform, a legacy API and CSV files, one per
lot. Its promise is durability: an event whose receipt was acknowledged to a
tool is never lost, is delivered to each consumer in order, and reaches the file
of its own lot once.

1. [Inventory](#inventory)
2. [Modules](#modules)
3. [What is checked](#what-is-checked)
4. [What is proved](#what-is-proved)
5. [Departures from the documentation](#departures-from-the-documentation)
6. [What is not modelled, and the plan](#what-is-not-modelled-and-the-plan)

Paths are relative to `src/eap_middleware/` unless they start with `gateway/`,
`gui/` or `simulator/`.

## Inventory

| component | code | state | operations | modules |
|---|---|---|---|---|
| Simulated tools | `simulator/` | spool and its drain worker, lots in progress, recovery state | emit, spool, drain, play a lot, serve and restart | `ToolLink`, `LotTool`, `SimulatorSetup`, `SimulatorRunner` |
| SECS gateway | `gateway/host.py` | connection, callbacks, retired flag | S6F11, S6F13, S5F1 handlers, retire | `ToolLink` |
| Subscription | `gateway/event_subscription.py`, `secs_runtime.py` | band results, epochs, provisioning workers | reset, define, link, enable, retry | `Subscription` |
| Session start and stop | `service/lifecycle.py` | `_sessions`, `_machines_by_endpoint`, guards, generations | start, reconcile, restart, stop, storage transition | `SessionLifecycle`, `IngressPipeline` |
| Watchdog, liveness check | `service/health.py` | restarts in flight, state entry of each connection | restart, sample, judge, tell | `SessionLifecycle`, `ConnectionHealth` |
| Storage gate | `storage_safety.py` | state, candidate and its count | sample, transition | `SessionLifecycle` |
| Ingress journal | `journal.py` | SQLite table: identity, payload, two status columns, attempts; mirror tasks | append, mark_*, pending_*, purge | `IngressPipeline`, `ToolLink`, `CsvMirror` |
| Dispatch and replay | `service/dispatch.py` | `_dispatch_lock` | callback path, replay pass | `IngressPipeline`, `LotAttribution` |
| Mapping, profiles, job tracker | `mapper.py`, `profiles/`, `job_tracker.py` | chambers, wafers, lots and jobs by load port | map, note, look up | `EventMapper`, `MachineProfiles`, `JobTracker` |
| Lot CSV writer | `csv_store.py` | open lot buffers, pre-lot rows, row references | append, close, flush, evict, expire, mirror | `IngressPipeline`, `LotAttribution`, `CsvMirror` |
| Alarm flow | `service/alarm_flow.py`, `alarms.py` | deduplication window, rate windows | dispatch, shed, summary | `AlarmFlow` |
| Publishers and outboxes | `outbox.py`, `linkstuffs.py`, `linkstuffs_http.py`, `legacy_api.py`, `service/http_outbox.py` | one SQLite queue per route | enqueue, publish loop, mark_*, requeue, purge | `OutboxQueue`, `PartitionedDelivery` |
| Configuration | `config.py` | none | validate, choose routes and timers | `Configuration` |
| Supervisor, control files | `service/control_plane.py`, `control.py` | revision, commands, status | reload, commands, replay, mirror worker | `OperatorPanel`, `SessionLifecycle`, `IngressPipeline`, `CsvMirror` |
| Control panel | `gui/app.py`, `gui/model.py` | configuration being edited, selection, form, worker thread, service it owns | open, edit, enable, save, run, stop | `OperatorPanel` |
| Single instance lock | `single_instance.py` | lock file | acquire, release | `OperatorPanel` |

How an event travels, and who else is at work:

```
tool thread --(spool, drain worker)--> S6F11 --> gateway handler
                                                    |  session guard
   restarts: watchdog,                              v
   supervisor, storage monitor             journal.append  (commit)
   retire hosts and make new ones                   |  ACKC6=0 after the callback
                                  _dispatch_lock <--+--  supervisor replay
                                        |
                   mapper + job tracker: load port, chamber, event type
                                        |
                     +------------------+------------------+
               outbox per route                      lot CSV writer
             (commit per publisher)              (buffer, file, journal)
                     |
               publish loops --> receivers
```

The hard parts are these; `PROJECT.json` lists each at its line under `hazards`,
with the properties that would catch it going wrong:

* **Threads.** One SECS callback thread per tool, a supervisor, one thread per
  publisher, a watchdog with its restarters and checks, provisioning workers,
  the storage monitor; on the tool, its emitters and its drain worker; in the
  panel, the Tk thread and a worker. The callback commits to the journal outside
  `_dispatch_lock`; storage transitions do not take `_reconcile_lock`.
* **Several commits for one event.** Journal, each outbox, the lot file and the
  journal again. The process can die, and SQLite or the disk can refuse,
  between any two.
* **Memory that shadows the journal.** A row of an open lot is owed in the
  journal and held in memory. The job tracker is memory only: a restart forgets
  which carrier is where, and a replay teaches it old news.
* **Objects that outlive their role.** A retired host still has a handler in
  progress, a superseded provisioning worker still has a request on the wire, a
  publisher's thread may outlive its `stop()`, a check may still hold the state
  entry of an older connection.
* **Files shared without a lock.** The configuration is compared by revision and
  then replaced, read in two steps, and written by the panel and by others.
* **Bounds.** A full outbox, a full spool, a LIMIT in every query, an attempts
  limit, caps on rows and on what the tracker remembers, an alarm limit.
* **Lost answers.** A publish, an event report or a subscription message that
  timed out may arrive, later than anything.

## Modules

| module | what it is | composed with |
|---|---|---|
| `IngressPipeline` | session guard, journal statuses, dispatch, lot writer, supervisor replay, start and stop of machines, process death | |
| `OutboxQueue` | one outbox, its publish loops and its receivers | refines `PartitionedDelivery` |
| `PartitionedDelivery` | the abstract promise of an outbox | |
| `ToolLink` | an event from the tool's threads through spool, link, host and guard into the journal | |
| `Subscription` | the dialogue that sets up event reports, against a tool that keeps its definitions | |
| `SessionLifecycle` | who starts and stops the sessions of a running service | |
| `JobTracker`, `MachineProfiles` | the tracker's operations; two profiles reduced to what attribution reads | used by `EventMapper` |
| `EventMapper` | from a report to its load port and chamber | used by `LotAttribution` |
| `LotTool` | the lots a tool plays | used by `LotAttribution` |
| `LotAttribution` | tool, mapper, tracker, lot files, journal and restarts together | |
| `ConnectionHealth` | connects, the liveness check, what is told upstream | extended by `AlarmFlow` |
| `AlarmFlow` | journal, duplicates, limiter, replay and summaries of alarms | |
| `Configuration` | what the loader accepts, refuses or fails on; routes and listeners | extended by the two below |
| `OperatorPanel` | the configuration file between panel, other writers and services; the instance lock | |
| `SimulatorSetup`, `SimulatorRunner` | the settings of a simulated tool and its supervised life | |
| `CsvMirror` | the copies of lot files on the network share | |
| `MC_*` | the constants of the instances | |
| `Subsequence` | what a filter leaves of a sequence, in a form that can be proved about | used by `JobTracker`, `LotTool` |
| `*_proofs` | theorems about the module they are named for; `OperatorPanel_proofs` also has those of `Configuration`, `SimulatorSetup` and `SimulatorRunner`, `OutboxQueue_proofs` those of `CsvMirror` | |

What becomes a step of its own is, everywhere, what another thread or a crash can
come between: a commit, a lock operation, a wait, an exception.

### IngressPipeline

A row `s` of the journal is a number; `ev[s]` is the event, `disp[s]` and
`csv[s]` its two status columns, `attempts[s]` its count. `queued[k]` are the
entries whose key publisher `k`'s outbox holds and `unsent[k]` those still
pending there (module `OutboxQueue` is the detail of that set). `http` are the
machines that have an HTTP publisher of their own; an event of any other machine
goes to the global one instead (`service/http_outbox.py:158-164`), which
is never started and may be disabled: such entries are `diverted`. `rerouted` are the machines whose HTTP route on file is not the one
applied. `GlobalRoute` says whether the global route is enabled, in which case its
outbox stores what it is given. `buf`, `pre`,
`lotOf`, `wfail`, `refs`, `dropped` are the lot writer's buffers, `_pre_lot`,
current lot, failed-write flag, `_seq_refs` and `_dropped_seqs`.

| actions | code |
|---|---|
| `Enter`, `JournalAppend`, `ClaimLive` | `_guarded_event`, `journal.append`, taking `_dispatch_lock` and reading back (`service/dispatch.py:46-106`) |
| `NothingToDo`, `DropUnconfigured`, `Begin`, `Enqueue`, `Divert`, `OutboxFull`, `SinkRaises`, `MarkDispatched`, `MarkRaises`, `ShedAlarm` | `_dispatch_entry` and the publish leg of `_dispatch_event` |
| `CsvSkip`, `CsvPreLot`, `CsvLotChanged`, `CsvBuffer`, `Release` | `PerLotCsvWriter.append` with its write and `_release` |
| `EntryEnds`, `EntryFails`, `EntryJudged` | the end of `_dispatch_entry`, `_record_dispatch_failure` |
| `NoticeConfig`, `StartMachine`, `StartFails`, `StopRetire`, `StopUnroutes`, `StopWrites`, `StopReleases`, `StopPops` | the supervisor's reconcile, `_stop_machine`, which may raise at its flush (`StopAborts`) |
| `RerouteStops`, `RerouteStarts` | a changed HTTP route: the machine's publisher is stopped and another started, which may raise (`service/lifecycle.py:253-255`) |
| `ReplayStart`, `ReplayAssemble`, `ClaimReplay`, `ReplayEnds` | `_replay_journal` |
| `Deliver`, `EditConfig`, `EditRoute`, `Crash` | receivers, operator, death and restart of the process |

One dispatch is in progress at a time (`job`), because every caller of
`_dispatch_entry` holds `_dispatch_lock`. The lot writer's own lock is held by a
dispatch between a write and its release, and by a stop likewise (`WriterFree`).

Abstractions: one load port per machine and one row per event (`LotAttribution`
has several); the mapper is its outcome (a row, an event type with no row, an
alarm, nothing, an exception); the alarm deduplication and rate limit are one
nondeterministic shedding (`AlarmFlow` is the detail); an orderly stop of the
process is covered by its death, which is the worse case for everything durable;
a pre-lot row does not expire in the very step of a failed write; a machine in
`Stuck` has receivers that never take anything. Callbacks that are still running
when their machine is torn down are left to the SECS library, which may or may
not have ended them; so `HeldOnce` is claimed only in the run without edits of
the configuration.

### OutboxQueue

A row is its AUTOINCREMENT id. `part`, `status`, `attempts`, `due` are its
columns (`due` is `available_at <= now`); `thread` is each publish loop with the
batch it fetched, the row in hand, the verdict of its publish and the attempts
read for it; `late` are requests whose sender stopped waiting, `arrived` what the
receiver has, `given` what was ever dead-lettered. The three publishers are three
values of `kind`, where their loops differ: only HTTP looks at `_running` between
rows and is stopped with its machine, MQTT fetches only while connected and has
no permanent failures. `Fetch` to `LoopError` are the steps of `_publish_loop`
with `mark_sent`, the two statements of `mark_failed`, and `mark_dead`;
`Enqueue`, `Requeue` and `Purge` are the other writers of the table. Attempts are
counted up to `Strikes` (nothing looks beyond), and at most `|Threads|` publisher
threads exist. `LoopError` is whatever nobody expects, in the database or in the
sending, and what was being sent then may still arrive.

### ToolLink

The tool is `simulator/equipment.py`, the host `gateway/host.py`, of which every
reconnect makes a new one and retires the old. A sending thread decides under
`_primary_send_lock` and `_spool_lock` whether to send or to spool (`Emit`,
`Send`, `GiveUp`, `Queue`), the drain worker takes the head, sends and pops it
(`DrainLoop`, `DrainNext`), and whoever finds no worker makes one and starts it in
a later step (`Schedule`, `StartWorker`). The handler takes a message, looks at
its callback, calls it through the session guard, which reads the generation of
the machine, then waits for the journal's lock, appends and answers (`Take`,
`Admit`, `Accept`, `Refuse`, `Confirm`, `Answer`), while `Retire` closes
callback and guard under it, `Close` the socket, and `Restart` gives the machine
its next generation. The journal recognises a
repeat by system bytes within a generation, and across generations by body
within a window (`Repeats`); the tool keeps its system bytes, as SEMI E5 asks, or
not (`keeping`). Both settings, and spooling or not, are explored.

### Subscription

A worker of `secs_runtime.py` captures host and epoch, may reset the tool
(disable, unlink, undefine everything), and goes through the bands: define,
delete and define again when the tool says it has the report (DRACK=3), link,
enable. It retries with a pause what was refused or unanswered. `wire` holds the
messages in order, also those of an ended connection: the tool handles them and
their answers are lost. A band is one report and one event.

### SessionLifecycle

A session object outlives its connections: each `start()` gives it a new host,
each `stop()` retires the one it has. `live[m]` are the hosts that are enabled and
not retired, `slot[m]` the one the tool, which serves a single peer, is connected
to. `sup` and `job` are the reconcile with its worker (each step of
`_stop_machine` and `_start_machine` is one), `restarter` the watchdog's thread,
`storage` the monitor with its debounce, its failed integrity check and its
callback through the sessions, `teardown` the `stop()`. Starts and stops may raise.
A stop that raises at its flush has taken the session off the list already, and
what follows depends on who called it: the machine keeps its old settings on record
while the reconcile goes on to the new revision (`WorkerStopFails`, `unsettled`);
the exception of a new machine's handler leaves the reconcile, which sets no
revision, and may end the supervisor ("broken", "dead"); and `stop()` ends where it
was (`StopFails`). The number of a session or
host that nothing refers to is used again, which keeps the instance finite
without a counter. The watchdog does not spawn a restarter in the moment between
the check and the enabling of a session's own start.

### LotAttribution, EventMapper, JobTracker, MachineProfiles, LotTool

`JobTracker` has every operation of `job_tracker.py` as an operator on the record
of a machine. `EventMapper` decodes what the profile's reports carry and attributes
a port: the payload's, else the one the event's number implies, else what the
tracker knows by chamber, wafer, lot or job. `LotTool` plays the scripts of the
NexGen MG (two ports at once, shared modules) and of the DaVinci (one port, never
named by the wafer reports). `LotAttribution` puts them together with the lot
writer and with the entries the journal still owes, across lost links, late
replies, a refused subscription band, a full outbox, crashes and clean stops; a
restart forgets the tracker and replays what is owed, while the tool is connected
again and its live events may come first. `missed`, `lingering`, `whole` and
`overtaken` are history: ports of whose wafer a report was lost, of whose carrier no
removal was reported, lots that can be complete, and whether a live event came
before an older one that was still owed. Each event carries the number of its lot,
which no report does, so that two are never the same. `Owing` is the journal's
pending query; a dictionary or a list of the tracker is a sequence, filtered by
`Keep`.

### ConnectionHealth and AlarmFlow

A connection is `rising` until `_on_connect` has replaced its state entry. The
check asks for the tool's LastEventID (`Ask`, which may wait up to T3), and judges
with the entry it began with; `base` says how the reading in the entry compares
with the tool's. Alarms are journaled by the callback (`Report`), decided under
the dispatch lock by it or by the replay (`Dispatch`: duplicate, shed or
published), counted by the limiter and told of in a summary (`Drain`). `picture`
is what upstream was last told, `actual` what the tool has. Time is in ticks of
the two windows the code compares. Reductions: expired admissions leave the
limiter at once, decided entries are forgotten, an old state entry is forgotten
unless a check holds it, a crash happens only with something at stake.

### Configuration and OperatorPanel

`Accepted(raw)` is the loader's validation, machine by machine and between
machines; `Outcome(raw)` is "loaded", "refused" (a `ConfigError`) or "raises"
(what is no `ConfigError`, and ends the supervisor). A flag is "yes", "no" or
"unset", because different readers have different defaults. In `OperatorPanel` the
content of the file stands for its revision, the hash of its bytes. The panel's
handlers run one at a time and end where they ask for the revision or replace the
file (`OpenText`/`OpenRevision`, `Save`/`Replace`); its worker thread starts and
stops the service it owns; a service reads revision and text in two steps
(`ReadRevision`, `Reload`). What may fail is the save itself (`ReplaceFails`), a step
of `start()` (`StartFails`) and then its unwinding (`UnwindFails`, after which the
lock goes all the same), what the panel does about that (`Undone`, which leaves an
`orphan` when its own `stop()` raises too), a `stop()` before it lets the lock go
(`StopFails`) or in its last status (`halted`), the reading of the revision
(`RevisionFails`, which ends the supervisor), and a reconcile after it took the new
text (`torn`). A lock is let go in two steps, as on POSIX: unlocked (`Unlock`), then
its file is removed by name (`Stopped`, `Undone`), which may by then be a file
somebody else has locked (`unlinked`). The panel is not opened on a file with entries that
are no mappings; `Stopped` joins the supervisor.

### SimulatorSetup and SimulatorRunner

What the packaged simulator's settings must be, what the service builds for an
embedded one past that validation, and `SimulatorRunner.run` with its TCP and GEM
callbacks, its two backoffs, its limit and its exit codes. A wait ends in some
step and keeps its length, which is what the properties are about.

### CsvMirror

`owed` are the lot files whose rows the journal owes, `local` what is on the local
disk, `temp` and `share` what is on the network, `task` the rows of `csv_mirror`,
and each worker has a batch and, in the midst of a copy, what it read.
`Write`, `EnqueueMirror`, `Release` and `WriteFails` are `_write_buffer`;
`PendingMirrors` claims under leases, `Begin` to `FailMirror` are one turn of
`retry_mirrors`, with the copy in its three steps: open, written, renamed.
`LeaseExpires` and `BecomesDue` are time. A worker may outlive `stop()`, which
waits two seconds for it, and meet the one of the next start: hence several. That
a power cut can undo a rename that was not synced is left out.

## What is checked

| run | instance | shows |
|---|---|---|
| `pipeline_lot` | one machine; pre-lot, open, close and lot change; failed write, TTL, full outbox, crash | `HeldOnce`, `CsvDoneMeansOnDisk`, `BackpressureNeverParks` |
| `pipeline_publish` | two callback threads against the replay; two publishers of capacity one; raising sink, raising journal, shedding, crash; one edit that starts the machine, stops it or changes its HTTP route | `DispatchedMeansQueued`, `TerminalIsForever` |
| `pipeline_reconfigure` | two edits; failed write, failing journal, failed start | `TypeOK`, `HeldIsInMemory` |
| `pipeline_live` | two machines, one of them stuck; a sink failure, a journal failure, a crash; fair | `OtherMachineUnblocked` |
| `outbox` | each publisher; two partitions, one never accepted; two threads, two rows, two disturbances; fair | `NothingLost`, `ArrivalOrder`, `ImplementsDelivery`, `Drains` |
| `link` | one emitting thread and a drain worker, two events, a spool of one, two successive hosts, two troubles; spooling or not, keeping system bytes or not; fair | `NothingLost`, `Ordered`, `AckedIsStored`, `RepeatsRecognised`, `SpoolDrains` |
| `subscription` | two workers, two bands, two attempts, two starts of the session, a lost connection or a late answer; every mix of reset, quiet, refused and colliding bands; fair | `AcceptedBandsReport`, `SupersededSilent`, `NoLateReset`, `EventuallySubscribed` |
| `sessions` | one machine with two variants of its settings; two requests (edits or restart commands), two faults (a start or a stop that raises, a lost link), one full disk, debounce two; fair | `OneHost`, `HostsAreReachable`, `StopLeavesNothing`, `Quiesced`, `AppliedIsRunning`, `GenerationsAreFresh`, `EventuallyConnected` |
| `attribution` | MG with two ports and two shared modules, or DaVinci; two batches of lots, one fault (lost link or reply, crash, clean stop, full outbox, an event that overtakes), an optional refused band | `AttributionSound`, `FilesDoNotMix`, `DepartedForgotten`, `WholeLotInOneFile` |
| `operator` | two machines on the file, one to add; three clicks, one foreign edit out of three texts (one refused, one that ends the supervisor), two starts, one command; saves, starts, unwindings, stops and reconciles that fail at any time; fair | `NoEditDiscarded`, `EnabledAsAsked`, `AppliedMeansRunning`, `OneServiceOwned`, `FileIsApplied` |
| `alarms` | a watched tool, or a stormy one with one safety alarm and one other; three reports, a refusal, a crash; two connects of the watched one; fair | `PictureIsTrue`, `StormIsTold`, `SilenceIsTold` |
| `finding_silence` | the watched tool alone; fair | refutes `ConnectionSilenceIsTold`, see [below](#departures-from-the-documentation) |

### Bounds

Two or three events suffice for every interaction the pipeline has: an entry with
an older one of its machine, an entry with one of another machine, a row replaced
in a buffer of one. The caps (outbox, spool, pre-lot rows, rows of a failed lot,
attempts, dead-letter strikes, alarm limit) are one or two, so that each is
reached. Two hosts are the old and the new one, two provisioning workers the
superseded and the current one, two ports and two modules the smallest tool whose
lots can be confused, two batches a lot that meets what the one before left. In
`attribution`, five of the twelve events of the MG script stand for all: the others
neither act on the tracker in another way nor make a row of another kind; a lot has
one wafer. Its one fault is a gap or an overtaking; the theorems hold for any number
of both together and for any part of the script that keeps the carrier's removal,
and for a step the start of its wafer (`ScriptAssumption`).
Failures, crashes, edits and clicks come from budgets; a temporal property is
checked beyond the last of them, and its antecedent may have met them all.

The bounds are guards, with two exceptions. `sessions` has the state constraint
`Explored`. What follows a storage transition that ran while a session was being
restarted is not explored, because two hosts and connected tools on a full disk
are then possible (see below) and the properties are about executions without it;
and the second request comes only while no disk was full yet and `stop()` was not
called. In `operator`, the constraint of the same name leaves out what combines the
foreign edit with a second start and the last click. A run of two starts does not
get to two services that are both up, which would take a third; it does get to the
removed lock file, and `ServiceIsOwned` is proved for any number. With `Limit` equal
to `MaxSeq` the LIMIT of the pending queries does not bind in the pipeline's runs.
`attribution` is checked up to the symmetry of the modules,
`pipeline_publish` up to that of the callback threads; neither has a liveness
property (`WholeLotInOneFile` and `TerminalIsForever` are about steps).
`CHECK_DEADLOCK FALSE` is there where an instance whose bounds are spent, or a
service that was stopped, has nothing left to do.

### Fairness

Weak fairness of each thread of the service: Python threads are preempted, the
supervisor, the watchdog, the publish loops and the storage monitor run for ever,
locks are released after finitely many steps, and waits have timeouts. In detail:

* `pipeline_live`, `outbox`: callbacks, dispatch, supervisor and publish loops;
  receivers that are not stuck take what they are given; MQTT reconnects (its
  client does) and backoffs end.
* `link`: the tool's threads and the drain worker run, a handler returns, the
  service connects again. Each retry of the drain is after a bounded delay.
* `subscription`: the tool takes its messages, workers run, the session is started
  again and its connection comes back. A wait that expires is a step of its worker
  when its answer cannot come any more, and a trouble of the budget otherwise.
* `sessions`: reconcile, worker, restarter and storage callback go on. A tool that
  accepts connections is reached between two attempts of the watchdog, whose delay
  doubles: strong fairness of `Connect`.
* `operator`: the supervisor's loop turns while its thread lives; nobody clicks.
* `alarms`: the watchdog or its check (`Watches`), the notice on a connect, the
  callback, the replay from one step to the next (`Replays`) and the summary, each a
  thread of its own, run on, and the clock ticks.

Nothing obliges a tool to send, an operator to act, a late request to arrive, a
disk to have room or anything to fail.

Each property of a passing run has a mutant in `PROJECT.json`, a plausible bug of
the mapped code, defined in the module just before what it replaces
(`<definition>_<what is wrong>`), with which the run fails.

## What is proved

For every value of the constants: every number of machines, threads, rows,
failures, crashes, clicks and edits, and every configuration.

| theorem | statement |
|---|---|
| `TypeCorrect` | `IngressPipeline`: `[]TypeOK` |
| `CsvDoneCorrect` | `IngressPipeline`: `[]CsvDoneMeansOnDisk` |
| `DispatchedCorrect` | `IngressPipeline`: `[]DispatchedMeansQueued`, with what was diverted excepted by name, and when anything can be |
| `HeldCorrect` | `IngressPipeline`: `[]HeldIsInMemory` |
| `PublishSettledForever` | `IngressPipeline`: `[][Settled(disp, disp')]_vars`, half of `TerminalIsForever` |
| `HeldOnceCorrect`, `SettledOnce` | `IngressPipeline`, when nobody edits the configuration and the journal refuses no release: `[]HeldOnce`, `TerminalIsForever` |
| `BackpressureCorrect` | `IngressPipeline`, when nothing but full outboxes and the alarm limiter is in the way (`NothingElseFails`): `[]BackpressureNeverParks` |
| `DeliveryCorrect` | what a `PartitionedDelivery` promises, at the outbox's refinement mapping: `[](NothingLost /\ ArrivalOrder)` |
| `OutboxTypeCorrect` | `OutboxQueue`: `[]TypeOK` |
| `OutboxImplements` | `OutboxQueue`: `Spec => Delivery!Spec` |
| `OutboxLosesNothing`, `OutboxKeepsOrder` | `OutboxQueue`: `[]NothingLost`, `[]ArrivalOrder`, through the refinement |
| `LinkTypes`, `LinkLosesNothing`, `LinkKeepsOrder` | `ToolLink`: `[]TypeOK`, `[]NothingLost`, `[]Ordered` |
| `AckMeansStored`, `RepeatsAreRecognised` | `ToolLink`: `[]AckedIsStored`, `[]RepeatsRecognised` |
| `SubscriptionTypes`, `AcceptedReport` | `Subscription`: `[]TypeOK`, `[]AcceptedBandsReport` |
| `SilentOnceSuperseded`, `ResetsComeFirst` | `Subscription`: `SupersededSilent`, `NoLateReset` (properties of steps) |
| `LifecycleTypes`, `HostsReachable` | `SessionLifecycle`: `[]TypeOK`, `[]HostsAreReachable` |
| `AtMostOneHost`, `StoppedIsEmpty`, `FullDiskIsQuiet` | `SessionLifecycle`: `[]OneHost`, `[]StopLeavesNothing`, `[]Quiesced` |
| `RunsWhatIsApplied`, `GenerationsFresh` | `SessionLifecycle`: `[]SettingsAreApplied` and with it `[]AppliedIsRunning`; `GenerationsAreFresh` (a property of steps) |
| `EditsAreKept`, `SavesAsAsked` | `OperatorPanel`: `[]NoEditDiscarded`, `[]EnabledAsAsked` |
| `AppliedIsRunning` | `OperatorPanel`: `[]AppliedMeansRunning` |
| `ServiceIsOwned` | `OperatorPanel`: `[]OneServiceOwned`, up to the failures it names |
| `AcceptedListenersDisjoint` | two machines of an accepted configuration do not listen on overlapping addresses of one port |
| `RoutedHasUpstream` | an enabled machine of an accepted configuration that is not offline has a queue its events reach |
| `EmbeddedAccepted` | what the service builds for a simulator would pass the packaged one's validation, given three bounds the loader does not check |
| `NoGuess`, `OneLotPerFile`, `NothingOfTheDeparted` | `LotAttribution`: `[]AttributionSound`, `[]FilesDoNotMix`, `[]DepartedForgotten` |
| `TypeCorrect` | `LotAttribution`: `[]TypeOK` |
| `AlarmPicture` | `AlarmFlow`: `[]PictureIsTrue` |
| `ShedCountedOnce` | `AlarmFlow`: `[]Counted`: an alarm that was shed and is in no summary yet is in the count of the next, and in nothing else, unless a count was lost |
| `SharedWhole`, `MirrorNotForgotten`, `LeasesHold` | `CsvMirror`: `[]WholeOnShare`, `[]NoneForgotten`, `[]LeaseHolds` |
| `RestartsStayBounded`, `WaitsStayWithin`, `EndsOnlyForAReason` | `SimulatorRunner`: `[]RestartsBounded`, `[]WaitsWithin`, `[]EndsForAReason` |

The only assumptions are those of the modules on their constants
(`PipelineAssumption`, `OutboxAssumption`, `LinkAssumption`,
`SubscriptionAssumption`, `LifecycleAssumption`, `NoneAssumption`, `TextAssumption`,
`ProfileAssumption`, `AlarmAssumption`, `CapsAssumption`, `ToolAssumption`,
`ScriptAssumption`, `FaultsAssumption`), which TLC evaluates in the runs, the conditions the table names, and `MirrorConstants`, an assumption of the
theorems that rest on it: no file and an unfinished one differ from each other and
from every content. `AcceptedListenersDisjoint` also assumes that a
passive machine's address is not left blank, and that a simulated passive one has
the wildcard or loopback (`PlainBind`), for the loader compares what the file says
and the simulator binds 127.0.0.1.

*Pipeline, types.* `TypeOK` is not inductive: a callback's or a job's row could be
one that does not exist. `Rooted` says that whatever names a row names an
existing one.

*Pipeline, lot rows.* `CsvDoneMeansOnDisk` is not inductive because `_release`
writes off a buffer some time after it was written. `WrittenBeforeReleased` adds
that while a release is under way, by a dispatch or by a stop, everything in that
buffer is on disk. It survives the other threads only because of the writer's
lock.

*Pipeline, publications.* For `DispatchedMeansQueued` the invariant adds that the
publishers the dispatch has passed all hold the entry, or its HTTP event was
diverted (`QueuedBehind`). That exception says nothing of when it applies; the second
half of the property does, a machine with a live session has its HTTP publisher but
while its route is being changed, and rests on the order of the starts and stops:
the publisher comes before the session and goes after it.

*Pipeline, what is held.* A row is held while its reference count is not zero, so
`Referenced` says where such a row is: in the buffer or among the pre-lot rows of
its own machine, of which only one is in use at a time, with one reference; and the
row a dispatch is about to write has none. Every removal from memory drops the
references of just what it removes.

*Pipeline, once.* `HeldOnce` and the lot half of `TerminalIsForever` are proved under
the conditions of their runs, for without them they are false. A dispatch that
claimed its row as owed before a stop resolved it appends it again; and after a
refused release the rows of a buffer have lost their references, so that the replay
appends them a second time, or, when the machine has gone meanwhile, drops
them as unconfigured, to be marked done when the machine is back
(the UPDATE of `journal.py:497` does not look at the old status). Under the
conditions a machine that has rows is never taken down (`MachinesStand`: only one
that failed to start is, and it has none; `ThreadsStand`: whoever is past the
session guard works for one that stands), and `HeldOwed` carries both properties:
what is in memory is there once, is referenced and still owed, and so is the row
about to be written. Crashes, failed writes, expiry and failed starts are all
allowed. The publish half needs no condition: `PublishOwed` says that while a
dispatch has the publish leg to settle its entry is pending, since nobody without
the dispatch lock touches that column.

*Pipeline, backpressure.* `Unforced` says that no dispatch comes to an error, no
machine is without a mapper when it is replayed, and so nothing but an alarm the
limiter shed is ever dropped, however long an outbox stays full. A sink or a journal
that raises, a poison event or a machine that does not start does park or drop
entries, as the code means it to; the theorem is about the others.

*Outbox.* The argument that makes the order hold in spite of stale batches,
outlived threads and requeues is one idea, `Front`: a row in hand was at the
front of its machine when it was fetched, and a row at the front stays there
until it is settled or dead-lettered, because new rows have larger ids and a
requeued row had been given up before. `OutboxInv` says that of every batch, of
every row in hand and of every late request; then each publish, settlement and
burial is a step that `PartitionedDelivery` allows. At the level of the abstract
specification, `InOrder` strengthens the order to what was given up as well.

*Link.* None of the four properties is inductive. `LinkInv` begins with who holds
what: a sender has its newest event and nothing else (`SendersInOrder`), a worker
that was made is started once, by the caller that made it (`Waking`), and what a
drain worker has in hand is in the spool or settled (`WorkersHold`), where settled
is stored or excused. So only what a sender holds is nowhere else, and
`Accounted`, which leaves the workers out, says more than `NothingLost` and is
kept by each step. The order rests on one idea, `OneAfterAnother`: while an event
is stored, in a host's hand or in its queue, or on its way, every earlier one of
its thread is settled. An event starts on its way in two places only. `Emit` sends
it directly when there is no backlog, and then its thread holds nothing and the
spool is empty; `DrainLoop` takes the head of a spool that keeps the order of each
thread (`SpoolInOrder`), and then no earlier one is in the spool, nor held, for a
sender holds its newest. Workers may be many, hosts old and new and copies of one
message everywhere: `OneDrainer` is false, and not needed. `RepeatsRecognised`
carries itself, with what `Age` may put into the window (`JournalHolds`).

*Subscription.* `AcceptedBandsReport` speaks of the workers that are done and says
nothing of how they got there. A message with a sender is the only one of his, who
waits for its answer (`Asked`), and while no two workers share a connection it is
the last on the wire (`Newest`); so when its acknowledgement comes in time the wire
is empty, and no define or reset of an earlier connection, or one that was given
up, is still to be handled (`Progress`). A band is accepted only then, and from
there on `Safe`: the tool reports it and nothing on the wire touches it, for who
sends later has come past that band. The host's own list is behind while its worker
is changing the tool and has not yet told (`Listed`). `Records` is what makes the
step properties hold: a worker has the host of its own session, resets in its first
attempt only, and has judged only the bands before the one it is at.

*Sessions.* `OneHost` says nothing of those who are about to start a session.
`Listing` and `Empty` do: whoever starts one has the session that is listed for
its machine, no other thread has it (`Fresh`), and none of the machine's hosts is
enabled, because the reconcile lock keeps the supervisor's job and the restarters
apart (`Locks`). `Owned` says where an enabled host belongs: to the listed session
or to one that a job or a teardown has in hand to retire it. Two threads take no
lock, and the invariant names them: after `late` a start outlived the join of
`stop()`, after `overlap` a storage transition ran while a session was being
restarted; each part holds until the one that concerns it. `FullDiskIsQuiet` rests
on `Callbacks` and `Quiet`, which follow the storage callback through the sessions
it has still to visit; `RunsWhatIsApplied` on `Follows`, which says at each step of
a job where the record of the machine stands between the settings it leaves and
those it goes to, unless the machine is one the reconcile raised on (`unsettled`),
and needs neither of the two histories; `GenerationsFresh` on `Generations`: whoever is about to put a
host in place holds a number that no host had.

*Panel.* `NoEditDiscarded` says nothing of how a save comes about. `Read` does:
unless an edit fell into one of the panel's two windows, what it is about to
replace is the text it read, and the revision it compares with is that text's.
`OneServiceOwned` and `AppliedMeansRunning` follow from `ServiceInv`: the holder of
the lock is who has a service on its way (`Locked`), what the panel believes of
its service is what its thread is doing (`Known`), and revision and configuration
agree from the constructor on (`Agreed`). An unwinding is on its way until it ends
or raises; from there on nothing is claimed of what still runs (`OneServiceAlways`
does, and is false), and nothing of the lock once a held file was removed. None of this depends on what
`Accepted` says, so the definitions of `Configuration` stay folded.
`EnabledAsAsked` is about the text that reaches the file, but the flag lives in two
places before, in the row and in the checkbox of the selected row, which go apart
with every click. `Kept` says that what was asked of a machine is in the checkbox if
it is the selected one and in its row if not, and `Saved` that a text on its way to
the file has the checkbox in it. A text the loader refuses may name two machines
alike, and then nothing is claimed of those two; that a text that loads cannot is
the one place where `Accepted` is unfolded.

*Configuration.* `AcceptedListenersDisjoint` is a case split over who listens: two
simulated machines, a simulated and a passive one, two passive ones, each
excluded by another check of `_validate_unique`. Large ranges (ports, device ids,
delays) are named definitions and stay folded in the proofs but where a bound is
needed.

*Attribution.* The invariant is in two parts, because one of them does not survive
an event that overtakes older ones, and the properties say which they need. `Base`
holds always: a module holds one wafer, the events still owed are of the tool's past
and all different, and the writer's shelves, buffers and pre-lot rows, have the
rows of the entries that are held and no others, those of one lot to a shelf. A file
is written from one shelf, which is `OneLotPerFile`, and at no time does it matter
what the tracker knows. `InOrder` holds while nothing was overtaken, and says what
the tracker knows now or will know once it has been told what is owed, so that a
crash, which moves everything from the first to the second, leaves it true: a port
the tracker knows has its carrier on it, or the report of the removal is still to be
read; and a step that is due, or waits to be published, has its module bound to its
own port, or the report that binds it is owed with nothing behind it that would bind
the module to another port. `NoGuess` then follows at the moment an event is
dispatched, from what the tool is doing; `NothingOfTheDeparted` is `InOrder` once
nothing is owed. Both rest on what a `Keep` keeps and in which order (`KeepIs`,
`PlacesStep`). That is an induction over the positions; the library's theorems for
it take an operator, so it is done by the smallest position at which the claim
fails (`Least`).

*Alarms.* `PictureIsTrue` looks at alarms with nothing pending. `Clear` adds those
with something pending: of an alarm that nothing disturbed at most one report is
under way, it says what the tool has, and when the half second of the duplicates
would drop it, upstream knows already (`Underway`). A report on top of a pending one
disturbs the alarm (`blurred`), for the two can be published in either order; it
is undisturbed again once it is reported with nothing of it pending.
`ShedCountedOnce` is a sum: what no summary has counted yet is what the limiter
still has to tell.

*Mirror.* The three properties say little of what a worker holds; `MirrorInv` does.
A file nobody claimed twice is in one batch (`Alone`, which rests on `Leases`: a
row in a worker's hands is queued and leased until its lease runs out), and the
worker at it has read what is there (`Copies`: its content is that of the local
file or the file is gone), so that what it renames is whole and the task it closes
is one whose file is on the share. `CsvMirror` has no run of its own. Two
kinds of file are excepted because they must be: one written again in the middle
of its copy can be forgotten, and one claimed twice can be half on the share.

*Simulator.* The invariant `IInv` adds to the three properties that the restart
count and the number of services agree at each place of the loop (`Counted`),
that there is an instance only while it is being served (`LiveInRound`), and that
the exit code is settled when the round closes (`CodeHeld`). The runner has no
run of its own either: its properties are the theorems.

Only model-checked: `WholeLotInOneFile`, which needs the opposite of `InOrder`, what
the tracker must know of a port and not what it may, through the caps of its
dictionaries, with what each shelf still lacks; and the properties under fairness (`OtherMachineUnblocked`,
`Drains`, `SpoolDrains`, `EventuallySubscribed`, `EventuallyConnected`,
`FileIsApplied`, `StormIsTold`, `SilenceIsTold`), which are beyond the prover. Every
invariant of a run, and every other property of steps, is also a theorem.

## Departures from the documentation

**Refuted by a run.** `ConnectionSilenceIsTold` (`finding_silence`): after a report
was heard on a host, a connection that the library brings back by itself before
the watchdog's next round keeps that host, whose `last_event_time` is set; the
liveness check returns at once (`service/health.py:274`) and a silence of the new
connection is never told. `service/health.py:62` says that every connect has a
fresh host. `SilenceIsTold` is what does hold.

**Stated and not run.** The modules also state properties the code does not have,
beside those it has, each with the sentence of the repository it comes from:

* `FailedWriteRetried`: a lot whose write failed is not retried by the replay. Its
  rows stay held, and the replay passes over held rows
  (`service/dispatch.py:227`), although `journal.py:515` says the entry stays
  pending so replay retries it. Only a later event or a stop of the machine writes
  it.
* `DropsOnlyUnconfigured`: a machine whose start fails loses what the previous
  process had acknowledged for it (`service/dispatch.py:125`), although
  `service/lifecycle.py:81-84` says that is finished at startup.
* `EventuallyDispatched`: an entry parked after its attempts whose row is still
  owed fails in every replay and blocks the later entries of its machine
  (`service/dispatch.py:157`), which the limit is there to prevent
  (`service/constants.py:23-26`).
* `DeadAfterStreak`: rows are dead-lettered on the count of all failures, not of
  "5 consecutive permanent failures" (`linkstuffs_http.py:271`); a requeued row
  starts with its old count.
* `Ordered` without its exception for what a retiring host acknowledged: with
  three hosts, a copy that the first still has in hand can be stored after a later
  event. `RepeatsRecognised` compares a row with the one before it and not with
  every earlier one for a like reason: a handler reads its generation before it
  waits for the journal (`service/dispatch.py:68`), so the rows of one message
  need not come in the order of their generations.
* `RetryCollapses`: a retry becomes a second row where the tool sends it with new
  system bytes, as the simulator does through secsgem
  (`simulator/equipment.py:713`), or in a later session after the window.
* `OneDrainer`, `NeverStranded`: between the making of a drain worker and its start
  another caller sees it as not alive and makes a second one
  (`simulator/equipment.py:620`), and a wake-up can meet a worker that leaves.
* `AckedIsAlwaysStored`: a handler that looks at its callback after `retire()` has
  cleared it acknowledges without storing (`gateway/host.py:310-328`).
* `OneRoundTrip`: a reconnect during a round trip starts a second provisioning
  worker on the same host (`secs_runtime.py:167`), and what `AcceptedBandsReport`
  and `NoLateReset` say is void then (`crowded`).
* `DisabledIsStopped`: a machine whose restart raised stays on record when it is
  disabled, and a restart command starts it (`service/control_plane.py:281`,
  `service/lifecycle.py:283-287`). `AppliedIsRunning` is about the others.
* `AppliedIsRunningAlways`: a `flush_machine` that raises leaves the machine's old
  settings on record with its session gone (`service/lifecycle.py:264-269`), the
  reconcile sets the new revision nevertheless (311-312), and a restart command then
  runs the old settings under it (`service/control_plane.py:281`). What the status
  file calls the running revision is not what that machine runs. `AppliedIsRunning`
  excepts such machines (`unsettled`).
* `DispatchedIsDurable`: "Every publisher owns a durable outbox", says the comment at
  `service/dispatch.py:335-339`. A callback whose machine has meanwhile lost its HTTP
  publisher, because it is being stopped or its route is being changed, gives the
  event to the global one (`service/http_outbox.py:163`), which ignores it when it is
  disabled and otherwise stores it in an outbox whose publish loop was never started;
  and the entry is marked dispatched.
* `OneServiceAlways`: a failed start is unwound "so the failure is reported once and
  cleanly" (`service/lifecycle.py:69`). When the unwinding raises too, the lock is
  released (104) while sessions may still run, and the panel, whose own `stop()`
  can raise as well, drops the handle (`gui/app.py:256-269`): a service that holds
  no lock and has no owner. The other way to two services is the lock file removed
  after it was unlocked: the process id is read before the unlock
  (`single_instance.py:79`), so the guard against "another process reclaimed a stale
  lock" (89-90) does not see who locked the file in between.
* `OneHostAlways`: a storage transition starts sessions without `_reconcile_lock`
  (`service/lifecycle.py:400`), so a restarter can start a second host; a restarter
  never looks at the storage state either, so a tool may be connected on a full
  disk. `stop()` takes no lock, does not join restarters, and its join of the
  supervisor is bounded: a thread that was starting a session then leaves it
  behind (`late`).

**Read in the code while modelling**, by part:

* *Pipeline.* The live path does not look at older pending entries of its machine,
  so it overtakes an entry held back by a full outbox (`service/dispatch.py:162`),
  and so does a replay that skips a held entry (227). The pending queries limit
  before they filter, so held rows can fill them (`journal.py:542-560`). An entry
  whose references are gone but whose journal update failed is released a second
  time (`csv_store.py:261-271`). A row sent by one thread can be dead-lettered by
  one that outlived its publisher (`linkstuffs_http.py:242-246`), which the
  delivery allows because it has arrived.
* *Mirror.* A file written again while it is being copied finds its task still
  queued (`INSERT OR IGNORE`, `journal.py:582`), and the copy of what it was before
  then closes that task: the old version stays on the share. A batch is leased at
  once for 300 s, so with eight copies that each wait for the time limit of the
  system a lease can run out in the hands of its worker; two copies then write one
  temporary file, and what is renamed may be half (`twice`).
* *Pipeline, replay.* The LIMIT of the pending query (`journal.py:548`) counts the
  entries of all machines, so as many old entries of one that is stuck keep those of
  the others out of every pass, although "a failure holds back only its own machine"
  (`service/dispatch.py:191`).
* *Sessions.* A restart whose `_start_machine` raises leaves the machine without a
  session, and a reconcile of an unchanged configuration does not start it; a new
  machine whose start raises waits for the next revision. When the stop that
  follows it raises as well, the exception leaves `reconcile`, with every other
  machine's new settings applied and the revision not set.
* *Attribution.* The replay applies old transitions and chamber notes again and
  attributes with what the tracker knows now. A lost wafer start leaves the
  chamber bound to the port before (`missed`). DaVinci lot start and end rows have
  no port and go to the `NA` bucket. The row of a removed carrier, and pre-lot rows
  of a carrier removed without a lot id, go into the next lot's file; so does the
  first row after an abandoned lot into the file before (`whole`). After a clean
  stop nothing is owed, so nothing rebuilds the tracker. The sessions are started
  before the startup replay (`service/lifecycle.py:80-86`), and a full outbox ends a
  pass, so live events can overtake what is owed; the older ones are then applied to
  a tracker that is ahead of them. They bind a module again to a port its wafer has
  left, make a port known whose carrier is gone, and spread a lot over several
  files. `AttributionSound` and `DepartedForgotten` therefore hold only until that
  happens (`overtaken`), and a lot of which it happened is not `whole`;
  `FilesDoNotMix` needs no such condition.
* *Alarms.* A refused publish leaves its time in the duplicate window, so that a
  replay or resend within half a second drops the alarm as a duplicate of itself.
  A set that failed, or that the replay at startup has not come to, is published
  after the later clear, which the live path does not hold back. A
  safety alarm set, cleared and set again within half a second loses its second
  set, although such alarms "must never be shed" (`alarms.py:59`). A replay at
  startup of several alarms of one signature drops the later ones. The counts of
  a summary are lost in a crash or when a machine is removed. These are what
  `blurred` and `lost` except.
* *Health.* The flag of a state entry is set before the alarm is published, so a
  refused one is never told again on that connection. `delivered` is read before a
  wait of up to T3, so a report that arrives meanwhile does not stop a
  `no_event_reports` alarm. The all-clear is not published, for the check is no
  longer started once reports arrive (`service/health.py:274-277`, beside
  `tests/test_event_liveness.py:333`). A check judges with the entry of the
  connection it began on. While the storage gate is closed the watchdog idles. A
  connect notice refused by a full outbox ends `_on_connect` early.
* *Panel.* Its round trip writes a false for an absent key that defaults to true
  (`tests/test_gui.py:89`). A blank bind address is a wildcard to the socket and a
  string to the comparison. An explicitly blank token hides the global one. An
  exception that is no `ConfigError` or `OSError` ends the supervisor
  (`service/control_plane.py:174`), and with it reload, commands and replay, which
  by the comment at 191 nothing must ever kill; so does an error of
  `file_revision`, which is called outside the `try` (163). A reconcile that raises
  has replaced `self.config` already (`service/lifecycle.py:280`) and leaves the new
  text under the old revision (`torn`). The revision is read before the text: a file
  replaced in between runs under the name of the one before, until it changes again
  (`raced`). A save compares the revision and then replaces the file, so an edit in
  between is lost (`control.py:69-93`, `late`). A
  command consumed before a crash is lost; one submitted with no service is run by
  the next. A panel start that fails overwrites the status of a running service.
* *Simulator.* An embedded simulator is built past validation: its interval has no
  upper bound, its alarm and event numbers may exceed 31 bits, the type of a
  variable without a value is not looked at. The restart count is of the whole
  life, not of a streak. `_connection_attempt_windows += 1` races with the
  callback's reset, so the runner can give up just when it is connected. A
  `disable()` that raises replaces the exit code of the round with another
  failure.

## What is not modelled, and the plan

* Command files as such: the model has their numbers, when they are consumed and
  answered, not their names and retention.
* Outage escalation, the jitter of the backoff, SVID polling, annotated reports,
  QoS 0, alert thresholds, purging of the journal, the adoption of a legacy queue.
* The comparison of bytes and percentages in the storage gate: a sample is the
  state it asks for. The alarm query of tools that support it is never sent.
* Payload formats, process values and metrics, encryption, vendor tables beyond
  MG and DaVinci, network interface lists: stateless translation of data.
* Layout and text of the Tk windows, the simulator's window, the host simulator,
  event replay and generated measurements, probe and restore commands, scripts,
  packaging, logging.

Worth proving next: that a lot of which everything was received is in one file,
with `RowsDue` as a `Keep`. Worth a run: that a queued copy is made in the end when
the share answers.
