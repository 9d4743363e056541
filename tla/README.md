# A formal model of yyr4-linux-control

yyr4-linux-control turns the key presses of a YYR4 macro pad into actions on a
Linux desktop. A user daemon (`yyr4d`) finds the device, reads its two input
interfaces, decodes key chords into the pad's 24 controls, looks the control up in
a configuration of profiles and layers, and runs the action it finds. `yyr4ctl`
talks to the daemon over a Unix socket (status, reload, layer and profile
switches); a local web editor edits the configuration file.

This directory holds TLA+ modules for the program, TLC configurations that check
them on small instances, and proofs that TLAPS checks for every instance. Paths
below are relative to `src/yyr4_linux_control/` unless they start with `docs/` or
`tests/`. `PROJECT.json` maps every definition to the lines it models.

## 1. The system

| part | state it keeps | operations | talks to |
|---|---|---|---|
| daemon runtime (`daemon/runtime.py`) | state, stop event, telemetry, backoff attempts, reload queue, resolver | `run`, `_run_session`, `_executor_loop`, `_reload_loop`, `request_stop`, `request_reload_and_wait`, context calls | everything below |
| context manager (`daemon/context.py`) | selected profile, active layer, revision, source of last change | `set_layer`, `next_layer`, `previous_layer`, `set_profile`, `reconcile_after_reload`, `snapshot` | called by the engine, the server and the reload loop |
| event queue (`daemon/queue.py`) | a bounded FIFO and the count of dropped events | `enqueue` (drops the newest), `dequeue`, `get_all_nowait` | consumer to executor |
| input session (`daemon/session.py`) | the pipeline of the session | `observe`, `close` | translates pipeline errors into recoverable or fatal |
| configuration and resolver (`control/`) | none: immutable configuration | load and validate, `resolve` | loader to runtime; resolver called by the executor |
| execution engine (`execution/`) | none between plans; a child process while a command runs | `execute`, `run` (command), hotkey, text, delay | calls back into the runtime for layer and profile actions |
| observation pipeline (`observation/pipeline.py`) | life cycle state, its stream, counters | `observe`, `close` | pulls from the adapter, feeds the parser |
| transport parser (`transport/`) | shift state and its time, keys that are down, last timestamp | `feed`, `advance_time`, `reset` | one per session |
| evdev adapter (`input/evdev_adapter.py`) | handles, one reader task per interface, merge queue | `start`, `read_events`, `close` | kernel devices |
| device discovery (`device/`) | none | `discover_all`, `select_single` | udev |
| management server (`management/server.py`, `socket_path.py`, `peer_cred.py`) | the socket at a path; per connection one request | `start`, `stop`, `_handle_client` | runtime; other daemons, through the path |
| management client (`management/client.py`, `cli.py`) | one connection | `send_request`, an exit code | the path and the daemon behind it |
| configuration draft (`configurator/draft.py`, `serializer.py`, `diff.py`) | base, working copy, dirty flag, count of edits, renames | the edits, validation, the difference shown | the editor session and the `draft` commands |
| safe save (`configurator/save.py`) | none; the configuration file and its backups | `save_draft`, `restore_backup` | the file system, other writers |
| editor session (`configurator/web/`, `sidecar.py`) | draft, base, review, shutdown flag; draft, sidecar, registry entry and recovery as files | requests, save, recovery, resume, stop | draft and save; its own earlier sessions through the recovery |
| tools, probes, packaging (`integration/`, `tools/`) | none | one-shot diagnostics | udev, evdev |

All daemon code runs on one asyncio event loop; the editor is a process of its own with
two threads. What makes the system hard:

- **Interleaving.** Four tasks share the runtime object: `run()`, the consumer of the
  session, the executor and the reload loop; signals and clients call in between
  any two suspensions. State, the backoff counter and the context have several
  writers.
- **Cancellation.** Shutdown is built on cancelling tasks that may be anywhere,
  including inside `asyncio.wait_for`, which on Python 3.11 returns a result it
  already has instead of raising.
- **Failure.** The device disappears in the middle of anything; configuration files
  are edited while the daemon runs; a step of a macro fails after others succeeded.
- **Waiting.** Clients await futures; `run()` awaits its tasks; the backoff sleeps.
- **Files and crashes.** A save compares, backs up, compares and replaces, and others write
  the same file; a recovery is three files that a kill may separate.
- **Two threads of the editor.** `editor stop` shuts a session down while a request still
  writes its files.
- **A path and a name are not the thing.** Several daemons start, stop and crash around one
  socket path; event nodes are opened by names that another device may bear by then.

What makes each part correct:

- *context manager*: the selected profile always exists; the layer cycle is
  consistent; the revision follows changes; a reload preserves what it can
  (checked and proved);
- *daemon*: no event or plan is lost or counted twice; order is kept; status is
  truthful; a reload is atomic with respect to key presses and answered truthfully (checked
  and proved); stop always ends `run()`, a reload request is answered (checked);
- *observation*: per control, DOWN and UP alternate and none is stuck; a late Shift is
  forgotten; a session ends with devices, readers and pipeline closed, releases what it told
  was down, and ends only in the ways the daemon expects (checked and proved); a wait whose
  devices are gone ends (checked);
- *execution*: a plan stops at its first failure, a success is one, and no command outlives
  the runner except one that ignores SIGTERM and was cancelled (checked and proved); a plan
  ends (checked);
- *draft*: no edit leaves a name without its profile or layer; a draft called clean is the
  file; the difference shown is not empty, and invents no profile or layer (checked and
  proved);
- *editor*: what is saved was reviewed, and what is replaced was known; a crash leaves a
  recovery that is whole or refused, and a stop keeps its word (checked and proved);
- *management*: the path leads to the daemon that serves, a daemon that ended of itself
  leaves no dead socket, exit codes tell the truth (checked and proved), every command
  ends (checked);
- *discovery*: it never chooses between two devices and never mixes two (checked and
  proved), and finds the keypad that stays (checked).

## 2. Modules

| module | what it is |
|---|---|
| `ContextOps` | configurations, contexts and the pure functions on them: loader validity, the layer cycle, the five ways to move a context, reconciliation, event resolution |
| `RuntimeContext` | the context manager as a state machine, and its properties. Also the *abstract specification* of everything in the daemon that touches the context |
| `MCRuntimeContext` | instance of it: five files (three valid ones that disagree in profiles, layers, default and initial layer, two the loader refuses) |
| `RuntimeContextProofs` | lemmas about `ContextOps`, and the theorems about `RuntimeContext` |
| `DaemonLifecycle` | *abstract specification*: the states `yyr4ctl status` may show and what a stop request leads to |
| `DaemonRuntime` | the daemon: `daemon/runtime.py` with queue, session and the requests that reach it |
| `MCDaemonRuntime` | instance of it: one control, two layers, two profiles, two valid files and one invalid |
| `DaemonRuntimeProofs` | the theorems about `DaemonRuntime` and what it implements |
| `CommandRunner` | `execution/command.py`: a child process under time-out, terminate, kill and cancellation; its environment are the child and asyncio's transport |
| `ActionEngine` | `execution/engine.py` with the desktop back end over `CommandRunner` (`EXTENDS`): the steps of a plan, their statuses, cancellation |
| `MCActionEngine` | instance of it: an allowed and a refused command, four plans |
| `ActionEngineProofs` | the theorems about `ActionEngine` and the runner it calls |
| `TransportParser` | `transport/parser.py`: `feed` by its ways through, `reset`; any codebook that the constructor accepts |
| `MCTransportParser` | instance of it: two keys with a button and an encoder position each, and an F key outside the codebook |
| `SessionContract` | *abstract specification* of one input session: how observing may end and when its stream is open |
| `Observation` | one input session: the evdev adapter, the pipeline, and the parser it feeds (`EXTENDS TransportParser`, whose `Feed` and `Reset` are conjuncts of the pipeline's actions) |
| `MCObservation` | instance of it: keyboard and mouse, one F key |
| `ObservationProofs` | the theorems about `TransportParser`, and about `Observation` and what it implements |
| `DeviceDiscovery` | `device/` and the opening of what it selects, with a kernel that plugs devices in and out |
| `MCDeviceDiscovery` | instance of it: two ports and devices of six kinds |
| `DeviceDiscoveryProofs` | the theorems about `DeviceDiscovery` |
| `ManagementSocket` | the socket path with any number of daemons, the server's end of a connection, and the client with its exit codes |
| `ManagementSocketProofs` | the theorems about `ManagementSocket` |
| `DraftOps` | the configuration the editor works on: its edits as pure functions, what its text keeps, what the loader asks |
| `DraftDiff` | the differences that `configurator/diff.py` shows |
| `ConfigDraft` | a draft: edits, renames, save and recovery, over `DraftOps` and `DraftDiff` (`EXTENDS`) |
| `MCConfigDraft` | instance of it: three profile names, three layers, one control |
| `ConfigDraftProofs` | the theorems about `ConfigDraft` |
| `EditorSession` | the editor's process, its files, the recovery, `save_draft`, other writers and kills |
| `MCEditorSession` | instance of it: two configurations |
| `EditorSessionProofs` | the theorems about `EditorSession` |

`DaemonRuntime` refines both of its abstract modules: `Manager == INSTANCE RuntimeContext`
(`config` and `ctx` are the same variables; the bound on revisions plays no part in
its `Spec`) and `Lifecycle == INSTANCE DaemonLifecycle` (`state` and `stop`).

### How state corresponds

- `ctx` is a record of the manager's fields. Layers are numbers in cycling order, 0
  is `general`. `isEnum` tells whether `_active_layer` is a `LayerId` or the plain
  string that `next_layer` stores; the two compare and hash alike, so nothing but
  `.value` sees the difference. Configuration files are elements of the constant
  `Files`, of the shape the TOML parser gives them; `ValidConfig` is the loader's
  cross-field check.
- An action is the sequence of steps its macro flattens to and whether flattening
  exceeds the depth or length limit. A step is one of the four context actions or
  `"work"`: a hotkey, text, command, delay or log entry, which may succeed or fail.
  The program's dry-run mode replaces the engine with one that always succeeds at
  once; plans without steps behave so.
- `mainPc`, `execPc`, `reloadPc` and `session` say at which suspension each task is.
  An action is what a task does between two of them. Locks in this code are never
  held across a suspension, so they do not appear.
- `execPc = "holding"`: the inner task of `wait_for(dequeue())` has taken the event
  and the executor has not resumed. A cancellation that arrives now is swallowed
  (Python 3.11), which is why `ResolveEvent` has no `~execCancel` guard.
- `execCancel`, `reloadCancel`: a cancellation was requested and not yet delivered.
- `stream` is the adapter's stream in the eyes of `session.close()`: awaiting the
  `close()` of an open one raises, because it is a plain method.
- `n` holds the counters of `RuntimeSnapshot` that the properties relate.
  `lastHandled`, `graceOver` and the numbering of events are the model's own.

- In `Observation`, `gen` says where the generator `observe()` is suspended: `reading` in
  `queue.get`, `paused` or `releasing` at a `yield`; `asking` is the head of the loop in
  `read_events`, reached without a suspension, so that `Close` cannot happen there.
  `pipe` is `ObservationPipeline._state`, `readers` are the reader tasks (`never`:
  cancelled before its first step, so that its `finally` clause did not run). `seen` and
  `seenTs` are what the consumer was given, `down` and `quiet` in the parser what its
  caller was given: the model's own.
- `SessionContract` is the interface between the two halves. `Observation` is shown to
  implement it; `DaemonRuntime`'s `SessionFails`, `StreamEnds`, `GeneratorFinalised`, the
  cancellation in `SessionOver` and the consumer that breaks out in `ReceiveEvent` are its
  `Ends`, `Closed`, `Cancelled` and `Left` with the daemon's bookkeeping added.

- In `CommandRunner`, `pc` is the suspension of `run()`: `waiting` (line 106), `grace` and
  `reaping` (115, 121) after a time-out, `cgrace` and `creaping` (129, 132) after a
  cancellation, `harvest` (138). `known` is the transport's `returncode`; `wait` is the
  `proc.wait()` under way. On Python 3.11 a wait begun while the return code is unknown ends
  only when both pipes are at their end; one begun later ends at once (`BegunWait`).
  `clogged`: the reader has stopped at `max_output_bytes` and asyncio's buffer is full, so
  the pipe is not read to its end. `shared`: another process holds it open.
- In `ActionEngine`, `engine = "next"` is the `sleep(0)` before a step. The runtime's view of
  the same code in `DaemonRuntime` has only "a step succeeds or fails"; here is how.

- In `ConfigDraft`, `base`, `working`, `dirty`, `count` and `records` are the draft's fields
  of those names (`_mutation_records` holds only renames here). A configuration maps profiles
  to layers to controls to actions; only `set_profile` and `set_layer` have a target. The
  text of a configuration is what it says (`Written`): the serialiser writes one line per
  mapped control, so layers and profiles that map nothing are not in it.
- In `EditorSession` a configuration is a member of `Docs`, and a text is what it says and
  whether it is in the serialiser's form; its SHA-256 is the text itself. `files`,
  `backups`, `recs` (the recovery directories), `dir` (the session's directory) and
  `listed` (its registry entry) are on disk and survive a kill, except that what a killed
  process leaves in the runtime directory is no longer looked at; `ses` is the memory of
  `EditorSession` in `web/session.py`. `pc` and `own` say where the server's thread and the
  stopping thread are and what each remembers: one step is one access to a file or to the
  session's memory. `restore` is a `restore_backup` of another process between its
  comparison and its replacement. `seen` is history, `left` bounds.
- In `ManagementSocket`, `path` is what is at the path: a daemon's socket, nothing, or a
  file or socket of somebody else. `daemon`, `client` and `conn` say where each process is;
  `reply` is what the client's end of the connection will read. `executed` and `crowded`
  are history. What a request does to the daemon is in `DaemonRuntime`
  (`ClientChange`, `RequestReload`); here it is executed, refused or never answered.
- In `DeviceDiscovery`, `bus`, `plugs` and `inputs` are the kernel's: a device in a port has
  event nodes that appear one at a time with the lowest free number. `listed`, `todo` and
  `seen` are the scan of `linux_udev.py`; `verdict` and `chosen` what `select_single` makes
  of it; `handles` pairs each source with the input its node turned out to be.

### How actions correspond

| actions | code |
|---|---|
| `StartOK`, `StartBadConfig` | `run()` up to the first session |
| `BackoffElapsed`, `BackoffStopped` | the head of the session loop |
| `SessionOver`, `CloseSession` | `_run_session` after its `wait`, its `finally`, and the exception handlers of `run()` |
| `GraceExpires`, `Return` | the clean-up phase |
| `ReceiveEvent`, `SessionFails`, `StreamEnds`, `GeneratorFinalised` | `consume_events` over `ProductionInputSession.observe` |
| `TakeEvent`, `DequeueTimesOut`, `ResolveEvent`, `StepSucceeds`, `StepFails`, `ExecutorCancelled` | `_executor_loop` with the engine |
| `TakeRequest`, `ReloadOK`, `ReloadBad`, `ReloaderStops`, `ReloaderCancelled` | `_reload_loop`, `_handle_reload` |
| `RequestStop`, `RequestReload`, `Client...` | signals and the management server |
| `Execute`, `InstantStep`, `ControlStep`, `DesktopUnavailable`, `DelayBegins`, `DelayEnds`, `CommandStep`, `CommandGoesOn` | `ActionExecutionEngine.execute` |
| `CancelBetween`, `CancelCommand` | its `CancelledError` handler, at each suspension |
| `Run`, `WaitReturns`, `TimesOut`, `GraceExpires`, `TimeoutRaised`, `CancelRaised`, `Harvested`, `CancelledWaiting`, `CancelledEnding` | `AsyncSubprocessCommandRunner.run` |
| `Regressed`, `Uninteresting`, `ShiftPressed`, `ShiftReleased`, `KeyDown`, `KeyUp`, `Reset` | `TransportParser.feed` (with `advance_time`), `reset` |
| `ReadersStart`, `ReaderDelivers`, `ReaderFinishes`, `ReaderFails`, `ReaderStops` | `_reader_task` |
| `DiscoveryFails`, `ObserveTooLate`, `OpenFails`, `Opens` | the first `__anext__` of `observe()` up to the wait for input |
| `TakeSentinel`, `TakeNoise`, `TakeKey`, `TakeError`, `Asks`, `AsksForRelease` | the loops of `read_events` and `observe` |
| `Cancel`, `Leave`, `Finalise`, `Close` | the exception handlers of `observe`, and `close()` from another task |
| `Begin`, `Look` (`DeviceDiscovery`) | `enumerate_input_records` of `linux_udev.py`: its list, and its loop |
| `Select`, with `Groups`, `IsAmbiguous`, `Selection` | `discover_all`, `select_single` |
| `OpenKeyboard`, `OpenMouse`, `ReadFails`, `TryAgain` | `EvdevInputAdapter.start`, a failing read, the next session |
| `Plug`, `Appear`, `Unplug` | the kernel (external) |
| `Start`, `Probe`, `Unlink`, `Bind`, `Listen`, `Chmod` (`ManagementSocket`) | `setup_server_socket`, `ManagementServer.start` |
| `StopBegins`, `Remove`, `Crash` | `ManagementServer.stop`; a kill |
| `Look` (`ManagementSocket`), `Connect`, `Send`, `Receive`, `GivesUp` | `ManagementClient.send_request`, `_send_command` |
| `HangUp`, `Handle`, `AskReload`, `Reloaded` | `_handle_client`, `_process_request` |
| `add_profile` ... `clear_action` | the methods of those names of `ConfigDraft` |
| `SaveAndReload`, `Recover` | the text and back: `refresh_base`, `from_recovery` |
| `Start`, `Resume` (`EditorSession`) | `create_session`, `resume_session` |
| `Edit`, `EmptyEdit`, `Review`, `Save` | the handlers of `web/api.py`, first step |
| `WriteDraft`, `WriteSidecar`, `WriteRegistry` | `_update_draft`, `update_sidecar_after_mutation`, `write_registry` |
| `OpenRecovery`, `CopyDraft`, `CopySide`, `WriteManifest` | `write_recovery`, by either thread |
| `Backup`, `Recheck`, `Replace`, `RefreshBase`, `Discard` | `save_draft`, `refresh_base`, `discard_recovery` |
| `Shutdown`, `Clean`, `Leave` | `shutdown` from the page, the idle time-out, `editor stop` or Ctrl-C |
| `WriteFile`, `RestoreBegins`, `RestoreReplaces`, `DiscardRecovery`, `Crash` | other programs, `restore_backup`, `recover discard`, a kill |

Operators whose names end in `Slip` are never used by a specification. Each is a
plausible bug in the operator after it; `PROJECT.json` names the property that must
fail when it takes that operator's place.

## 3. What the runs check

| run | bounds | what it shows |
|---|---|---|
| `context` | layers 0..3, 2 profiles, 5 files, 4 revisions | the context manager: three properties |
| `parser` | three F keys, four controls, time-out of 2, timestamps to 5 | the parser: three properties |
| `observation` | two interfaces, one key with two controls, 3 kernel events, clock and timestamps of 0..2, time-out of 1 | three invariants, order of timestamps, that a wait ends, and that the session implements `SessionContract` |
| `engine` | four plans of up to three steps, two plans in a row, two cancellations | four properties of the engine and the runner, one of them liveness |
| `daemon_safety` | queue of 2, 3 events, 2 sessions, 1 reload request, 1 client change, 2 layers, 2 profiles, 3 files, backoff overflow at the second attempt | three invariants, true reload answers, and that the daemon implements `RuntimeContext` |
| `daemon_liveness` | queue of 1, 2 events, 2 sessions, 1 request, no client changes | under fairness: the daemon implements `DaemonLifecycle`, stop ends `run()`, reloads are answered |
| `discovery` | two ports, six kinds of device, two plugged in during the run, in either port, at any time | two invariants under hot-plugging, and that the keypad is found |
| `management` | three daemons that start once each, one client of any kind | three invariants of path and client, and that every command ends |
| `draft` | three profile names, three layers, one control, six actions besides a plain one, two files, three edits, a save and one more edit | three invariants of draft and difference, and that names stay resolved |
| `editor` | two configurations, two edits or foreign writes, two sessions, a stop that races with one request | three invariants of what is on disk, and two action properties of a save |
| `daemon_stop_fails`, `editor_crash` | queue of 1, 2 events, no client changes; as `editor` | expect a violation: what a document and a comment say and the code does not keep (section 5) |

Type invariants are stated in each module; where they are proved (section 4) no run spends
time on them.

The properties, by the hazard they are for:

- `EventsAccountedFor`, `PlansAccountedFor`: two equations over the telemetry that hold
  between any two suspensions, whatever is dropped, discarded, cancelled or failing; and the
  queue stays within the bound that `enqueue` checks by hand on an unbounded `asyncio.Queue`.
- `InOrder`: handled events, the event in hand and the queue are strictly ordered by
  arrival.
- `ReloadAnswersAreTrue` (action property): a client reads "ok" exactly when its reload
  took effect in that step, nothing else replaces the configuration, and an answer is
  final.
- `ImplementsManager`: every step of every task that touches the context is one step of
  the context manager on one configuration: no torn reload.
- `ImplementsLifecycle`, `StopReturns`, `ReloadIsAnswered`: liveness.
- `SelectedProfileExists`, `CyclesAreInverse`, `ReloadKeepsValidSelection`: the context
  manager. That the revision follows changes (`RevisionTracksChanges`) is proved and not
  run.
- `StopsOnFailure`, `SuccessIsReal`: what a plan's results say is what happened, whichever
  step ends how.
- `LeavesOnlyStubborn`: an exit, a time-out, a grace period and cancellations at six
  suspensions never leave a live child, but for one that ignores SIGTERM and was cancelled
  in its grace period.
- `PlanEnds` (liveness): a plan always comes to its end, unless the output of a command is
  held by another process or no longer read.
- `HeldIsDown`, `Alternates`, `LateShiftIsForgotten`: the parser. The firmware releases
  Shift before the F key, so the release of an encoder position is decoded from memory,
  not from the keys.
- `SeenIsHeld`, `ReleasedWhenOver`: nothing is lost between the parser and the consumer,
  releases included, when input ends or fails and the consumer closes or leaves meanwhile.
- `WaitEnds`: the adapter's count of readers and its sentinels.
- `InTimeOrder`: the adapter repairs a clock that stands still or jumps back (its action
  takes any clock value), so the consumer sees time go on.
- `EndsClean`, `ImplementsContract`: what the daemon relies on.
- `NeverGuesses`: while two keypads, or one with an interface too many, stay plugged in,
  nothing is selected, however the scan and other plugs interleave.
- `ReadsOneDevice`: keyboard and mouse that were selected are one device plugged in once,
  and a node opened for one of them reads it, as long as it is there.
- `FindsIt` (liveness): when one keypad stays among devices that are none, attempts end in
  reading it.
- `PathLeadsToServer`: as long as no two daemons start or stop at once, one at most serves
  and whoever opens the path reaches it. `NoStaleSocket` holds without that condition.
- `ExitCodeIsTrue`: a request is executed at most once; success and "reload failed" mean
  it was, "not running", "rejected" and "no permission" that it was not and never will be.
- `ClientEnds` (liveness): every command ends, whatever becomes of the daemons.
- `NamesStayResolved` (action property): no edit of profiles or layers turns a resolved
  configuration into one with a dangling name.
- `CleanIsUnchanged`, `EmptyDiffIsUnchanged`, `RenamesAreNotEdits`: dirty flag and
  difference agree with the draft. Renames alone, chains and swaps included, are shown as
  nothing but renames and the actions they rewrite: no profile or layer looks added or
  removed. What `diff.py` does not keep apart, a layer that takes the name another one gave
  up, the property excepts by name, and only for the controls of such a layer (section 5).
- `SavedWasReviewed`, `ReplacesWhatItKnows` (action properties): what is saved is the draft
  as it was last reviewed; what it replaces is what was loaded, unless somebody wrote in
  the instant between the last comparison and the replacement, and it is in a backup if
  backups are kept and nobody else touched the file.
- `RecoveryIsCurrent`, `NoTornResume`, `StopKeepsItsWord`: the recovery. Between requests
  it is whole and up to date; whatever a kill leaves, what `resume_session` accepts is a
  draft that existed; a session that was stopped kept or discarded what it was told to.

**Why the bounds are enough.** A queue of 2 with 3 events reaches full, drop, drain with
several entries and an event in hand at once. Two sessions reach a reconnect after
success, after failure, and the reset of the backoff; `MaxExponent` 0, 1 or 2 stands for
1023 and puts the overflow within reach. One request meets every position of the reload
loop; requests do not interact but through the FIFO. The two valid files differ in
profiles, layers, default and initial layer, so that a reload can keep both, drop the
layer, or drop the profile; their actions include every context action, a plan whose
second step fails, a macro beyond its limits, an unmapped control and an unknown target.

The parser keeps one time and compares it with one limit: timestamps to 5 with a limit of 2
reach before, at and past it, twice. Two keys suffice for overlap, since keys interact only
through Shift and "is any key held". Three kernel events are a chord (Shift, press, release)
or a press with an error or noise around it; two readers are all the program has.

Two plans in a row show that one command's end leaves nothing that disturbs the next; two
cancellations are the first and one during its handling, and a third would meet the same
suspensions. The instance allows `xdotool`, which production does not (section 5), so that
key presses reach the runner.

Two ports and two plugs are the least in which a device can take the place and the node
numbers of another, be a second keypad, or appear half-way through a scan; six kinds cover
each clause of the classification, with descriptors from each of their sources. Three
daemons are one that serves, one that comes and one more that contends with it; clients do
not interact, so one suffices (the proofs have any number of both). Three edits reach chains
and swaps of names (rename `p` to `r`, `q` to `p`, `r` to `q`) and a removal after two of
them, of profiles and, with the third layer name, of layers; the second file has a layer that maps nothing, which its text does not keep. Two
sessions are one that leaves a recovery and one that resumes it; two changes are an edit and
a foreign write, or two edits with the recovery of the first between them. `OneRace` limits
the runs to one request that overlaps a stop, in the last session; the proofs do not use it.

**Fairness.** `FairSpec` of `DaemonRuntime` assumes weak fairness of the disjunctions of the steps of
`run()`, of the executor and of the reload loop: the event loop runs every ready task,
sleeps and time-outs fire, and steps of a plan end, cancelled or not. The last is what
`PlanEnds` shows of the engine, with the exception described in section 5: the daemon's
liveness holds only of commands that do not hang in that way. Nothing is assumed of the device, of signals or of
clients: the consumer's and outside steps have no fairness.

`FairSpec` of `ActionEngine` assumes weak fairness of the engine's and the runner's steps,
of the report of an exit and of the end of the transport; nothing of the child, which may
run for ever, ignore SIGTERM, or flood its output.

`FairSpec` of `Observation` assumes weak fairness of the generator's steps (a consumer asks
again after each event), of the first steps of the readers and of a cancelled reader: all
are ready callbacks. Devices may stay silent for ever.

`FairSpec` of `ManagementSocket` assumes weak fairness of each client's own steps, which
include its five-second time-out; nothing of the daemons. `Spec` of `DeviceDiscovery` assumes
weak fairness of the steps of attempts, which the session loop repeats, and that the nodes
of a plugged device appear. The draft and the editor have no liveness property: nobody need
edit anything.

**Deadlock.** `parser` never stops; `observation` may stop only when the observation is over
and its readers are done; `engine` only when all plans are over, the executor has been cancelled,
or `run()` hangs as described in section 5 (`Hangs`): that it can stop nowhere else is part of what
the run shows. The daemon runs are checked for deadlock; `Terminated` (run() has returned)
is the only state allowed to stop. `discovery` never stops. `RuntimeContext`, the draft and
the editor are checked with `CHECK_DEADLOCK FALSE` because their bounds stop them, and
`ManagementSocket` because daemons that have all ended, with the client, are its proper end.

## 4. What is proved

`RuntimeContextProofs` proves, for all files, profiles, controls and numbers of layers,
with no bound on the number of steps (`Spec`, not `BoundedSpec`):

| theorem | statement |
|---|---|
| `InvHolds` | `Spec => []IInv` |
| `TypeCorrect` | `Spec => []TypeOK` |
| `ProfileAlwaysExists` | `Spec => []SelectedProfileExists` |
| `CyclesAlwaysInverse` | `Spec => []CyclesAreInverse` |
| `RevisionAlwaysTracks` | `Spec => RevisionTracksChanges` |
| `ReloadAlwaysKeeps` | `Spec => ReloadKeepsValidSelection` |

Assumptions: `FilesAssumption` (a parsed file names profiles and layers that exist as
names, which is what the parser's identifiers guarantee) and
`RuntimeContextAssumption` (`None` is neither a configuration nor a context). TLC evaluates both on
every run.

The argument. The inductive invariant is `IInv == TypeOK /\ SelectedProfileExists`.
Neither part is inductive alone: a next-layer step keeps the layer among the nine only
because the cycle of a *declared* profile is made of declared layers, and the profile
stays declared only for a configuration that is well formed. The lemmas show once
that each of the five ways of moving a context is a "move" (a context on a declared
profile whose revision counts the change); `StepMoves` lifts that to every step, and all
theorems follow from it. The layer cycle rests on the least and greatest elements of
finite sets of naturals (`MinIsLeast`, `MaxIsGreatest`) and on each direction being the
order's successor or predecessor, from which `NextThenPrevious` follows by arithmetic.

`ObservationProofs` proves, for every codebook without duplicates, any time-out and
unbounded timestamps (`ParserSpec`):

| theorem | statement |
|---|---|
| `ParserInvHolds` | `ParserSpec => []ParserInv` |
| `ParserTypeCorrect` | `ParserSpec => []ParserTypeOK` |
| `HeldIsAlwaysDown` | `ParserSpec => []HeldIsDown` |
| `AlwaysAlternates` | `ParserSpec => Alternates` |
| `LateShiftAlwaysForgotten` | `ParserSpec => LateShiftIsForgotten` |

Assumption: `CodebookAssumption`, what `Codebook.__init__` enforces. The inductive invariant
is `ParserTypeOK /\ HeldIsDown /\ (quiet => NoneHeld)`. The type invariant carries the part
that makes the proof work: what a key is held as is one of the codebook's entries for *that*
key. With the codebook free of duplicates, two held keys then never stand for one control
(`HeldDiffer`) and a key that goes down never repeats a control (`FreshControl`); removing a
released key therefore removes exactly its control. `PressOfStep` and `ReleaseOfStep` say
where the events of a step come from; the two action properties follow.

And of the session around the parser, for any finite set of interfaces and any amount of
input (`Spec`; the bounds in its guards are constants without an upper limit):

| theorem | statement |
|---|---|
| `InvHolds` | `Spec => []IInv` |
| `AlwaysEndsClean` | `Spec => []EndsClean` |
| `AlwaysReleasedWhenOver` | `Spec => []ReleasedWhenOver` |
| `SeenIsAlwaysHeld` | `Spec => []SeenIsHeld` |
| `AlwaysInTimeOrder` | `Spec => InTimeOrder` |
| `ParserImplemented` | `Spec => ParserSpec`, and with it the parser's properties in every session |
| `ContractImplemented` | `Spec => ImplementsContract` |

Assumptions: `CodebookAssumption` and `ObservationAssumption` (the interfaces are a finite
set with a keyboard among them). The invariant has the parser's inside it, because what the
consumer believes and what the parser holds can only be compared while both are known.
`ReleasesOwed` is the link: releases are owed only after a reset, when the parser holds
nothing, and all of them bear the same time, so that giving one away takes exactly its
control from `seen`. `Lifecycle` ties devices and readers to the generator's position;
`OutcomeSettled` says when the way of ending is fixed, which is what maps the end of the
session to one of `SessionContract`. `NotAhead` is `InTimeOrder`'s: until the releases, the
consumer has seen nothing from after the last input, and a release is one tick later.

`DeviceDiscoveryProofs` proves, for any ports, any kinds of device and any number of
pluggings (`Spec`):

| theorem | statement |
|---|---|
| `InvHolds` | `Spec => []IInv` |
| `TypeCorrect` | `Spec => []TypeOK` |
| `AlwaysReadsOneDevice` | `Spec => []ReadsOneDevice` |
| `AlwaysNeverGuesses` | `Spec => []NeverGuesses` |

Assumption: `KindsAssumption` (a kind of device is a sequence of faces). `InputsFit` says
that the kernel's nodes belong to the devices in the ports and that no two share a name;
`SnapshotFits` that what was listed is of one device per port, never mistaken for a later
one, and that what is still there has been or will be looked at; `PhaseFits` that a verdict
stays what the records of the scan say; `HandlesFit` that an open node is the selected input,
as long as that is there. For `NeverGuesses` the records of a port whose device stayed are
all of that device's faces, so that the groups that `discover_all` builds from them contain
the ambiguity whatever else was seen.

`DaemonRuntimeProofs` proves, for all files, any set of reload requests, any queue capacity and
any number of events, sessions and client changes (`Spec`; the bounds in its guards are
constants without an upper limit):

| theorem | statement |
|---|---|
| `TypeCorrect` | `Spec => []Shapes` |
| `EventsAlwaysAccountedFor` | `Spec => []EventsAccountedFor` |
| `PlansAlwaysAccountedFor` | `Spec => []PlansAccountedFor` |
| `AlwaysInOrder` | `Spec => []InOrder` |
| `ReloadAnswersAlwaysTrue` | `Spec => ReloadAnswersAreTrue` |
| `ManagerImplemented` | `Spec => ImplementsManager` |
| `ManagerPromisesHold` | `Spec => []Manager!SelectedProfileExists`, and that revisions count changes and reloads keep what they can |
| `LifecycleImplemented` | `Spec => Lifecycle!Spec` |

Assumptions: `FilesAssumption` and `DaemonAssumption` (`None` is not a file; the queue holds at
least one event). Three invariants build on each other. `Control` says where the four tasks
are for each point of `run()`, and that executor and reloader exist only once there is a
configuration; with it every step maps to one of `RuntimeContext` and of `DaemonLifecycle`, or
to a stutter. `TelemetryInv` holds the equations together: `Numbered` (no event in the queue,
in hand or handled is ahead of the count of those received) is what makes `InOrder` inductive,
and the plan that may be open explains why `PlansAccountedFor` survives a cancellation. The
arithmetic of each kind of step is a lemma of its own (`ResolveFailed` ... `AcceptEvent`) over
`Balance` and `Open`. `ReloadInv` says that a request that waits is pending and is queued once
or in hand, never both: without it the end of the reload loop could overwrite the answer that
the same step has just given. Each step of the
daemon being one of the manager's, `ManagerPromisesHold` needs of the context only that its
profile is declared and its revision a number: the executor never meets "Unknown profile".

`ActionEngineProofs` proves, for every policy, every set of plans and any number of plans
and cancellations (`Spec`):

| theorem | statement |
|---|---|
| `InvHolds` | `Spec => []IInv` |
| `TypeCorrect` | `Spec => []TypeOK` |
| `AlwaysLeavesOnlyStubborn` | `Spec => []LeavesOnlyStubborn` |
| `AlwaysStopsOnFailure` | `Spec => []StopsOnFailure` |
| `SuccessIsAlwaysReal` | `Spec => SuccessIsReal` |

Assumption: `ActionEngineAssumption` (plans are sequences of steps; the bounds are numbers).
There are two inductive invariants. `IInv` says what each suspension of `run()` knows of its
child: in a grace period a live child is one that ignored SIGTERM, and after the kill, or
once a wait is done, it has exited; and that a child left alive is the last, because the
executor that left it has been cancelled. Without this last part a following rejected
command would break `LeavesOnlyStubborn`. `RInv` is `StopsOnFailure` with: while a plan goes
on, all results are successes and a step is left. `StepOverResults` computes the results
after a step; `ResultsStep` reduces every step of the engine to ending a step, beginning a
plan or leaving the results alone. `SuccessIsReal` needs both, and that only a delay step
delays (`DelayIsDelay`): of the results that a step adds only the first can be a success
(`OnlySuccess`), and a command's is one only when the harvest finds exit code zero.

`ManagementSocketProofs` proves, for any number of daemons and clients (`Spec`):

| theorem | statement |
|---|---|
| `TypeCorrect` | `Spec => []TypeOK` |
| `NeverStaleSocket` | `Spec => []NoStaleSocket` |
| `PathAlwaysLeads` | `Spec => []PathLeadsToServer` |
| `ExitCodeAlwaysTrue` | `Spec => []ExitCodeIsTrue` |

Assumption: `SocketAssumption` (daemons are not the values that stand for no daemon). The
inductive invariant is `TypeOK /\ PathInv /\ Answered`. `PathInv` has five parts: a daemon's
socket at the path belongs to one that has bound it and has not ended of itself (`Bound`,
which holds whether or not daemons contend, and is why a stale socket means a crash); a
daemon accepts connections exactly from when it listens until it stops (`Accepting`); at most one
starts or stops while it is not crowded (`OneChanges`); a daemon past its bind is the one at
the path (`Owner`); and while one serves no other gets past the probe (`Alone`). The last
two are what `PathLeadsToServer` needs and neither is inductive alone: the probe succeeds
against a serving daemon only because `Owner` says that the path is its own. `Answered` ties
each client's label, connection, answer, exit code and count together; it holds for the
server's late answers too, which is why the exit codes stay true after the client is gone.

`EditorSessionProofs` proves, for every set of configurations and texts and any bounds
(`Spec`):

| theorem | statement |
|---|---|
| `TypeCorrect` | `Spec => []TypeOK` |
| `AlwaysReplacesWhatItKnows` | `Spec => ReplacesWhatItKnows` |
| `AlwaysSavedWasReviewed` | `Spec => SavedWasReviewed` |
| `AlwaysRecoveryIsCurrent` | `Spec => []RecoveryIsCurrent` |
| `AlwaysNoTornResume` | `Spec => []NoTornResume` |
| `AlwaysStopKeepsItsWord` | `Spec => []StopKeepsItsWord` |

Assumption: `EditorAssumption` (reading a text twice says the same; `NoText` and `NoDir`, which
stand for a file and a directory that are not there, are none).
The inductive invariant is `TypeOK /\ Carried /\ Compared /\ ReviewKnown`. `Compared` says
what each step of a save knows of the file and of the backup, weakened exactly by what
`seen.touched` and `seen.blind` admit of other writers. `ReviewKnown` says that a review
that counts as many edits as the draft has was of this very draft: resuming keeps it because
`restore_review_state` sets one less than the count, a save because `refresh_base` withdraws
it. It holds only while the session has its directory: see section 5 for what happens
otherwise. `Carried` types what a thread remembers between its steps.

The recovery has an invariant of its own, `Undisturbed`, on top of that one, for as long as
no request has raced with a stop and nobody has discarded the recovery of the running
session (`seen.raced`): one thread works (`Turn`), the session's directory says what
the memory says but for the files that this thread has yet to write (`Mirrored`), nobody
removes the recovery under it (`Kept`), the files it has copied are those of the draft in
memory (`Copied`), and where it is not writing, the recovery of a changed draft is complete
or discarded (`Complete`). `Described` is what survives a kill at any point: a manifest
describes a draft that the editor had, because it is written last. A torn recovery is one
whose digests do not agree, so that `resume_session` refuses it. `Ended` is what `Leave`
makes of all this when the session stops. There is a lemma for each step (`EditCalm` ...
`ShutdownCalm`); a step of the thread that does not work starts a race, or does not matter.

`ConfigDraftProofs` proves, for all names, controls and actions, any number of layers and edits
(`Spec`, without the bound on edits):

| theorem | statement |
|---|---|
| `TypeCorrect` | `Spec => []TypeOK` |
| `CleanIsAlwaysUnchanged` | `Spec => []CleanIsUnchanged` |
| `NamesAlwaysResolved` | `Spec => NamesStayResolved` |
| `EmptyDiffIsAlwaysUnchanged` | `Spec => []EmptyDiffIsUnchanged` |
| `RenamesAreNeverEdits` | `Spec => []RenamesAreNotEdits` |

Assumptions: `DraftAssumption` (targets of actions are names, and an action can be retargeted)
and `ConfigDraftAssumption` (a file the editor opens is a configuration that loads). A
configuration is three levels of dictionaries, each a function from some of its keys:
`Partial(K, V)`, with a lemma for each copy that the code makes of one (`With`, `Without`,
`Rekeyed`, `Restrict`). `TypeOK /\ CleanIsUnchanged` is inductive as it stands. For
`NamesStayResolved` there is a lemma for each edit; the hard ones are the renames, where an
action that used the old name now has the new one and every other target is still there, and
the removals, whose refusal while a name is used is exactly what is needed.

The difference follows the renames one after the other, so its alignment is a recursive
function (`Aligned`). The lemmas `AlignedEmpty` and `AlignedAppend` say what it is without
renames and with one more: that it is defined at all is shown from a least length for which
it would not be (`StepsExist`). `EmptyDiffIsUnchanged` holds of any two configurations: a
rename is always shown, and without one the comparison is of the base itself.
`RenamesAreNotEdits` needs an invariant (`OnlyRenames`): while every edit was a rename, the
draft has exactly the profiles of the aligned file, and a layer of either is a layer of the
other with the same controls mapped, unless a rename gave up or took on its name.

Only model-checked: the liveness properties, `WaitEnds`, `PlanEnds`, `StopReturns`,
`ReloadIsAnswered`, `ClientEnds`, `FindsIt`, and the fairness of `ImplementsLifecycle`
(`LifecycleImplemented` is its safety part). They rest on fairness and on which steps are
enabled, which the provers here cannot reason about. Every invariant and action property that
a passing run checks has a theorem. The two runs that expect a violation have none, of course.

## 5. Where the code departs from what the repository says

Two are runs that TLC must find violated.

1. **A stop request can end the daemon as FAILED** (`daemon_stop_fails`,
   `FailsOnlyWhenFatal`). With the stop event set, the consumer breaks out of `observe()`
   and leaves its stream open; `session.close()` awaits the adapter's plain `close()`.
   `docs/daemon-runtime.md:48` promises a clean exit.
2. **A kill can lose every unsaved edit** (`editor_crash`, `CrashLosesOneEdit`). The
   recovery that is already there is replaced file by file (`configurator/web/session.py:274`);
   a kill between the first file and the manifest leaves digests that do not agree, and
   `resume_session` refuses. `session.py:262` says "Crash-safe: persist after every
   mutation." What is kept is that nothing *wrong* is resumed: `NoTornResume`.

Seen while modelling, and in the behaviours of the models, without a run of their own.

Daemon and engine:

- The backoff overflows: `multiplier ** (attempts - 1)` is evaluated before it is capped
  (`daemon/runtime.py:343`); at attempt 1025 with the default multiplier it raises and the
  daemon gives up.
- A reload request can stay unanswered: between the end of the reload loop and STOPPING,
  requests are accepted and nobody reads them. `ReloadIsAnswered` says so.
- Status fails after next-layer: `next_layer` stores a string, `snapshot()` reads `.value`.
- A command can block the executor for ever: the wait after the kill
  (`execution/command.py:121`, and 132 after a cancellation) has no time-out and ends only
  when the output does, which nobody reads once the limit is reached.
- A cancelled command can stay alive: a cancellation during the grace period of a time-out
  is raised past the handler that would kill it. `LeavesOnlyStubborn` says when.
- An executor that leaves its loop before the consumer has stopped drains the queue too
  early: an event enqueued after that (`daemon/runtime.py:270`) is neither executed nor
  counted as discarded. `EventsAccountedFor` counts it as still queued.
- After a fatal error an executor that swallows its cancellations (`execCancel` is cleared
  by `ResolveEvent`) goes on, since its loop looks only at the stop event, and `run()` waits
  for it. With the default grace period a second swallowed cancellation is needed.
- Readers cancelled by `close()` before their first step send no end-of-stream sentinel
  (reader state `never` in `Observation`), and `read_events` goes on waiting. The daemon
  cancels its consumer instead of relying on `close()`.
- The end of input without an error is counted as a normal completion by the pipeline
  (`observation/pipeline.py:152`) but always raises from its `finally` clause, for the reason
  of departure 1; the session reports it as fatal (outcome `close_failed`).
- A command that exits and leaves a process holding its output is reported TIMED_OUT.
- Production allows only `playerctl` and `mpc` (`daemon/cli.py:65`), and the desktop back
  end starts `xdotool` through the same policy: every key press is rejected.

Discovery:

- Nodes are opened by name (`input/evdev_adapter.py:89`). When the keypad goes between the
  scan and the opening and another device gets its number, that device is read, until a read
  of it fails, although `docs/device-discovery.md:34` says of the user's own keyboard "We
  will never accidentally read them." `ReadsOneDevice` therefore speaks only of selected
  inputs that are still there.
- A second keypad that is only half there does not make the selection ambiguous, so
  `NeverGuesses` speaks of devices that were whole all through the scan.

Management:

- `ManagementServer.stop` removes whatever is at the path, also another daemon's socket; two
  daemons that contend can leave one that serves and cannot be reached. `PathLeadsToServer`
  has `crowded` for that reason.
- A path that vanishes between the client's two looks, or an answer that takes longer than
  five seconds, exits with `EXIT_INTERNAL`; in the second case the daemon goes on with the
  request.
- A caller of another user exits with 5 where `docs/management-cli.md` has a code of its own
  (8), unless the mode of the socket already refused it; a reload refused because the daemon
  is stopping exits with 6, not 7.
- The documents have `$XDG_RUNTIME_DIR/yyr4d.sock` (`docs/daemon-runtime.md:36`), the code
  `yyr4/yyr4d.sock` below that directory.

Draft and editor:

- `validate` says "serialize, re-parse, compare" (`configurator/draft.py:487`) and does not
  compare: layers and profiles that map nothing vanish on save and on recovery
  (`SaveAndReload`, `Recover`).
- A rename may rename `general`, and renaming a layer of any profile moves the initial
  layer. A `set_profile` or `set_layer` inside a macro is not followed by renames and does
  not stop a removal; macros are opaque in `DraftOps`.
- The difference drops every addition and removal whose name occurs in a rename, real ones
  included (`TakenForRename`).
- The difference renames profiles in the file before it compares (`configurator/diff.py:210`),
  but not layers: rename layer 1 to 2 and 0 to 1, and layer 1 of the file is compared with
  what was its layer 0. Controls then look mapped, unmapped or changed that nobody edited.
  `RenamesAreNotEdits` excepts layers whose name was both given up and taken on.
- The base digest is of the canonical text, the comparison in `save_draft` of the bytes: a
  file formatted by hand cannot be saved the first time.
- A draft that does not load leaves a recovery that cannot be resumed; a resumed session
  forgets its backup directory; resuming after a save to another target is refused.
- The recovery of a session that is running can be resumed or discarded by another one.
- The review is of the draft as it is when the request arrives, not of what the page shows.
- When the session's directory is gone, `refresh_base` fails after it has replaced the base,
  and the old review count stays; `SavedWasReviewed` speaks of sessions that have their
  directory.
- A stop that races with a request can leave a torn recovery (which is then refused) or
  bring back one that was discarded: `seen.raced` excuses it.
- `restore_backup` compares once and replaces without a second look.
- After a shutdown from the page or for idleness, the `editor` process waits for a stop.
- `yyr4ctl draft add-profile` and `add-layer` print that they succeeded, and the text they
  write has no trace of it, since what they add maps nothing; `draft set-initial-layer`
  passes on a profile that neither its options nor the method has.

Other differences between documents and code, not about behaviour modelled here:
`docs/daemon-runtime.md:14` calls DRY_RUN the default where `daemon/cli.py:166` passes
EXECUTE unless told otherwise; `docs/daemon-runtime.md:47` says that the queue holds plans
resolved before a reload, but it holds events, resolved when they are taken out.

## 6. Not modelled, and the plan

What would come next, in this order:

1. What an observer of `yyr4ctl status` may conclude from `DaemonLifecycle`, as theorems of the
   daemon, the way `ManagerPromisesHold` does it for the context.
2. The `draft` commands of `yyr4ctl` as processes that share a draft file.
3. `NoTornResume` without the exception for a stop that races, once the code orders its
   writes so that it holds.

Left out for good:

- option parsing, text output and the offline commands of `yyr4ctl` and `yyr4d`, and the
  tools (`tools/`): one-shot, sequential, without state;
- page templates, rendering, routing and the read-only routes of the editor; bootstrap
  token and cookie checks, which keep no state of the configuration;
- integration probes and preflight (`integration/`), packaging, udev rules;
- the syntax of TOML, YAML and actions and their serialisation, beyond what a text keeps of
  a configuration; JSON framing of the management protocol;
- hardware, firmware and the kernel, except as the environment of `DeviceDiscovery` and
  `Observation`.

Wall-clock durations are abstracted to "may happen"; the order of ready tasks is any order,
where asyncio's is first-come: the models have the behaviours of every loop that runs ready
tasks in some order. A configuration file is written in one step, since the code replaces it
by a rename; losing data that was not yet on the disk in a power failure is not modelled.
