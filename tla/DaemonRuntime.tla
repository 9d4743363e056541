---------------------------- MODULE DaemonRuntime ----------------------------
(***************************************************************************)
(* The daemon: daemon/runtime.py with the queue, the production session    *)
(* and the management requests that reach it.                              *)
(*                                                                         *)
(* Four asyncio tasks share the runtime object:                            *)
(*   main      run(): load the file, open sessions, back off, clean up     *)
(*   consumer  consume_events(): from the session into the bounded queue   *)
(*   executor  _executor_loop(): from the queue to the action engine       *)
(*   reloader  _reload_loop(): answers reload requests                     *)
(* and signals and yyr4ctl clients call into it at any time. A step of the *)
(* model is what a task does between two suspensions; the locks of the     *)
(* code are never held across one. The event loop's order is abstracted to *)
(* any interleaving.                                                       *)
(***************************************************************************)
EXTENDS ContextOps, Integers, FiniteSets

CONSTANTS
  NoConfig, NoContext, NoEvent, NoRequest,  (* None, in its four uses      *)
  QueueCapacity,        (* settings.queue_capacity                         *)
  MaxExponent,          (* largest exponent e for which multiplier ** e is *)
                        (* a float: 1023 for the default multiplier 2.0    *)
  Requests,             (* reload requests that clients and SIGHUP make    *)
  MaxEvents,            (* bound on the events the device sends            *)
  MaxSessions,          (* bound on the sessions opened                    *)
  MaxClientChanges      (* bound on the context changes clients ask for    *)

ASSUME DaemonAssumption ==
  /\ NoConfig \notin Files
  /\ QueueCapacity \in Nat \ {0}
  /\ {MaxExponent, MaxEvents, MaxSessions, MaxClientChanges} \subseteq Nat

VARIABLES
  (* main *)
  state, lastError, mainPc, stop, attempts,
  (* consumer and its session *)
  session, seen, stream, queue,
  (* executor *)
  execPc, held, steps, execCancel,
  (* reloader *)
  reloadPc, reloadQueue, taken, reloadCancel, answer,
  (* what resolver and context manager hold *)
  config, ctx,
  (* telemetry, and what the model adds to it *)
  n, clientChanges, lastHandled, graceOver

mainVars   == <<state, lastError, mainPc, stop, attempts, graceOver>>
sessVars   == <<session, seen, stream>>
execVars   == <<execPc, held, steps, execCancel>>
reloadVars == <<reloadPc, reloadQueue, taken, reloadCancel, answer>>
ctxVars    == <<config, ctx>>
vars == <<mainVars, sessVars, queue, execVars, reloadVars, ctxVars,
          n, clientChanges, lastHandled>>

States == {"CREATED", "CONNECTING", "RUNNING", "RECONNECTING", "STOPPING",
           "STOPPED", "FAILED"}
Ending == {"STOPPING", "STOPPED", "FAILED"}

(* The counters of RuntimeSnapshot the properties relate.                  *)
Counters == {"sessions", "successful", "received", "enqueued", "dropped",
             "resolved", "unmapped", "executed", "succeeded", "failed",
             "discarded", "reloads", "reloadFailures"}

(* The code's events have a timestamp; the model numbers them as received. *)
Event == [id : Nat, control : Controls, down : BOOLEAN]

Count(k) == [n EXCEPT ![k] = @ + 1]
ConfigRevision == 1 + n["reloads"]

(* An operator whose name ends in "Slip" is never used: it is the one after *)
(* it with a plausible bug, which a named property of the runs must catch. *)
-----------------------------------------------------------------------------
Init ==
  /\ state = "CREATED" /\ lastError = "none" /\ mainPc = "created"
  /\ stop = FALSE /\ attempts = 0 /\ graceOver = FALSE
  /\ session = "none" /\ seen = FALSE /\ stream = "none" /\ queue = <<>>
  /\ execPc = "none" /\ held = NoEvent /\ steps = <<>> /\ execCancel = FALSE
  /\ reloadPc = "none" /\ reloadQueue = <<>> /\ taken = NoRequest
  /\ reloadCancel = FALSE /\ answer = [r \in Requests |-> "none"]
  /\ config = NoConfig /\ ctx = NoContext
  /\ n = [k \in Counters |-> 0]
  /\ clientChanges = 0 /\ lastHandled = 0

-----------------------------------------------------------------------------
(* main: run()                                                             *)

OpenSession ==
  /\ n["sessions"] < MaxSessions
  /\ n' = Count("sessions")
  /\ session' = "observing"
  /\ seen' = FALSE
  /\ stream' = "open"
  /\ mainPc' = "session"

(* Leave the session loop: cancel executor and reloader and wait for them. *)
EnterCleanup(final) ==
  /\ state' = final
  /\ mainPc' = "cleanup"
  /\ execCancel' = (execPc # "done")
  /\ reloadCancel' = (reloadPc # "done")

KeepTasks == UNCHANGED <<execCancel, reloadCancel>>

(* The head of the session loop after a session: the backoff delay is      *)
(* multiplier ** (attempts - 1), computed inside run()'s try.              *)
Reconnect(tries, err) ==
  /\ attempts' = tries
  /\ \/ /\ stop
        /\ EnterCleanup("STOPPING")
        /\ lastError' = err
     \/ /\ ~stop /\ tries - 1 > MaxExponent
        /\ EnterCleanup("FAILED")
        /\ lastError' = "UNEXPECTED_ERROR"
     \/ /\ ~stop /\ tries - 1 <= MaxExponent
        /\ state' = "RECONNECTING"
        /\ mainPc' = "backoff"
        /\ lastError' = err
        /\ KeepTasks

Fail(err) ==
  /\ EnterCleanup("FAILED")
  /\ lastError' = err
  /\ UNCHANGED attempts

(* CREATED: load the file; on success the executor, the reloader and the   *)
(* first session start. Nothing else runs before this step.                *)
StartOK(f) ==
  /\ mainPc = "created"
  /\ ValidConfig(f)
  /\ config' = f
  /\ ctx' = StartupContext(f)
  /\ state' = "CONNECTING"
  /\ execPc' = "waiting"
  /\ reloadPc' = "waiting"
  /\ OpenSession
  /\ UNCHANGED <<lastError, stop, attempts, graceOver, queue, held, steps,
                 execCancel, reloadQueue, taken, reloadCancel, answer,
                 clientChanges, lastHandled>>

StartBadConfig(f) ==
  /\ mainPc = "created"
  /\ ~ValidConfig(f)
  /\ state' = "FAILED"
  /\ lastError' = "INITIAL_CONFIG_INVALID"
  /\ mainPc' = "returned"
  /\ UNCHANGED <<stop, attempts, graceOver, sessVars, queue, execVars,
                 reloadVars, ctxVars, n, clientChanges, lastHandled>>

StopWakesSlip == FALSE
StopWakes     == mainPc = "backoff" /\ stop

(* The backoff sleep ends, or the stop event cuts it short.                *)
BackoffElapsed ==
  /\ mainPc = "backoff"
  /\ ~stop
  /\ OpenSession
  /\ UNCHANGED <<state, lastError, stop, attempts, graceOver, queue, execVars,
                 reloadVars, ctxVars, clientChanges, lastHandled>>

BackoffStopped ==
  /\ StopWakes
  /\ EnterCleanup("STOPPING")
  /\ UNCHANGED <<lastError, stop, attempts, graceOver, sessVars, queue, execPc,
                 held, steps, reloadPc, reloadQueue, taken, answer, ctxVars, n,
                 clientChanges, lastHandled>>

(* _run_session wakes: the consumer is done, or stop is set and it is      *)
(* cancelled, which makes the pipeline close its stream.                   *)
SessionOver ==
  /\ mainPc = "session"
  /\ stop \/ session # "observing"
  /\ mainPc' = "closing"
  /\ IF session = "observing"
     THEN session' = "cancelled" /\ stream' = "closed"
     ELSE UNCHANGED <<session, stream>>
  /\ UNCHANGED <<seen, state, lastError, stop, attempts, graceOver, queue, execVars,
                 reloadVars, ctxVars, n, clientChanges, lastHandled>>

(* session.close() awaits stream.close() when the pipeline is still open.  *)
(* EvdevInputAdapter's close() is a plain method that returns None: that   *)
(* await is a TypeError, and replaces what the session itself ended with.  *)
CloseSession ==
  /\ mainPc = "closing"
  /\ session' = "none"
  /\ stream' = "none"
  /\ IF stream = "open"
     THEN Fail("UNEXPECTED_ERROR")
     ELSE IF session = "fatal"
     THEN Fail("FATAL_ERROR")
     ELSE IF session = "recoverable"
     THEN Reconnect(attempts + 1, "SESSION_DISCONNECTED")
     ELSE Reconnect(IF stop THEN attempts ELSE attempts + 1, lastError)
  /\ UNCHANGED <<seen, stop, graceOver, queue, execPc, held, steps, reloadPc,
                 reloadQueue, taken, answer, ctxVars, n, clientChanges,
                 lastHandled>>

(* wait_for(gather(...), shutdown_grace) times out: it cancels both tasks  *)
(* once more and still waits for them.                                     *)
GraceExpires ==
  /\ mainPc = "cleanup"
  /\ ~graceOver
  /\ execPc # "done" \/ reloadPc # "done"
  /\ graceOver' = TRUE
  /\ execCancel' = (execPc # "done")
  /\ reloadCancel' = (reloadPc # "done")
  /\ UNCHANGED <<state, lastError, mainPc, stop, attempts, sessVars, queue,
                 execPc, held, steps, reloadPc, reloadQueue, taken, answer,
                 ctxVars, n, clientChanges, lastHandled>>

FinalStateSlip == "STOPPED"
FinalState     == IF state = "FAILED" THEN "FAILED" ELSE "STOPPED"

Return ==
  /\ mainPc = "cleanup"
  /\ execPc = "done" /\ reloadPc = "done"
  /\ mainPc' = "returned"
  /\ state' = FinalState
  /\ UNCHANGED <<lastError, stop, attempts, graceOver, sessVars, queue,
                 execVars, reloadVars, ctxVars, n, clientChanges, lastHandled>>

-----------------------------------------------------------------------------
(* consumer: consume_events() over ProductionInputSession.observe()        *)

EnqueueSlip(e) == <<e>> \o queue

(* DropNewestEventQueue.enqueue: the newest event is dropped when full.    *)
Fits       == Len(queue) < QueueCapacity
Enqueue(e) == Append(queue, e)

(* The first event of a session makes it a success: backoff starts anew.   *)
SessionSucceeds ==
  /\ state' = "RUNNING"
  /\ attempts' = 0

(* One event of the device, up to the next suspension. With stop set the   *)
(* consumer breaks out and leaves the stream open behind it.               *)
ReceiveEvent(k, isDown) ==
  /\ session = "observing"
  /\ n["received"] < MaxEvents
  /\ LET e == [id |-> n["received"] + 1, control |-> k, down |-> isDown]
     IN  queue' = IF Fits THEN Enqueue(e) ELSE queue
  /\ n' = [n EXCEPT !["received"]   = @ + 1,
                    !["successful"] = IF seen THEN @ ELSE @ + 1,
                    !["enqueued"]   = IF Fits THEN @ + 1 ELSE @,
                    !["dropped"]    = IF Fits THEN @ ELSE @ + 1]
  /\ seen' = TRUE
  /\ IF seen THEN UNCHANGED <<state, attempts>> ELSE SessionSucceeds
  /\ session' = IF stop THEN "ended" ELSE "observing"
  /\ UNCHANGED <<lastError, mainPc, stop, graceOver, stream, execVars,
                 reloadVars, ctxVars, clientChanges, lastHandled>>

(* Observation fails after closing its stream: discovery or input errors   *)
(* are recoverable, everything else is fatal.                              *)
SessionFails(how) ==
  /\ session = "observing"
  /\ session' = how
  /\ stream' = "closed"
  /\ UNCHANGED <<mainVars, seen, queue, execVars, reloadVars, ctxVars, n,
                 clientChanges, lastHandled>>

(* The device's stream ends without an error; the pipeline closes it, and  *)
(* the failing close is an error of its own (ObservationError: fatal).     *)
StreamEnds ==
  /\ session = "observing"
  /\ session' = "fatal"
  /\ stream' = "closed"
  /\ UNCHANGED <<mainVars, seen, queue, execVars, reloadVars, ctxVars, n,
                 clientChanges, lastHandled>>

(* The event loop finalises the generator that a break left suspended.     *)
GeneratorFinalised ==
  /\ session = "ended" /\ stream = "open"
  /\ stream' = "closed"
  /\ UNCHANGED <<mainVars, session, seen, queue, execVars, reloadVars, ctxVars, n,
                 clientChanges, lastHandled>>

-----------------------------------------------------------------------------
(* executor: _executor_loop()                                              *)

ExecutedSlip(outcome) == [n EXCEPT ![outcome] = @ + 1]
DiscardedSlip(m)      == m

(* Telemetry of a plan that was run, and of what the queue still holds     *)
(* when the loop is left.                                                  *)
Executed(outcome) == [n EXCEPT !["executed"] = @ + 1, ![outcome] = @ + 1]
Discarded(m)      == [m EXCEPT !["discarded"] = @ + Len(queue)]

ExecutorExits(m) ==
  /\ execPc' = "done"
  /\ execCancel' = FALSE
  /\ queue' = <<>>
  /\ n' = Discarded(m)
  /\ held' = NoEvent
  /\ steps' = <<>>

(* The loop head after an event: the stop event is looked at only here and *)
(* when a dequeue times out.                                               *)
NextEvent(m) ==
  IF stop
  THEN ExecutorExits(m)
  ELSE /\ execPc' = "waiting"
       /\ held' = NoEvent
       /\ steps' = <<>>
       /\ n' = m
       /\ execCancel' = FALSE
       /\ UNCHANGED queue

KeepRest == UNCHANGED <<mainVars, sessVars, reloadVars, clientChanges>>

(* The task inside wait_for(dequeue()) takes the event; the executor       *)
(* itself resumes later.                                                   *)
TakeEvent ==
  /\ execPc = "waiting" /\ ~execCancel
  /\ queue # <<>>
  /\ held' = Head(queue)
  /\ queue' = Tail(queue)
  /\ execPc' = "holding"
  /\ UNCHANGED <<steps, execCancel, ctxVars, n, lastHandled>>
  /\ KeepRest

DequeueTimesOut ==
  /\ execPc = "waiting" /\ stop
  /\ ExecutorExits(n)
  /\ UNCHANGED <<ctxVars, lastHandled>>
  /\ KeepRest

(* Snapshot the context, resolve, and start the plan. wait_for returns an  *)
(* event it already has even when it is cancelled: the cancellation is     *)
(* consumed (Python 3.11; later versions do not pass through "holding").   *)
(* An empty plan finishes at once.                                         *)
ResolveEvent ==
  /\ execPc = "holding"
  /\ lastHandled' = held.id
  /\ LET res  == Resolution(config, ctx, held)
         done == Count("resolved")
     IN  CASE res.kind = "error" ->
                /\ NextEvent(Count("failed"))
           [] res.kind = "unmapped" ->
                /\ NextEvent([done EXCEPT !["unmapped"] = @ + 1])
           [] res.kind = "plan" /\ res.steps = <<>> ->
                /\ NextEvent([done EXCEPT !["executed"] = @ + 1,
                                          !["succeeded"] = @ + 1])
           [] OTHER ->
                /\ execPc' = "running"
                /\ steps' = res.steps
                /\ execCancel' = FALSE
                /\ n' = done
                /\ UNCHANGED <<held, queue>>
  /\ UNCHANGED ctxVars
  /\ KeepRest

(* What a step of a plan does to the context, and whether it can succeed   *)
(* and can fail. "work" is a hotkey, text, command, delay or log entry.    *)
ContextAfter(s) ==
  CASE s.op = "set_layer" /\ s.arg \in Layers ->
         SetLayer(ctx, s.arg, "control_action")
    [] s.op = "next_layer"     -> NextLayer(config, ctx, "control_action")
    [] s.op = "previous_layer" -> PreviousLayer(config, ctx, "control_action")
    [] s.op = "set_profile" /\ s.arg \in DOMAIN config.profiles ->
         SetProfile(config, ctx, s.arg, "control_action")
    [] OTHER -> ctx

MayFail(s) ==
  \/ s.op = "work"
  \/ s.op = "set_layer" /\ s.arg \notin Layers
  \/ s.op = "set_profile" /\ s.arg \notin DOMAIN config.profiles

MaySucceed(s) == s.op = "work" \/ ~MayFail(s)

(* The engine runs the next step; a failure skips the ones after it. A     *)
(* command that has just ended when the cancellation comes swallows it,    *)
(* in the same way: its runner is inside wait_for(proc.wait()).            *)
StepEnds ==
  /\ execPc = "running"
  /\ ~execCancel \/ Head(steps).op = "work"

StepSucceeds ==
  /\ StepEnds
  /\ MaySucceed(Head(steps))
  /\ ctx' = ContextAfter(Head(steps))
  /\ IF Len(steps) = 1
     THEN NextEvent(Executed("succeeded"))
     ELSE /\ steps' = Tail(steps)
          /\ execCancel' = FALSE
          /\ UNCHANGED <<execPc, held, queue, n>>
  /\ UNCHANGED <<config, lastHandled>>
  /\ KeepRest

StepFails ==
  /\ StepEnds
  /\ MayFail(Head(steps))
  /\ NextEvent(Executed("failed"))
  /\ UNCHANGED <<ctxVars, lastHandled>>
  /\ KeepRest

(* CancelledError at the dequeue or inside the plan.                       *)
ExecutorCancelled ==
  /\ execPc \in {"waiting", "running"} /\ execCancel
  /\ ExecutorExits(n)
  /\ UNCHANGED <<ctxVars, lastHandled>>
  /\ KeepRest

-----------------------------------------------------------------------------
(* reloader: _reload_loop() and _handle_reload()                           *)

AnsweredSlip(rs, a, ans) ==
  [r \in Requests |-> IF \E i \in DOMAIN rs : rs[i] = r THEN "ok" ELSE ans[r]]
Answered(rs, a, ans) ==
  [r \in Requests |-> IF \E i \in DOMAIN rs : rs[i] = r THEN a ELSE ans[r]]

(* Leave the loop, rejecting the requests still queued.                    *)
ReloaderExits(ans) ==
  /\ reloadPc' = "done"
  /\ reloadCancel' = FALSE
  /\ taken' = NoRequest
  /\ reloadQueue' = <<>>
  /\ answer' = Answered(reloadQueue, "stopping", ans)

AnswerSlip(a) == IF a = "failed" THEN answer ELSE [answer EXCEPT ![taken] = a]

(* fut.set_result: the client that waits gets its response.                *)
Answer(a) == [answer EXCEPT ![taken] = a]

NextRequest(ans) ==
  IF stop
  THEN ReloaderExits(ans)
  ELSE /\ reloadPc' = "waiting"
       /\ taken' = NoRequest
       /\ answer' = ans
       /\ UNCHANGED <<reloadQueue, reloadCancel>>

KeepOthers == UNCHANGED <<mainVars, sessVars, queue, execVars, clientChanges,
                          lastHandled>>

(* The inner task takes a request out of the queue; the loop resumes later.*)
TakeRequest ==
  /\ reloadPc = "waiting" /\ ~reloadCancel
  /\ reloadQueue # <<>>
  /\ taken' = Head(reloadQueue)
  /\ reloadQueue' = Tail(reloadQueue)
  /\ reloadPc' = "holding"
  /\ UNCHANGED <<reloadCancel, answer, ctxVars, n>>
  /\ KeepOthers

ContextReloadedSlip(f) == ctx
ContextReloaded(f)     == Reconcile(f, ctx)

(* A valid file replaces the resolver and reconciles the context in one    *)
(* step; an invalid one changes nothing but the failure count.             *)
ReloadOK(f) ==
  /\ reloadPc = "holding" /\ ~reloadCancel
  /\ ValidConfig(f)
  /\ config' = f
  /\ ctx' = ContextReloaded(f)
  /\ n' = Count("reloads")
  /\ NextRequest(Answer("ok"))
  /\ KeepOthers

ReloadBad(f) ==
  /\ reloadPc = "holding" /\ ~reloadCancel
  /\ ~ValidConfig(f)
  /\ n' = Count("reloadFailures")
  /\ lastError' = "RELOAD_FAILED"
  /\ NextRequest(Answer("failed"))
  /\ UNCHANGED <<state, mainPc, stop, attempts, graceOver, sessVars, queue,
                 execVars, ctxVars, clientChanges, lastHandled>>

ReloaderStops ==
  /\ reloadPc = "waiting" /\ stop
  /\ ReloaderExits(answer)
  /\ UNCHANGED <<ctxVars, n>>
  /\ KeepOthers

(* CancelledError at asyncio.wait: a request already taken is forgotten.   *)
ReloaderCancelled ==
  /\ reloadPc \in {"waiting", "holding"} /\ reloadCancel
  /\ ReloaderExits(answer)
  /\ UNCHANGED <<ctxVars, n>>
  /\ KeepOthers

-----------------------------------------------------------------------------
(* signals and the management server                                       *)

RequestStop ==
  /\ mainPc # "created"
  /\ ~stop
  /\ stop' = TRUE
  /\ UNCHANGED <<state, lastError, mainPc, attempts, graceOver, sessVars,
                 queue, execVars, reloadVars, ctxVars, n, clientChanges,
                 lastHandled>>

RequestReload(r) ==
  /\ mainPc # "created"
  /\ answer[r] = "none"
  /\ IF state \in Ending
     THEN answer' = [answer EXCEPT ![r] = "stopping"] /\ UNCHANGED reloadQueue
     ELSE /\ answer' = [answer EXCEPT ![r] = "pending"]
          /\ reloadQueue' = Append(reloadQueue, r)
  /\ UNCHANGED <<mainVars, sessVars, queue, execVars, reloadPc, taken,
                 reloadCancel, ctxVars, n, clientChanges, lastHandled>>

(* set-layer, next-layer, previous-layer and set-profile are refused once  *)
(* the daemon is ending; a layer or profile that does not exist is an      *)
(* INVALID_PARAM and changes nothing.                                      *)
ClientChange(x) ==
  /\ clientChanges < MaxClientChanges
  /\ clientChanges' = clientChanges + 1
  /\ ctx' = x
  /\ UNCHANGED <<mainVars, sessVars, queue, execVars, reloadVars, config, n,
                 lastHandled>>

ClientMaySwitch == mainPc # "created" /\ state \notin Ending

ClientSetLayer(l) ==
  /\ ClientMaySwitch
  /\ ClientChange(SetLayer(ctx, l, "management_cli"))

ClientNextLayer ==
  /\ ClientMaySwitch
  /\ ClientChange(NextLayer(config, ctx, "management_cli"))

ClientPreviousLayer ==
  /\ ClientMaySwitch
  /\ ClientChange(PreviousLayer(config, ctx, "management_cli"))

ClientSetProfile(p) ==
  /\ ClientMaySwitch
  /\ p \in DOMAIN config.profiles
  /\ ClientChange(SetProfile(config, ctx, p, "management_cli"))

-----------------------------------------------------------------------------
Main ==
  \/ \E f \in Files : StartOK(f) \/ StartBadConfig(f)
  \/ BackoffElapsed \/ BackoffStopped
  \/ SessionOver \/ CloseSession
  \/ GraceExpires \/ Return

Consumer ==
  \/ \E k \in Controls, isDown \in BOOLEAN : ReceiveEvent(k, isDown)
  \/ \E how \in {"recoverable", "fatal"} : SessionFails(how)
  \/ StreamEnds
  \/ GeneratorFinalised

Executor ==
  \/ TakeEvent \/ DequeueTimesOut
  \/ ResolveEvent \/ StepSucceeds \/ StepFails
  \/ ExecutorCancelled

Reloader ==
  \/ TakeRequest
  \/ \E f \in Files : ReloadOK(f) \/ ReloadBad(f)
  \/ ReloaderStops \/ ReloaderCancelled

Outside ==
  \/ RequestStop
  \/ \E r \in Requests : RequestReload(r)
  \/ \E l \in Layers : ClientSetLayer(l)
  \/ ClientNextLayer \/ ClientPreviousLayer
  \/ \E p \in Profiles : ClientSetProfile(p)

(* run() has returned and nothing is left to do.                           *)
Terminated == mainPc = "returned" /\ UNCHANGED vars

Next == Main \/ Consumer \/ Executor \/ Reloader \/ Outside \/ Terminated

Spec == Init /\ [][Next]_vars

(* The event loop runs every task that is ready, sleeps end and timers     *)
(* fire, a session that was told to close closes, and the engine's steps   *)
(* end (PlanEnds in ActionEngine says when they do). Nothing is assumed of *)
(* the device, of clients or of signals.                                   *)
Fairness == WF_vars(Main) /\ WF_vars(Executor) /\ WF_vars(Reloader)
FairSpec == Spec /\ Fairness

-----------------------------------------------------------------------------
(* Telemetry adds up at every moment: each event received was refused by   *)
(* the full queue or accepted; each accepted one is still queued, in the   *)
(* executor's hands, resolved, failed to resolve, or counted as discarded. *)
(* The queue keeps its bound, which enqueue() checks by hand.              *)
EventsAccountedFor ==
  /\ Len(queue) <= QueueCapacity
  /\ n["received"] = n["enqueued"] + n["dropped"]
  /\ n["enqueued"] = Len(queue) + (IF execPc = "holding" THEN 1 ELSE 0)
                      + n["resolved"] + n["discarded"]
                      + (n["succeeded"] + n["failed"] - n["executed"])

(* Every resolved plan was unmapped, or is executed exactly once; at most  *)
(* one is under way, and a shutdown abandons at most that one.             *)
PlansAccountedFor ==
  LET open == n["resolved"] - n["unmapped"] - n["executed"]
  IN  /\ open \in {0, 1}
      /\ execPc = "running" => open = 1
      /\ open = 1 => execPc \in {"running", "done"}

(* Events are handled in the order the device sent them, none twice: the   *)
(* queue, the event in hand and the last one handled are in that order.    *)
InOrder ==
  /\ \A i, j \in DOMAIN queue : i < j => queue[i].id < queue[j].id
  /\ \A i \in DOMAIN queue : lastHandled < queue[i].id
  /\ execPc = "holding" =>
       /\ lastHandled < held.id
       /\ \A i \in DOMAIN queue : held.id < queue[i].id

(* A reload is answered "ok" only in the step that puts its file in force, *)
(* no other step after startup changes the configuration, and an answer    *)
(* once given is never replaced (a future is resolved once).               *)
ReloadAnswersAreTrue ==
  [][config # NoConfig =>
       LET done == {r \in Requests : answer'[r] = "ok" /\ answer[r] # "ok"}
       IN  /\ ConfigRevision' = ConfigRevision + Cardinality(done)
           /\ done = {} => config' = config
           /\ \A r \in Requests :
                answer[r] \notin {"none", "pending"} => answer'[r] = answer[r]]_vars

(* The daemon implements the context manager's specification and the       *)
(* lifecycle.                                                              *)
Manager   == INSTANCE RuntimeContext WITH MaxRevision <- 0
Lifecycle == INSTANCE DaemonLifecycle
ImplementsManager   == Manager!Spec
ImplementsLifecycle == Lifecycle!FairSpec

(* A reload request made while the daemon goes on is answered, by success, *)
(* failure or rejection, unless the daemon is stopped or fails meanwhile.  *)
ReloadIsAnswered ==
  \A r \in Requests :
    answer[r] = "pending" ~> (answer[r] # "pending" \/ stop \/ state = "FAILED")

(* A stop request always ends run(), whatever the session, the executor,   *)
(* the reloader or the backoff are doing, even after a failure.            *)
StopReturns == stop ~> mainPc = "returned"

-----------------------------------------------------------------------------
(* Statements of the repository about the program that the code breaks.    *)

(* docs/daemon-runtime.md: it "halts completely on FatalRuntimeError", and *)
(* on a stop signal it exits cleanly: nothing else makes it FAILED.        *)
FailsOnlyWhenFatal ==
  state = "FAILED" => lastError \in {"INITIAL_CONFIG_INVALID", "FATAL_ERROR"}
=============================================================================
