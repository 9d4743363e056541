------------------------ MODULE DaemonRuntimeProofs -------------------------
(***************************************************************************)
(* Proofs about the daemon, for any files, requests, queue and number of   *)
(* events: telemetry adds up and keeps order, reloads are answered         *)
(* truthfully, and the daemon implements both of its abstract modules      *)
(* (the lifecycle without its fairness).                                   *)
(***************************************************************************)
EXTENDS DaemonRuntime, FiniteSetTheorems, TLAPS

-----------------------------------------------------------------------------
(* Where the tasks are, what the status says then, and whether there is a  *)
(* configuration.                                                          *)
Live == {"CONNECTING", "RUNNING", "RECONNECTING"}

Control ==
  /\ config \in Configs \cup {NoConfig}
  /\ mainPc \in {"created", "session", "closing", "backoff", "cleanup", "returned"}
  /\ mainPc = "created" => state = "CREATED" /\ ~stop /\ session = "none"
  /\ mainPc \in {"session", "closing", "backoff"} => state \in Live
  /\ mainPc = "cleanup" => state \in {"STOPPING", "FAILED"}
  /\ mainPc = "returned" => state \in {"STOPPED", "FAILED"}
  /\ session = "observing" => mainPc = "session"
  /\ mainPc = "created" => config = NoConfig
  /\ config = NoConfig =>
       mainPc \in {"created", "returned"} /\ execPc = "none" /\ reloadPc = "none"

LEMMA ControlInit == Init => Control
BY DEF Init, Control

LEMMA MainControl == Control /\ Main => Control'
<1> SUFFICES ASSUME Control, Main PROVE Control'
  OBVIOUS
<1> USE DEF Control, Live, sessVars, execVars, reloadVars, ctxVars
<1>1. ASSUME NEW f \in Files, StartOK(f) PROVE Control'
  BY <1>1, DaemonAssumption DEF StartOK, OpenSession, Configs
<1>2. ASSUME NEW f \in Files, StartBadConfig(f) PROVE Control'
  BY <1>2 DEF StartBadConfig
<1>3. CASE BackoffElapsed
  BY <1>3 DEF BackoffElapsed, OpenSession
<1>4. CASE BackoffStopped
  BY <1>4 DEF BackoffStopped, StopWakes, EnterCleanup
<1>5. CASE SessionOver
  BY <1>5 DEF SessionOver
<1>6. CASE CloseSession
  BY <1>6 DEF CloseSession, Fail, Reconnect, EnterCleanup
<1>7. CASE GraceExpires
  BY <1>7 DEF GraceExpires
<1>8. CASE Return
  BY <1>8 DEF Return, FinalState
<1> QED BY <1>1, <1>2, <1>3, <1>4, <1>5, <1>6, <1>7, <1>8 DEF Main

LEMMA ConsumerControl == Control /\ Consumer => Control'
<1> SUFFICES ASSUME Control, Consumer PROVE Control'
  OBVIOUS
<1> USE DEF Control, Live, mainVars, sessVars, execVars, reloadVars, ctxVars
<1>1. ASSUME NEW k \in Controls, NEW isDown \in BOOLEAN, ReceiveEvent(k, isDown) PROVE Control'
  BY <1>1 DEF ReceiveEvent, SessionSucceeds
<1>2. ASSUME NEW how \in {"recoverable", "fatal"}, SessionFails(how) PROVE Control'
  BY <1>2 DEF SessionFails
<1>3. CASE StreamEnds
  BY <1>3 DEF StreamEnds
<1>4. CASE GeneratorFinalised
  BY <1>4 DEF GeneratorFinalised
<1> QED BY <1>1, <1>2, <1>3, <1>4 DEF Consumer

(* The executor moves the context, its own variables and the counters.     *)
LEMMA ExecutorFrame ==
  Executor => /\ UNCHANGED <<mainVars, sessVars, reloadVars, clientChanges, config>>
              /\ execPc # "none"
<1> DEFINE Frame == /\ UNCHANGED <<mainVars, sessVars, reloadVars, clientChanges, config>>
                    /\ execPc # "none"
<1> USE DEF KeepRest, ctxVars
<1>1. TakeEvent => Frame
  BY DEF TakeEvent
<1>2. DequeueTimesOut => Frame
  BY DEF DequeueTimesOut
<1>3. ResolveEvent => Frame
  BY DEF ResolveEvent
<1>4. StepSucceeds => Frame
  BY DEF StepSucceeds, StepEnds
<1>5. StepFails => Frame
  BY DEF StepFails, StepEnds
<1>6. ExecutorCancelled => Frame
  BY DEF ExecutorCancelled
<1> QED BY <1>1, <1>2, <1>3, <1>4, <1>5, <1>6 DEF Executor

LEMMA ExecutorControl == Control /\ Executor => Control'
BY ExecutorFrame DEF Control, Live, mainVars, sessVars, reloadVars

LEMMA ReloaderControl == Control /\ Reloader => Control'
<1> SUFFICES ASSUME Control, Reloader PROVE Control'
  OBVIOUS
<1> USE DEF Control, Live, KeepOthers, mainVars, sessVars, execVars, ctxVars
<1>1. CASE TakeRequest
  BY <1>1 DEF TakeRequest
<1>2. ASSUME NEW f \in Files, ReloadOK(f) PROVE Control'
  BY <1>2, DaemonAssumption DEF ReloadOK, Configs
<1>3. ASSUME NEW f \in Files, ReloadBad(f) PROVE Control'
  BY <1>3 DEF ReloadBad
<1>4. CASE ReloaderStops
  BY <1>4 DEF ReloaderStops
<1>5. CASE ReloaderCancelled
  BY <1>5 DEF ReloaderCancelled
<1> QED BY <1>1, <1>2, <1>3, <1>4, <1>5 DEF Reloader

(* A client changes the context only of a daemon that runs.                *)
LEMMA OutsideCases ==
  ASSUME Control, Outside
  PROVE  \/ RequestStop
         \/ \E r \in Requests : RequestReload(r)
         \/ /\ config # NoConfig
            /\ \/ \E l \in Layers : ClientChange(SetLayer(ctx, l, "management_cli"))
               \/ ClientChange(NextLayer(config, ctx, "management_cli"))
               \/ ClientChange(PreviousLayer(config, ctx, "management_cli"))
               \/ \E p \in Profiles : /\ p \in DOMAIN config.profiles
                                      /\ ClientChange(SetProfile(config, ctx, p, "management_cli"))
<1>1. ClientMaySwitch => config # NoConfig
  BY DEF ClientMaySwitch, Control, Ending
<1> QED BY <1>1 DEF Outside, ClientSetLayer, ClientNextLayer, ClientPreviousLayer, ClientSetProfile

LEMMA OutsideControl == Control /\ Outside => Control'
<1> SUFFICES ASSUME Control, Outside PROVE Control'
  OBVIOUS
<1> USE DEF Control, Live, mainVars, sessVars, execVars, reloadVars, ctxVars
<1>1. CASE RequestStop
  BY <1>1 DEF RequestStop
<1>2. ASSUME NEW r \in Requests, RequestReload(r) PROVE Control'
  BY <1>2 DEF RequestReload
<1>3. ASSUME NEW x, ClientChange(x) PROVE Control'
  BY <1>3 DEF ClientChange
<1> QED BY <1>1, <1>2, <1>3, OutsideCases

LEMMA ControlStep == Control /\ [Next]_vars => Control'
<1>1. Control /\ UNCHANGED vars => Control'
  BY DEF Control, Live, vars, mainVars, sessVars, execVars, reloadVars, ctxVars
<1> QED BY <1>1, MainControl, ConsumerControl, ExecutorControl, ReloaderControl, OutsideControl
        DEF Next, Terminated

LEMMA ControlHolds == Spec => []Control
BY ControlInit, ControlStep, PTL DEF Spec

-----------------------------------------------------------------------------
(* The lifecycle.                                                          *)
LifecycleStep == [Lifecycle!Next]_Lifecycle!vars

LEMMA KeepsLifecycle == UNCHANGED <<state, stop>> => LifecycleStep
BY DEF LifecycleStep, Lifecycle!vars

LEMMA MainLifecycle == Control /\ Main => LifecycleStep
<1> SUFFICES ASSUME Control, Main PROVE LifecycleStep
  OBVIOUS
<1> USE DEF Control, Live, LifecycleStep, Lifecycle!vars, Lifecycle!Next, Lifecycle!Live
<1>1. ASSUME NEW f \in Files, StartOK(f) PROVE LifecycleStep
  BY <1>1 DEF StartOK, Lifecycle!Begin
<1>2. ASSUME NEW f \in Files, StartBadConfig(f) PROVE LifecycleStep
  BY <1>2 DEF StartBadConfig, Lifecycle!Begin
<1>3. CASE BackoffElapsed
  BY <1>3 DEF BackoffElapsed
<1>4. CASE BackoffStopped
  BY <1>4 DEF BackoffStopped, StopWakes, EnterCleanup, Lifecycle!Stopping
<1>5. CASE SessionOver
  BY <1>5 DEF SessionOver
<1>6. CASE CloseSession
  BY <1>6 DEF CloseSession, Fail, Reconnect, EnterCleanup,
              Lifecycle!Lost, Lifecycle!Break, Lifecycle!Stopping
<1>7. CASE GraceExpires
  BY <1>7 DEF GraceExpires
<1>8. CASE Return
  BY <1>8 DEF Return, FinalState, Lifecycle!Stopped
<1> QED BY <1>1, <1>2, <1>3, <1>4, <1>5, <1>6, <1>7, <1>8 DEF Main

LEMMA ConsumerLifecycle == Control /\ Consumer => LifecycleStep
<1> SUFFICES ASSUME Control, Consumer PROVE LifecycleStep
  OBVIOUS
<1>1. ASSUME NEW k \in Controls, NEW isDown \in BOOLEAN, ReceiveEvent(k, isDown)
      PROVE  LifecycleStep
  BY <1>1 DEF ReceiveEvent, SessionSucceeds, Control, Live, LifecycleStep, Lifecycle!vars,
              Lifecycle!Next, Lifecycle!Live, Lifecycle!Connected
<1>2. ASSUME NEW how \in {"recoverable", "fatal"}, SessionFails(how) PROVE LifecycleStep
  BY <1>2, KeepsLifecycle DEF SessionFails, mainVars
<1>3. CASE StreamEnds
  BY <1>3, KeepsLifecycle DEF StreamEnds, mainVars
<1>4. CASE GeneratorFinalised
  BY <1>4, KeepsLifecycle DEF GeneratorFinalised, mainVars
<1> QED BY <1>1, <1>2, <1>3, <1>4 DEF Consumer

LEMMA ReloaderLifecycle == Reloader => LifecycleStep
<1> USE KeepsLifecycle DEF KeepOthers, mainVars
<1>1. TakeRequest => LifecycleStep
  BY DEF TakeRequest
<1>2. \A f \in Files : ReloadOK(f) => LifecycleStep
  BY DEF ReloadOK
<1>3. \A f \in Files : ReloadBad(f) => LifecycleStep
  BY DEF ReloadBad
<1>4. ReloaderStops => LifecycleStep
  BY DEF ReloaderStops
<1>5. ReloaderCancelled => LifecycleStep
  BY DEF ReloaderCancelled
<1> QED BY <1>1, <1>2, <1>3, <1>4, <1>5 DEF Reloader

LEMMA OutsideLifecycle == Control /\ Outside => LifecycleStep
<1> SUFFICES ASSUME Control, Outside PROVE LifecycleStep
  OBVIOUS
<1>1. CASE RequestStop
  BY <1>1 DEF RequestStop, Control, Live, LifecycleStep, Lifecycle!Next, Lifecycle!RequestStop
<1>2. ASSUME NEW r \in Requests, RequestReload(r) PROVE LifecycleStep
  BY <1>2, KeepsLifecycle DEF RequestReload, mainVars
<1>3. ASSUME NEW x, ClientChange(x) PROVE LifecycleStep
  BY <1>3, KeepsLifecycle DEF ClientChange, mainVars
<1> QED BY <1>1, <1>2, <1>3, OutsideCases

(* Every state that "yyr4ctl status" can show follows from the one before  *)
(* as DaemonLifecycle allows: a stop that was asked for is the only way to *)
(* STOPPED, and nothing leaves FAILED (daemon/runtime.py, run).            *)
THEOREM LifecycleImplemented == Spec => Lifecycle!Spec
<1>1. Init => Lifecycle!Init
  BY DEF Init, Lifecycle!Init
<1>2. Control /\ [Next]_vars => LifecycleStep
  <2>1. Executor => LifecycleStep
    BY ExecutorFrame, KeepsLifecycle DEF mainVars
  <2>2. UNCHANGED vars => LifecycleStep
    BY KeepsLifecycle DEF vars, mainVars
  <2> QED BY <2>1, <2>2, MainLifecycle, ConsumerLifecycle, ReloaderLifecycle, OutsideLifecycle
          DEF Next, Terminated
<1> QED BY <1>1, <1>2, ControlHolds, PTL DEF Spec, Lifecycle!Spec, LifecycleStep

-----------------------------------------------------------------------------
(* The context manager. RuntimeContext names the same functions of         *)
(* ContextOps, with the same constants.                                    *)
ManagerStep == [Manager!Step]_Manager!vars

LEMMA SameFunctions ==
  /\ Manager!Configs = Configs
  /\ Manager!Layers = Layers
  /\ \A c : Manager!StartupContext(c) = StartupContext(c)
  /\ \A x, l, s : Manager!SetLayer(x, l, s) = SetLayer(x, l, s)
  /\ \A c, x, s : Manager!NextLayer(c, x, s) = NextLayer(c, x, s)
  /\ \A c, x, s : Manager!PreviousLayer(c, x, s) = PreviousLayer(c, x, s)
  /\ \A c, x, p, s : Manager!SetProfile(c, x, p, s) = SetProfile(c, x, p, s)
  /\ \A c, x : Manager!Reconcile(c, x) = Reconcile(c, x)
<1>1. Manager!Layers = Layers
  BY DEF Manager!Layers, Layers
<1>2. Manager!Configs = Configs
  BY DEF Manager!Configs, Configs, Manager!ValidConfig, ValidConfig, Manager!General, General
<1>3. \A c : Manager!StartupContext(c) = StartupContext(c)
  BY DEF Manager!StartupContext, StartupContext
<1>4. \A x, p, l, e, s : Manager!Switch(x, p, l, e, s) = Switch(x, p, l, e, s)
  BY DEF Manager!Switch, Switch
<1>5. \A x, l, s : Manager!SetLayer(x, l, s) = SetLayer(x, l, s)
  BY <1>4 DEF Manager!SetLayer, SetLayer
<1>6. \A c, p : Manager!Available(c, p) = Available(c, p)
  BY DEF Manager!Available, Available, Manager!General, General
<1>7. \A S : Manager!Max(S) = Max(S) /\ Manager!Min(S) = Min(S)
  BY DEF Manager!Max, Max, Manager!Min, Min
<1>8. \A a, l : Manager!LayerAfter(a, l) = LayerAfter(a, l)
  BY <1>7 DEF Manager!LayerAfter, LayerAfter, Manager!General, General
<1>9. \A a, l : Manager!LayerBefore(a, l) = LayerBefore(a, l)
  BY <1>7 DEF Manager!LayerBefore, LayerBefore
<1>10. \A c, x, s : Manager!NextLayer(c, x, s) = NextLayer(c, x, s)
  BY <1>4, <1>6, <1>8 DEF Manager!NextLayer, NextLayer
<1>11. \A c, x, s : Manager!PreviousLayer(c, x, s) = PreviousLayer(c, x, s)
  BY <1>4, <1>6, <1>9 DEF Manager!PreviousLayer, PreviousLayer
<1>12. \A c, x, p, s : Manager!SetProfile(c, x, p, s) = SetProfile(c, x, p, s)
  BY <1>4 DEF Manager!SetProfile, SetProfile
<1>13. \A c, x : Manager!Reconcile(c, x) = Reconcile(c, x)
  BY <1>4 DEF Manager!Reconcile, Reconcile
<1> QED BY <1>1, <1>2, <1>3, <1>5, <1>10, <1>11, <1>12, <1>13

LEMMA KeepsManager == UNCHANGED ctxVars => ManagerStep
BY DEF ManagerStep, Manager!vars, ctxVars

(* What moves the context of a running daemon is one of the manager's      *)
(* methods; a profile it selects is in the configuration.                  *)
Moves(src) ==
  \/ \E l \in Layers : ctx' = SetLayer(ctx, l, src)
  \/ ctx' = NextLayer(config, ctx, src)
  \/ ctx' = PreviousLayer(config, ctx, src)
  \/ \E p \in DOMAIN config.profiles : ctx' = SetProfile(config, ctx, p, src)

LEMMA MovesManager ==
  ASSUME Control, config # NoConfig, config' = config,
         NEW src \in {"control_action", "management_cli"}, Moves(src)
  PROVE  ManagerStep
<1>1. DOMAIN config.profiles \subseteq Profiles
  BY FilesAssumption DEF Control, Configs
<1> USE SameFunctions DEF ManagerStep, Manager!Step, Manager!Started
<1>2. ASSUME NEW l \in Layers, ctx' = SetLayer(ctx, l, src) PROVE ManagerStep
  BY <1>2 DEF Manager!ChangeLayer
<1>3. CASE ctx' = NextLayer(config, ctx, src)
  BY <1>3 DEF Manager!ChangeToNext
<1>4. CASE ctx' = PreviousLayer(config, ctx, src)
  BY <1>4 DEF Manager!ChangeToPrevious
<1>5. ASSUME NEW p \in DOMAIN config.profiles, ctx' = SetProfile(config, ctx, p, src)
      PROVE  ManagerStep
  BY <1>1, <1>5 DEF Manager!ChangeProfile
<1> QED BY <1>2, <1>3, <1>4, <1>5 DEF Moves

LEMMA MainManager == Control /\ Main => ManagerStep
<1> SUFFICES ASSUME Control, Main PROVE ManagerStep
  OBVIOUS
<1>1. ASSUME NEW f \in Files, StartOK(f) PROVE ManagerStep
  BY <1>1, SameFunctions
     DEF StartOK, Control, Configs, ManagerStep, Manager!Step, Manager!Startup
<1>2. ASSUME NEW f \in Files, StartBadConfig(f) PROVE ManagerStep
  BY <1>2, KeepsManager DEF StartBadConfig
<1>3. BackoffElapsed \/ BackoffStopped \/ SessionOver \/ CloseSession \/ GraceExpires \/ Return
        => UNCHANGED ctxVars
  BY DEF BackoffElapsed, BackoffStopped, SessionOver, CloseSession, GraceExpires, Return
<1> QED BY <1>1, <1>2, <1>3, KeepsManager DEF Main

LEMMA ConsumerManager == Consumer => ManagerStep
<1>1. Consumer => UNCHANGED ctxVars
  BY DEF Consumer, ReceiveEvent, SessionFails, StreamEnds, GeneratorFinalised
<1> QED BY <1>1, KeepsManager

LEMMA ExecutorManager == Control /\ Executor => ManagerStep
<1> SUFFICES ASSUME Control, Executor PROVE ManagerStep
  OBVIOUS
<1>1. config' = config /\ config # NoConfig
  BY ExecutorFrame DEF Control
<1>2. CASE StepSucceeds
  <2> DEFINE s == Head(steps)
  <2>1. ctx' = ContextAfter(s)
    BY <1>2 DEF StepSucceeds
  <2>2. ctx' = ctx \/ Moves("control_action")
    <3>1. CASE s.op = "set_layer" /\ s.arg \in Layers
      BY <2>1, <3>1 DEF ContextAfter, Moves
    <3>2. CASE s.op = "next_layer"
      BY <2>1, <3>2 DEF ContextAfter, Moves
    <3>3. CASE s.op = "previous_layer"
      BY <2>1, <3>3 DEF ContextAfter, Moves
    <3>4. CASE s.op = "set_profile" /\ s.arg \in DOMAIN config.profiles
      BY <2>1, <3>4 DEF ContextAfter, Moves
    <3>5. CASE /\ ~(s.op = "set_layer" /\ s.arg \in Layers)
               /\ s.op # "next_layer" /\ s.op # "previous_layer"
               /\ ~(s.op = "set_profile" /\ s.arg \in DOMAIN config.profiles)
      BY <2>1, <3>5 DEF ContextAfter
    <3> QED BY <3>1, <3>2, <3>3, <3>4, <3>5
  <2>3. CASE ctx' = ctx
    BY <1>1, <2>3, KeepsManager DEF ctxVars
  <2> QED BY <1>1, <2>2, <2>3, MovesManager
<1>3. TakeEvent \/ DequeueTimesOut \/ ResolveEvent \/ StepFails \/ ExecutorCancelled
        => UNCHANGED ctxVars
  BY DEF TakeEvent, DequeueTimesOut, ResolveEvent, StepFails, ExecutorCancelled
<1> QED BY <1>2, <1>3, KeepsManager DEF Executor

LEMMA ReloaderManager == Control /\ Reloader => ManagerStep
<1> SUFFICES ASSUME Control, Reloader PROVE ManagerStep
  OBVIOUS
<1>1. ASSUME NEW f \in Files, ReloadOK(f) PROVE ManagerStep
  <2>1. config # NoConfig /\ f \in Configs /\ config' = f /\ ctx' = Reconcile(f, ctx)
    BY <1>1 DEF ReloadOK, ContextReloaded, Control, Configs
  <2> QED BY <2>1, SameFunctions DEF ManagerStep, Manager!Step, Manager!Reload, Manager!Started
<1>2. ASSUME NEW f \in Files, ReloadBad(f) PROVE ManagerStep
  BY <1>2, KeepsManager DEF ReloadBad
<1>3. TakeRequest \/ ReloaderStops \/ ReloaderCancelled => UNCHANGED ctxVars
  BY DEF TakeRequest, ReloaderStops, ReloaderCancelled
<1> QED BY <1>1, <1>2, <1>3, KeepsManager DEF Reloader

LEMMA OutsideManager == Control /\ Outside => ManagerStep
<1> SUFFICES ASSUME Control, Outside PROVE ManagerStep
  OBVIOUS
<1>1. RequestStop \/ (\E r \in Requests : RequestReload(r)) => UNCHANGED ctxVars
  BY DEF RequestStop, RequestReload
<1>2. ASSUME NEW x, ClientChange(x) PROVE ctx' = x /\ config' = config
  BY <1>2 DEF ClientChange
<1>3. \/ UNCHANGED ctxVars
      \/ config # NoConfig /\ config' = config /\ Moves("management_cli")
  BY <1>1, <1>2, OutsideCases DEF Moves
<1> QED BY <1>3, KeepsManager, MovesManager

LEMMA NextManager == Control /\ [Next]_vars => ManagerStep
<1>1. UNCHANGED vars => ManagerStep
  BY KeepsManager DEF vars
<1> QED BY <1>1, MainManager, ConsumerManager, ExecutorManager, ReloaderManager, OutsideManager
        DEF Next, Terminated

(* Whatever the tasks, the clients and the reloads do to the configuration *)
(* and the context is what the context manager's specification allows.     *)
THEOREM ManagerImplemented == Spec => ImplementsManager
<1>1. Init => Manager!Init
  BY DEF Init, Manager!Init
<1> QED BY <1>1, NextManager, ControlHolds, PTL
        DEF Spec, ImplementsManager, Manager!Spec, ManagerStep

(* What the manager promises, in the daemon: the functions of the context  *)
(* find and leave a declared profile, whichever task calls them.           *)
ManagerInv ==
  config # NoConfig => ctx.profile \in DOMAIN config.profiles /\ ctx.revision \in Nat

(* A step of the manager on a started daemon, in terms of ContextOps.      *)
LEMMA ManagerSteps ==
  ASSUME Control, config # NoConfig, ManagerStep
  PROVE  \/ UNCHANGED <<config, ctx>>
         \/ config' \in Configs /\ ctx' = Reconcile(config', ctx)
         \/ /\ config' = config
            /\ \E p \in DOMAIN config.profiles : \E l, e, s : ctx' = Switch(ctx, p, l, e, s)
         \/ config' = config /\ \E l, e, s : ctx' = Switch(ctx, ctx.profile, l, e, s)
<1> USE SameFunctions DEF Manager!Started
<1>1. ASSUME NEW c, Manager!Startup(c) PROVE FALSE
  BY <1>1 DEF Manager!Startup
<1>2. ASSUME NEW c \in Configs, Manager!Reload(c)
      PROVE  config' \in Configs /\ ctx' = Reconcile(config', ctx)
  BY <1>2 DEF Manager!Reload
<1>3. ASSUME NEW l, NEW src, Manager!ChangeLayer(l, src)
      PROVE  config' = config /\ \E m, e, s : ctx' = Switch(ctx, ctx.profile, m, e, s)
  BY <1>3 DEF Manager!ChangeLayer, SetLayer
<1>4. ASSUME NEW src, Manager!ChangeToNext(src) \/ Manager!ChangeToPrevious(src)
      PROVE  config' = config /\ \E m, e, s : ctx' = Switch(ctx, ctx.profile, m, e, s)
  BY <1>4 DEF Manager!ChangeToNext, Manager!ChangeToPrevious, NextLayer, PreviousLayer
<1>5. ASSUME NEW p, NEW src, Manager!ChangeProfile(p, src)
      PROVE  /\ config' = config
             /\ \E q \in DOMAIN config.profiles : \E l, e, s : ctx' = Switch(ctx, q, l, e, s)
  BY <1>5 DEF Manager!ChangeProfile, SetProfile
<1>6. UNCHANGED Manager!vars => UNCHANGED <<config, ctx>>
  BY DEF Manager!vars
<1>7. \/ UNCHANGED Manager!vars
      \/ \E c \in Configs : Manager!Startup(c) \/ Manager!Reload(c)
      \/ \E src : \/ \E l : Manager!ChangeLayer(l, src)
                  \/ Manager!ChangeToNext(src) \/ Manager!ChangeToPrevious(src)
                  \/ \E p : Manager!ChangeProfile(p, src)
  BY DEF ManagerStep, Manager!Step
<1> QED BY <1>1, <1>2, <1>3, <1>4, <1>5, <1>6, <1>7

LEMMA ManagerKept == Control /\ ManagerInv /\ ManagerStep => ManagerInv'
<1> SUFFICES ASSUME Control, ManagerInv, ManagerStep, config' # NoConfig
             PROVE  ctx'.profile \in DOMAIN config'.profiles /\ ctx'.revision \in Nat
  BY DEF ManagerInv
<1> USE DEF ManagerInv, Switch
<1>1. CASE config = NoConfig
  <2>1. UNCHANGED <<config, ctx>>
        \/ \E c \in Configs : config' = c /\ ctx' = StartupContext(c)
    BY <1>1, SameFunctions
       DEF ManagerStep, Manager!Step, Manager!vars, Manager!Startup, Manager!Reload,
           Manager!ChangeLayer, Manager!ChangeToNext, Manager!ChangeToPrevious,
           Manager!ChangeProfile, Manager!Started
  <2> QED BY <1>1, <2>1 DEF Configs, ValidConfig, StartupContext
<1>2. CASE config # NoConfig
  <2>1. CASE config' \in Configs /\ ctx' = Reconcile(config', ctx)
    BY <1>2, <2>1 DEF Configs, ValidConfig, Reconcile
  <2>2. CASE config' = config /\ \E p \in DOMAIN config.profiles : \E l, e, s :
                                   ctx' = Switch(ctx, p, l, e, s)
    BY <1>2, <2>2
  <2>3. CASE config' = config /\ \E l, e, s : ctx' = Switch(ctx, ctx.profile, l, e, s)
    BY <1>2, <2>3
  <2> QED BY <1>2, <2>1, <2>2, <2>3, ManagerSteps
<1> QED BY <1>1, <1>2

(* What a reload takes away and how the revision counts, step by step.     *)
Counted ==
  config # NoConfig =>
    LET moved == <<ctx'.profile, ctx'.layer>> # <<ctx.profile, ctx.layer>>
    IN  ctx'.revision = ctx.revision + (IF moved THEN 1 ELSE 0)

Spared ==
  config # NoConfig /\ config' # config =>
    /\ ctx.profile \in DOMAIN config'.profiles => ctx'.profile = ctx.profile
    /\ (/\ ctx.profile \in DOMAIN config'.profiles
        /\ ctx.layer \in DOMAIN config'.profiles[ctx.profile])
         => ctx'.layer = ctx.layer
    /\ ctx'.layer \in DOMAIN config'.profiles[ctx'.profile] \cup {config'.initial}

LEMMA ManagerPromises == Control /\ ManagerInv /\ ManagerStep => Counted /\ Spared
<1> SUFFICES ASSUME Control, ManagerInv, ManagerStep, config # NoConfig
             PROVE  Counted /\ Spared
  BY DEF Counted, Spared
<1>1. ctx.revision \in Nat
  BY DEF ManagerInv
<1>2. CASE config' \in Configs /\ ctx' = Reconcile(config', ctx)
  BY <1>1, <1>2 DEF Counted, Spared, Reconcile, Switch
<1>3. CASE config' = config /\ \E p, l, e, s : ctx' = Switch(ctx, p, l, e, s)
  BY <1>1, <1>3 DEF Counted, Spared, Switch
<1>4. CASE UNCHANGED <<config, ctx>>
  BY <1>1, <1>4 DEF Counted, Spared
<1> QED BY <1>2, <1>3, <1>4, ManagerSteps

(* In a daemon with all its tasks, every key press finds the profile it is *)
(* resolved in, so that the executor never meets "Unknown profile"; what   *)
(* status reports as revision counts the changes; and a reload between two *)
(* key presses takes from the selection only what the new file lacks.      *)
THEOREM ManagerPromisesHold ==
  Spec => /\ []Manager!SelectedProfileExists
          /\ Manager!RevisionTracksChanges
          /\ Manager!ReloadKeepsValidSelection
<1>1. Init => ManagerInv
  BY DEF Init, ManagerInv
<1>2. Control /\ [Next]_vars => ManagerStep
  BY NextManager
<1>3. ManagerInv => Manager!SelectedProfileExists
  BY DEF ManagerInv, Manager!SelectedProfileExists, Manager!Started
<1>4. Counted <=>
        (Manager!Started =>
           LET moved == <<ctx'.profile, ctx'.layer>> # <<ctx.profile, ctx.layer>>
           IN  ctx'.revision = ctx.revision + (IF moved THEN 1 ELSE 0))
  BY DEF Counted, Manager!Started
<1>5. Spared <=>
        ((Manager!Started /\ config' # config) =>
           /\ ctx.profile \in DOMAIN config'.profiles => ctx'.profile = ctx.profile
           /\ (/\ ctx.profile \in DOMAIN config'.profiles
               /\ ctx.layer \in DOMAIN config'.profiles[ctx.profile])
                => ctx'.layer = ctx.layer
           /\ ctx'.layer \in DOMAIN config'.profiles[ctx'.profile] \cup {config'.initial})
  BY DEF Spared, Manager!Started
<1> QED BY <1>1, <1>2, <1>3, <1>4, <1>5, ManagerKept, ManagerPromises, ControlHolds, PTL
        DEF Spec, Manager!RevisionTracksChanges, Manager!ReloadKeepsValidSelection

-----------------------------------------------------------------------------
(* Telemetry. The counters the equations relate, and what the queue, the   *)
(* executor and the last event handled are.                                *)
Tallies == {"received", "enqueued", "dropped", "resolved", "unmapped",
            "executed", "succeeded", "failed", "discarded"}

Shapes ==
  /\ n \in [Counters -> Nat]
  /\ queue \in Seq(Event)
  /\ execPc \in {"none", "waiting", "holding", "running", "done"}
  /\ execPc = "holding" => held \in Event
  /\ lastHandled \in Nat

(* Events are numbered as they are received: no number is ahead of that.   *)
Numbered ==
  /\ \A i \in DOMAIN queue : queue[i].id <= n["received"]
  /\ execPc = "holding" => held.id <= n["received"]
  /\ lastHandled <= n["received"]

TelemetryInv ==
  Shapes /\ Numbered /\ EventsAccountedFor /\ PlansAccountedFor /\ InOrder

LEMMA TallyIsCounter == Tallies \subseteq Counters
BY DEF Tallies, Counters

(* All tallies by name: the solvers calculate with these.                  *)
NatTallies(m) ==
  /\ m["received"] \in Nat /\ m["enqueued"] \in Nat /\ m["dropped"] \in Nat
  /\ m["resolved"] \in Nat /\ m["unmapped"] \in Nat /\ m["executed"] \in Nat
  /\ m["succeeded"] \in Nat /\ m["failed"] \in Nat /\ m["discarded"] \in Nat

LEMMA TalliesAreNat ==
  ASSUME NEW m \in [Counters -> Nat]
  PROVE  NatTallies(m)
BY DEF NatTallies, Counters

(* m is n but for the tallies in K.                                        *)
SameBut(m, K) ==
  /\ "received" \notin K => m["received"] = n["received"]
  /\ "enqueued" \notin K => m["enqueued"] = n["enqueued"]
  /\ "dropped" \notin K => m["dropped"] = n["dropped"]
  /\ "resolved" \notin K => m["resolved"] = n["resolved"]
  /\ "unmapped" \notin K => m["unmapped"] = n["unmapped"]
  /\ "executed" \notin K => m["executed"] = n["executed"]
  /\ "succeeded" \notin K => m["succeeded"] = n["succeeded"]
  /\ "failed" \notin K => m["failed"] = n["failed"]
  /\ "discarded" \notin K => m["discarded"] = n["discarded"]

LEMMA Bump ==
  ASSUME NEW m \in [Counters -> Nat], NEW k \in Counters
  PROVE  /\ [m EXCEPT ![k] = @ + 1] \in [Counters -> Nat]
         /\ [m EXCEPT ![k] = @ + 1][k] = m[k] + 1
         /\ \A j \in Counters \ {k} : [m EXCEPT ![k] = @ + 1][j] = m[j]
OBVIOUS

LEMMA TelemetryInit == Init => TelemetryInv
<1> SUFFICES ASSUME Init PROVE TelemetryInv
  OBVIOUS
<1>1. n \in [Counters -> Nat] /\ \A k \in Counters : n[k] = 0
  BY DEF Init
<1>2. queue = <<>> /\ execPc = "none" /\ lastHandled = 0
  BY DEF Init
<1>3. Shapes
  BY <1>1, <1>2 DEF Shapes
<1>4. Numbered /\ InOrder
  BY <1>1, <1>2 DEF Numbered, InOrder, Counters
<1>5. EventsAccountedFor /\ PlansAccountedFor
  BY <1>1, <1>2, DaemonAssumption DEF EventsAccountedFor, PlansAccountedFor, Counters
<1> QED BY <1>3, <1>4, <1>5 DEF TelemetryInv

(* What m says of the events accepted, when len of them are not settled.   *)
Balance(m, len) ==
  m["enqueued"] = len + m["resolved"] + m["discarded"]
                  + (m["succeeded"] + m["failed"] - m["executed"])

(* How many plans of m are neither unmapped nor executed.                  *)
Open(m) == m["resolved"] - m["unmapped"] - m["executed"]

LEMMA Accounts ==
  /\ EventsAccountedFor <=>
       /\ Len(queue) <= QueueCapacity
       /\ n["received"] = n["enqueued"] + n["dropped"]
       /\ Balance(n, Len(queue) + (IF execPc = "holding" THEN 1 ELSE 0))
  /\ PlansAccountedFor <=>
       /\ Open(n) \in {0, 1}
       /\ execPc = "running" => Open(n) = 1
       /\ Open(n) = 1 => execPc \in {"running", "done"}
BY DEF EventsAccountedFor, PlansAccountedFor, Balance, Open

(* The same in the next state.                                             *)
LEMMA AccountsNext ==
  /\ EventsAccountedFor' <=>
       /\ Len(queue') <= QueueCapacity
       /\ n'["received"] = n'["enqueued"] + n'["dropped"]
       /\ Balance(n', Len(queue') + (IF execPc' = "holding" THEN 1 ELSE 0))
  /\ PlansAccountedFor' <=>
       /\ Open(n') \in {0, 1}
       /\ execPc' = "running" => Open(n') = 1
       /\ Open(n') = 1 => execPc' \in {"running", "done"}
BY DEF EventsAccountedFor, PlansAccountedFor, Balance, Open

(* How the tallies move: the arithmetic of the steps, once and for all.    *)
LEMMA ResolveFailed ==
  ASSUME NatTallies(n), NEW len \in Nat, NEW m,
         m["failed"] = n["failed"] + 1, SameBut(m, {"failed"}), Balance(n, len + 1)
  PROVE  Balance(m, len) /\ Open(m) = Open(n)
BY DEF NatTallies, SameBut, Balance, Open

LEMMA ResolveUnmapped ==
  ASSUME NatTallies(n), NEW len \in Nat, NEW m,
         m["unmapped"] = n["unmapped"] + 1, m["resolved"] = n["resolved"] + 1,
         SameBut(m, {"resolved", "unmapped"}), Balance(n, len + 1)
  PROVE  Balance(m, len) /\ Open(m) = Open(n)
BY DEF NatTallies, SameBut, Balance, Open

LEMMA ResolveEmpty ==
  ASSUME NatTallies(n), NEW len \in Nat, NEW m,
         m["executed"] = n["executed"] + 1, m["resolved"] = n["resolved"] + 1,
         m["succeeded"] = n["succeeded"] + 1,
         SameBut(m, {"resolved", "executed", "succeeded"}), Balance(n, len + 1)
  PROVE  Balance(m, len) /\ Open(m) = Open(n)
<1>1. /\ m["enqueued"] = n["enqueued"] /\ m["discarded"] = n["discarded"]
      /\ m["unmapped"] = n["unmapped"] /\ m["failed"] = n["failed"]
  BY DEF SameBut
<1>2. Balance(m, len)
  BY <1>1 DEF NatTallies, Balance
<1>3. Open(m) = Open(n)
  BY <1>1 DEF NatTallies, Open
<1> QED BY <1>2, <1>3

LEMMA ResolvePlan ==
  ASSUME NatTallies(n), NEW len \in Nat, NEW m,
         m["resolved"] = n["resolved"] + 1, SameBut(m, {"resolved"}), Balance(n, len + 1)
  PROVE  Balance(m, len) /\ Open(m) = Open(n) + 1
BY DEF NatTallies, SameBut, Balance, Open

LEMMA ExecutePlan ==
  ASSUME NatTallies(n), NEW m, NatTallies(m), NEW len \in Nat,
         m["executed"] = n["executed"] + 1,
         m["succeeded"] + m["failed"] = n["succeeded"] + n["failed"] + 1,
         SameBut(m, {"executed", "succeeded", "failed"}), Balance(n, len)
  PROVE  Balance(m, len) /\ Open(m) = Open(n) - 1
<1>1. /\ m["enqueued"] = n["enqueued"] /\ m["discarded"] = n["discarded"]
      /\ m["resolved"] = n["resolved"] /\ m["unmapped"] = n["unmapped"]
  BY DEF SameBut
<1>2. Balance(m, len)
  BY <1>1 DEF NatTallies, Balance
<1>3. Open(m) = Open(n) - 1
  BY <1>1 DEF NatTallies, Open
<1> QED BY <1>2, <1>3

LEMMA AcceptEvent ==
  ASSUME NatTallies(n), NEW len \in Nat, NEW m,
         m["enqueued"] = n["enqueued"] + 1, SameBut(m, {"received", "enqueued", "dropped"}),
         Balance(n, len)
  PROVE  Balance(m, len + 1)
BY DEF NatTallies, SameBut, Balance

(* A step that leaves queue, executor and tallies alone.                   *)
Quiet ==
  /\ UNCHANGED <<queue, execPc, held, lastHandled>>
  /\ n' \in [Counters -> Nat]
  /\ \A k \in Tallies : n'[k] = n[k]

LEMMA QuietInv == TelemetryInv /\ Quiet => TelemetryInv'
BY TallyIsCounter
   DEF TelemetryInv, Shapes, Numbered, EventsAccountedFor, PlansAccountedFor, InOrder, Quiet, Tallies

LEMMA QuietCount ==
  ASSUME n \in [Counters -> Nat], NEW k \in Counters \ Tallies, n' = Count(k)
  PROVE  n' \in [Counters -> Nat] /\ \A j \in Tallies : n'[j] = n[j]
BY TallyIsCounter DEF Count

(* Telemetry m in which the event in hand, if any, is settled, and the     *)
(* plan is over unless it is abandoned.                                    *)
Settled(m) ==
  /\ m \in [Counters -> Nat]
  /\ \A k \in {"received", "enqueued", "dropped", "discarded"} : m[k] = n[k]
  /\ Balance(m, Len(queue))
  /\ Open(m) \in {0, 1}
  /\ lastHandled' \in Nat /\ lastHandled' <= n["received"]
  /\ \A i \in DOMAIN queue : lastHandled' < queue[i].id

LEMMA ExitInv ==
  ASSUME TelemetryInv, NEW m, Settled(m), ExecutorExits(m)
  PROVE  TelemetryInv'
<1>1. /\ n' = [m EXCEPT !["discarded"] = @ + Len(queue)]
      /\ execPc' = "done" /\ queue' = <<>>
  BY DEF ExecutorExits, Discarded
<1>2. Len(queue) \in Nat
  BY DEF TelemetryInv, Shapes
<1>3. /\ n' \in [Counters -> Nat]
      /\ n'["discarded"] = m["discarded"] + Len(queue)
      /\ \A k \in Tallies \ {"discarded"} : n'[k] = m[k]
  BY <1>1, <1>2, TallyIsCounter DEF Settled, Tallies
<1>4. Shapes'
  BY <1>1, <1>3 DEF Shapes, Settled
<1>5. Numbered' /\ InOrder'
  BY <1>1, <1>3 DEF Numbered, InOrder, Settled, Tallies
<1>6. /\ NatTallies(m)
      /\ n'["received"] = m["received"] /\ n'["enqueued"] = m["enqueued"]
      /\ n'["dropped"] = m["dropped"] /\ n'["resolved"] = m["resolved"]
      /\ n'["unmapped"] = m["unmapped"] /\ n'["executed"] = m["executed"]
      /\ n'["succeeded"] = m["succeeded"] /\ n'["failed"] = m["failed"]
  BY <1>3, TalliesAreNat DEF Settled, Tallies
<1>7. EventsAccountedFor'
  BY <1>1, <1>2, <1>3, <1>6, DaemonAssumption
     DEF EventsAccountedFor, Settled, Balance, NatTallies, TelemetryInv
<1>8. PlansAccountedFor'
  BY <1>1, <1>6 DEF PlansAccountedFor, Settled, Open
<1> QED BY <1>4, <1>5, <1>7, <1>8 DEF TelemetryInv

LEMMA NextEventInv ==
  ASSUME TelemetryInv, NEW m, Settled(m), NextEvent(m), Open(m) = 0
  PROVE  TelemetryInv'
<1>1. CASE stop
  BY <1>1, ExitInv DEF NextEvent
<1>2. CASE ~stop
  <2>1. n' = m /\ queue' = queue /\ execPc' = "waiting"
    BY <1>2 DEF NextEvent
  <2>2. Shapes'
    BY <2>1 DEF Shapes, Settled, TelemetryInv
  <2>3. Numbered' /\ InOrder'
    BY <2>1 DEF Numbered, InOrder, Settled, TelemetryInv
  <2>4. EventsAccountedFor' /\ PlansAccountedFor'
    BY <2>1 DEF EventsAccountedFor, PlansAccountedFor, Settled, Balance, Open, TelemetryInv
  <2> QED BY <2>2, <2>3, <2>4 DEF TelemetryInv
<1> QED BY <1>1, <1>2

LEMMA MainTelemetry == TelemetryInv /\ Control /\ Main => TelemetryInv'
<1> SUFFICES ASSUME TelemetryInv, Control, Main PROVE TelemetryInv'
  OBVIOUS
<1>0. n \in [Counters -> Nat] /\ "sessions" \in Counters \ Tallies
  BY DEF TelemetryInv, Shapes, Counters, Tallies
<1>1. ASSUME NEW f \in Files, StartOK(f) PROVE TelemetryInv'
  <2>1. /\ UNCHANGED <<queue, held, lastHandled>>
        /\ execPc = "none" /\ execPc' = "waiting" /\ n' = Count("sessions")
    BY <1>1 DEF StartOK, OpenSession, Control
  <2>2. n' \in [Counters -> Nat] /\ \A j \in Tallies : n'[j] = n[j]
    BY <1>0, <2>1, QuietCount
  <2> QED BY <2>1, <2>2, TallyIsCounter
          DEF TelemetryInv, Shapes, Numbered, EventsAccountedFor, PlansAccountedFor, InOrder, Tallies
<1>2. ASSUME NEW f \in Files, StartBadConfig(f) PROVE Quiet
  BY <1>0, <1>2 DEF StartBadConfig, Quiet, execVars
<1>3. CASE BackoffElapsed
  <2>1. n' = Count("sessions") /\ UNCHANGED <<queue, execPc, held, lastHandled>>
    BY <1>3 DEF BackoffElapsed, OpenSession, execVars
  <2> QED BY <1>0, <2>1, QuietCount, QuietInv DEF Quiet
<1>4. BackoffStopped \/ SessionOver \/ CloseSession \/ GraceExpires \/ Return => Quiet
  BY <1>0 DEF BackoffStopped, SessionOver, CloseSession, GraceExpires, Return, Quiet, execVars
<1> QED BY <1>1, <1>2, <1>3, <1>4, QuietInv DEF Main

LEMMA ConsumerTelemetry == TelemetryInv /\ Consumer => TelemetryInv'
<1> SUFFICES ASSUME TelemetryInv, Consumer PROVE TelemetryInv'
  OBVIOUS
<1>0. n \in [Counters -> Nat] /\ NatTallies(n)
  BY TalliesAreNat DEF TelemetryInv, Shapes
<1>n. NatTallies(n)
  BY <1>0
<1>1. ASSUME NEW k \in Controls, NEW isDown \in BOOLEAN, ReceiveEvent(k, isDown)
      PROVE  TelemetryInv'
  <2> DEFINE e == [id |-> n["received"] + 1, control |-> k, down |-> isDown]
  <2>1. e \in Event /\ e.id = n["received"] + 1
    BY <1>0 DEF Event, NatTallies
  <2> HIDE DEF e
  <2>2. /\ UNCHANGED <<execPc, held, lastHandled>>
        /\ queue' = IF Fits THEN Append(queue, e) ELSE queue
        /\ n' = [n EXCEPT !["received"]   = @ + 1,
                          !["successful"] = IF seen THEN @ ELSE @ + 1,
                          !["enqueued"]   = IF Fits THEN @ + 1 ELSE @,
                          !["dropped"]    = IF Fits THEN @ ELSE @ + 1]
    BY <1>1 DEF ReceiveEvent, execVars, Enqueue, e
  <2>3. /\ n' \in [Counters -> Nat]
        /\ n'["received"] = n["received"] + 1
        /\ n'["enqueued"] = IF Fits THEN n["enqueued"] + 1 ELSE n["enqueued"]
        /\ n'["dropped"] = IF Fits THEN n["dropped"] ELSE n["dropped"] + 1
        /\ SameBut(n', {"received", "enqueued", "dropped"})
    <3> DEFINE r == [n EXCEPT !["received"] = @ + 1]
               z == [r EXCEPT !["successful"] = IF seen THEN @ ELSE @ + 1]
               q == [z EXCEPT !["enqueued"] = IF Fits THEN @ + 1 ELSE @]
               d == [q EXCEPT !["dropped"] = IF Fits THEN @ ELSE @ + 1]
    <3>1. /\ r \in [Counters -> Nat] /\ r["received"] = n["received"] + 1
          /\ \A j \in Counters \ {"received"} : r[j] = n[j]
      BY <1>0 DEF Counters
    <3>2. /\ z \in [Counters -> Nat]
          /\ \A j \in Counters \ {"successful"} : z[j] = r[j]
      BY <3>1 DEF Counters
    <3>3. /\ q \in [Counters -> Nat]
          /\ q["enqueued"] = IF Fits THEN z["enqueued"] + 1 ELSE z["enqueued"]
          /\ \A j \in Counters \ {"enqueued"} : q[j] = z[j]
      BY <3>2 DEF Counters
    <3>4. /\ d \in [Counters -> Nat]
          /\ d["dropped"] = IF Fits THEN q["dropped"] ELSE q["dropped"] + 1
          /\ \A j \in Counters \ {"dropped"} : d[j] = q[j]
      BY <3>3 DEF Counters
    <3>5. n' = d
      BY <2>2
    <3> HIDE DEF r, z, q, d
    <3> QED BY <3>1, <3>2, <3>3, <3>4, <3>5 DEF Counters, SameBut
  <2>4. /\ queue \in Seq(Event) /\ queue' \in Seq(Event)
        /\ Len(queue') = IF Fits THEN Len(queue) + 1 ELSE Len(queue)
        /\ \A i \in DOMAIN queue : i \in DOMAIN queue' /\ queue'[i] = queue[i]
        /\ \A i \in DOMAIN queue' \ DOMAIN queue : i = Len(queue) + 1 /\ queue'[i] = e
    BY <2>1, <2>2 DEF TelemetryInv, Shapes
  <2>5. Shapes'
    BY <2>2, <2>3, <2>4 DEF TelemetryInv, Shapes
  <2>6. /\ \A i \in DOMAIN queue : queue[i].id \in Nat /\ queue[i].id <= n["received"]
        /\ execPc = "holding" => held.id \in Nat /\ held.id <= n["received"]
        /\ lastHandled \in Nat /\ lastHandled <= n["received"]
        /\ Len(queue) \in Nat /\ DOMAIN queue = 1 .. Len(queue)
    <3>1. \A i \in DOMAIN queue : queue[i] \in Event
      BY <2>4
    <3>2. \A x \in Event : x.id \in Nat
      BY DEF Event
    <3>3. Len(queue) \in Nat /\ DOMAIN queue = 1 .. Len(queue)
      BY <2>4
    <3> QED BY <3>1, <3>2, <3>3 DEF TelemetryInv, Shapes, Numbered
  <2>7. Numbered'
    BY <1>0, <2>1, <2>2, <2>3, <2>4, <2>6 DEF Numbered, NatTallies
  <2>8. InOrder'
    <3>1. \A i \in DOMAIN queue' :
            \/ i \in DOMAIN queue /\ queue'[i] = queue[i]
            \/ i = Len(queue) + 1 /\ queue'[i].id = n["received"] + 1
      BY <2>1, <2>4
    <3>2. \A i, j \in DOMAIN queue' : i < j => queue'[i].id < queue'[j].id
      BY <1>0, <2>6, <3>1 DEF TelemetryInv, InOrder, NatTallies
    <3>3. \A i \in DOMAIN queue' : lastHandled < queue'[i].id
      BY <1>0, <2>6, <3>1 DEF TelemetryInv, InOrder, NatTallies
    <3>4. execPc = "holding" => \A i \in DOMAIN queue' : held.id < queue'[i].id
      BY <1>0, <2>6, <3>1 DEF TelemetryInv, InOrder, NatTallies
    <3> QED BY <2>2, <3>2, <3>3, <3>4 DEF TelemetryInv, InOrder
  <2>9. EventsAccountedFor'
    <3>1. /\ n'["received"] = n["received"] + 1
          /\ n'["enqueued"] = IF Fits THEN n["enqueued"] + 1 ELSE n["enqueued"]
          /\ n'["dropped"] = IF Fits THEN n["dropped"] ELSE n["dropped"] + 1
          /\ n'["resolved"] = n["resolved"] /\ n'["executed"] = n["executed"]
          /\ n'["succeeded"] = n["succeeded"] /\ n'["failed"] = n["failed"]
          /\ n'["discarded"] = n["discarded"]
      BY <2>3 DEF SameBut
    <3>2. /\ execPc' = execPc /\ Len(queue) \in Nat
          /\ Len(queue') = IF Fits THEN Len(queue) + 1 ELSE Len(queue)
      BY <2>2, <2>4, <2>6
    <3>3. n'["received"] = n'["enqueued"] + n'["dropped"]
      <4>1. n["received"] = n["enqueued"] + n["dropped"]
        BY DEF TelemetryInv, EventsAccountedFor
      <4>2. n["enqueued"] \in Nat /\ n["dropped"] \in Nat
        BY <1>n DEF NatTallies
      <4> QED BY <3>1, <4>1, <4>2
    <3>4. Len(queue') <= QueueCapacity
      BY <3>2, DaemonAssumption DEF TelemetryInv, EventsAccountedFor, Fits
    <3> DEFINE len == Len(queue) + (IF execPc = "holding" THEN 1 ELSE 0)
    <3>5. len \in Nat /\ Balance(n, len)
      BY <2>6, Accounts DEF TelemetryInv
    <3>6. Balance(n', IF Fits THEN len + 1 ELSE len)
      <4> HIDE DEF len
      <4>1. CASE Fits
        BY <1>n, <2>3, <3>1, <3>5, <4>1, AcceptEvent
      <4>2. CASE ~Fits
        BY <3>1, <3>5, <4>2 DEF Balance
      <4> QED BY <4>1, <4>2
    <3>7. Balance(n', Len(queue') + (IF execPc' = "holding" THEN 1 ELSE 0))
      <4>1. (IF Fits THEN len + 1 ELSE len) = Len(queue') + (IF execPc' = "holding" THEN 1 ELSE 0)
        <5> DEFINE one == IF execPc = "holding" THEN 1 ELSE 0
        <5>1. one \in Nat
          OBVIOUS
        <5> HIDE DEF one
        <5>2. (IF Fits THEN (Len(queue) + one) + 1 ELSE Len(queue) + one)
                = (IF Fits THEN Len(queue) + 1 ELSE Len(queue)) + one
          BY <2>6, <5>1
        <5> QED BY <3>2, <5>2 DEF one
      <4> HIDE DEF len
      <4> QED BY <3>6, <4>1
    <3> QED BY <3>3, <3>4, <3>7, AccountsNext
  <2>10. PlansAccountedFor'
    BY <2>2, <2>3 DEF TelemetryInv, PlansAccountedFor, SameBut
  <2> QED BY <2>5, <2>7, <2>8, <2>9, <2>10 DEF TelemetryInv
<1>2. (\E how \in {"recoverable", "fatal"} : SessionFails(how)) \/ StreamEnds \/ GeneratorFinalised
        => Quiet
  BY <1>0 DEF SessionFails, StreamEnds, GeneratorFinalised, Quiet, execVars
<1> QED BY <1>1, <1>2, QuietInv DEF Consumer

(* What becomes of an event: it cannot be resolved, is unmapped, has an    *)
(* empty plan, or starts a plan.                                           *)
LEMMA ResolveCases ==
  ASSUME ResolveEvent
  PROVE  LET done == Count("resolved")
         IN  \/ NextEvent(Count("failed"))
             \/ NextEvent([done EXCEPT !["unmapped"] = @ + 1])
             \/ NextEvent([done EXCEPT !["executed"] = @ + 1, !["succeeded"] = @ + 1])
             \/ execPc' = "running" /\ n' = done /\ UNCHANGED <<held, queue>>
<1> DEFINE res  == Resolution(config, ctx, held)
           done == Count("resolved")
<1> HIDE DEF done
<1>1. CASE res.kind = "error"
  BY <1>1 DEF ResolveEvent, done
<1>2. CASE res.kind = "unmapped"
  BY <1>2 DEF ResolveEvent, done
<1>3. CASE res.kind = "plan" /\ res.steps = <<>>
  BY <1>3 DEF ResolveEvent, done
<1>4. CASE res.kind # "error" /\ res.kind # "unmapped" /\ ~(res.kind = "plan" /\ res.steps = <<>>)
  BY <1>4 DEF ResolveEvent, done
<1> QED BY <1>1, <1>2, <1>3, <1>4 DEF done

LEMMA ResolveTelemetry == TelemetryInv /\ ResolveEvent => TelemetryInv'
<1> SUFFICES ASSUME TelemetryInv, ResolveEvent PROVE TelemetryInv'
  OBVIOUS
<1>0. /\ n \in [Counters -> Nat] /\ NatTallies(n)
      /\ queue \in Seq(Event) /\ Len(queue) \in Nat
  BY TalliesAreNat DEF TelemetryInv, Shapes
<1>n. NatTallies(n) /\ Len(queue) \in Nat
  BY <1>0
<1>1. /\ execPc = "holding" /\ held \in Event /\ lastHandled' = held.id
      /\ lastHandled' \in Nat /\ lastHandled' <= n["received"]
      /\ \A i \in DOMAIN queue : lastHandled' < queue[i].id
  BY DEF ResolveEvent, TelemetryInv, Shapes, Numbered, InOrder, Event
<1>2. Balance(n, Len(queue) + 1) /\ Open(n) = 0
  BY <1>1, Accounts DEF TelemetryInv
<1> DEFINE done == Count("resolved")
<1>a. /\ done \in [Counters -> Nat] /\ done["resolved"] = n["resolved"] + 1
      /\ SameBut(done, {"resolved"})
  BY <1>0, Bump DEF Count, Counters, SameBut
<1>3. CASE NextEvent(Count("failed"))
  <2> DEFINE m == Count("failed")
  <2>1. m \in [Counters -> Nat] /\ m["failed"] = n["failed"] + 1 /\ SameBut(m, {"failed"})
    BY <1>0, Bump DEF Count, Counters, SameBut
  <2> HIDE DEF m
  <2>2. m["failed"] = n["failed"] + 1 /\ SameBut(m, {"failed"})
    BY <2>1
  <2>3. Balance(m, Len(queue)) /\ Open(m) = 0
    BY <1>n, <1>2, <2>2, ResolveFailed
  <2>4. Settled(m)
    BY <1>1, <2>1, <2>3 DEF Settled, SameBut
  <2> QED BY <1>3, <2>3, <2>4, NextEventInv DEF m
<1>4. CASE NextEvent([done EXCEPT !["unmapped"] = @ + 1])
  <2> DEFINE m == [done EXCEPT !["unmapped"] = @ + 1]
  <2> HIDE DEF done
  <2>1. /\ m \in [Counters -> Nat]
        /\ m["unmapped"] = n["unmapped"] + 1 /\ m["resolved"] = n["resolved"] + 1
        /\ SameBut(m, {"resolved", "unmapped"})
    BY <1>a, Bump DEF Counters, SameBut
  <2> HIDE DEF m
  <2>2. /\ m["unmapped"] = n["unmapped"] + 1 /\ m["resolved"] = n["resolved"] + 1
        /\ SameBut(m, {"resolved", "unmapped"})
    BY <2>1
  <2>3. Balance(m, Len(queue)) /\ Open(m) = 0
    BY <1>n, <1>2, <2>2, ResolveUnmapped
  <2>4. Settled(m)
    BY <1>1, <2>1, <2>3 DEF Settled, SameBut
  <2> QED BY <1>4, <2>3, <2>4, NextEventInv DEF m
<1>5. CASE NextEvent([done EXCEPT !["executed"] = @ + 1, !["succeeded"] = @ + 1])
  <2> DEFINE x == [done EXCEPT !["executed"] = @ + 1]
             m == [x EXCEPT !["succeeded"] = @ + 1]
  <2> HIDE DEF done
  <2>1. /\ x \in [Counters -> Nat]
        /\ x["executed"] = n["executed"] + 1 /\ x["resolved"] = n["resolved"] + 1
        /\ SameBut(x, {"resolved", "executed"})
    BY <1>a, Bump DEF Counters, SameBut
  <2> HIDE DEF x
  <2>2. /\ m \in [Counters -> Nat]
        /\ m["executed"] = n["executed"] + 1 /\ m["resolved"] = n["resolved"] + 1
        /\ m["succeeded"] = n["succeeded"] + 1
        /\ SameBut(m, {"resolved", "executed", "succeeded"})
    BY <2>1, Bump DEF Counters, SameBut
  <2>3. NextEvent(m)
    BY <1>5 DEF x
  <2> HIDE DEF m
  <2>4. /\ m["executed"] = n["executed"] + 1 /\ m["resolved"] = n["resolved"] + 1
        /\ m["succeeded"] = n["succeeded"] + 1
        /\ SameBut(m, {"resolved", "executed", "succeeded"})
    BY <2>2
  <2>5. Balance(m, Len(queue)) /\ Open(m) = 0
    BY <1>n, <1>2, <2>4, ResolveEmpty
  <2>6. Settled(m)
    BY <1>1, <2>2, <2>5 DEF Settled, SameBut
  <2> QED BY <2>3, <2>5, <2>6, NextEventInv
<1>6. CASE execPc' = "running" /\ n' = done /\ UNCHANGED <<held, queue>>
  <2> HIDE DEF done
  <2>1. Shapes' /\ Numbered' /\ InOrder'
    BY <1>1, <1>6, <1>a DEF TelemetryInv, Shapes, Numbered, InOrder, SameBut
  <2>2. n'["resolved"] = n["resolved"] + 1 /\ SameBut(n', {"resolved"})
    BY <1>6, <1>a DEF SameBut
  <2>3. EventsAccountedFor' /\ PlansAccountedFor'
    <3>1. execPc' = "running" /\ queue' = queue
      BY <1>6
    <3>2. Balance(n', Len(queue)) /\ Open(n') = 1
      BY <1>n, <1>2, <2>2, ResolvePlan
    <3>3. n'["received"] = n'["enqueued"] + n'["dropped"] /\ Len(queue) <= QueueCapacity
      BY <2>2 DEF SameBut, TelemetryInv, EventsAccountedFor
    <3> QED BY <1>n, <3>1, <3>2, <3>3, AccountsNext
  <2> QED BY <2>1, <2>3 DEF TelemetryInv
<1>7. \/ NextEvent(Count("failed"))
      \/ NextEvent([done EXCEPT !["unmapped"] = @ + 1])
      \/ NextEvent([done EXCEPT !["executed"] = @ + 1, !["succeeded"] = @ + 1])
      \/ execPc' = "running" /\ n' = done /\ UNCHANGED <<held, queue>>
  BY ResolveCases
<1> QED BY <1>3, <1>4, <1>5, <1>6, <1>7

LEMMA ExecutorTelemetry == TelemetryInv /\ Executor => TelemetryInv'
<1> SUFFICES ASSUME TelemetryInv, Executor PROVE TelemetryInv'
  OBVIOUS
<1>0. /\ n \in [Counters -> Nat] /\ NatTallies(n)
      /\ queue \in Seq(Event) /\ Len(queue) \in Nat /\ lastHandled \in Nat
  BY TalliesAreNat DEF TelemetryInv, Shapes
<1>n. NatTallies(n) /\ Len(queue) \in Nat
  BY <1>0
<1>1. CASE TakeEvent
  <2>1. /\ execPc = "waiting" /\ execPc' = "holding" /\ queue # <<>>
        /\ held' = Head(queue) /\ queue' = Tail(queue) /\ UNCHANGED <<n, lastHandled>>
    BY <1>1 DEF TakeEvent
  <2>2. /\ held' = queue[1] /\ 1 \in DOMAIN queue /\ held' \in Event
        /\ queue' \in Seq(Event) /\ Len(queue') = Len(queue) - 1
        /\ \A i \in DOMAIN queue' : i + 1 \in DOMAIN queue /\ queue'[i] = queue[i + 1] /\ 1 < i + 1
        /\ DOMAIN queue' \subseteq Nat
    BY <1>0, <2>1
  <2>3. Shapes'
    BY <1>0, <2>1, <2>2 DEF Shapes
  <2>4. Numbered'
    BY <2>1, <2>2 DEF TelemetryInv, Numbered
  <2>5. InOrder'
    BY <2>1, <2>2 DEF TelemetryInv, InOrder
  <2>6. EventsAccountedFor'
    BY <1>0, <2>1, <2>2, DaemonAssumption DEF TelemetryInv, EventsAccountedFor, NatTallies
  <2>7. PlansAccountedFor'
    BY <2>1 DEF TelemetryInv, PlansAccountedFor
  <2> QED BY <2>3, <2>4, <2>5, <2>6, <2>7 DEF TelemetryInv
<1>2. ASSUME ExecutorExits(n), UNCHANGED lastHandled, execPc \in {"waiting", "running"}
      PROVE  TelemetryInv'
  <2>1. Settled(n)
    BY <1>0, <1>2, Accounts DEF Settled, TelemetryInv, Numbered, InOrder
  <2> QED BY <1>2, <2>1, ExitInv
<1>3. ASSUME execPc = "running", NEW outcome \in {"succeeded", "failed"},
             NextEvent(Executed(outcome)), UNCHANGED lastHandled
      PROVE  TelemetryInv'
  <2> DEFINE m == Executed(outcome)
  <2>1. /\ m \in [Counters -> Nat]
        /\ m["executed"] = n["executed"] + 1
        /\ m["succeeded"] + m["failed"] = n["succeeded"] + n["failed"] + 1
        /\ SameBut(m, {"executed", "succeeded", "failed"})
    <3> DEFINE x == [n EXCEPT !["executed"] = @ + 1]
               y == [x EXCEPT ![outcome] = @ + 1]
    <3>1. /\ x \in [Counters -> Nat] /\ x["executed"] = n["executed"] + 1
          /\ x["succeeded"] = n["succeeded"] /\ x["failed"] = n["failed"]
          /\ SameBut(x, {"executed"})
      BY <1>0, Bump DEF Counters, SameBut
    <3> HIDE DEF x
    <3>2. /\ y \in [Counters -> Nat] /\ y["executed"] = n["executed"] + 1
          /\ y[outcome] = x[outcome] + 1
          /\ outcome # "succeeded" => y["succeeded"] = x["succeeded"]
          /\ outcome # "failed" => y["failed"] = x["failed"]
          /\ SameBut(y, {"executed", "succeeded", "failed"})
      BY <3>1, Bump DEF Counters, SameBut
    <3>3. m = y
      BY DEF Executed, x
    <3> HIDE DEF y, m
    <3>4. /\ y["succeeded"] = n["succeeded"] + (IF outcome = "succeeded" THEN 1 ELSE 0)
          /\ y["failed"] = n["failed"] + (IF outcome = "failed" THEN 1 ELSE 0)
      <4>1. /\ x["succeeded"] = n["succeeded"] /\ x["failed"] = n["failed"]
            /\ y[outcome] = x[outcome] + 1
            /\ outcome # "succeeded" => y["succeeded"] = x["succeeded"]
            /\ outcome # "failed" => y["failed"] = x["failed"]
        BY <3>1, <3>2
      <4> QED BY <1>n, <4>1 DEF NatTallies
    <3>5. y["succeeded"] + y["failed"] = n["succeeded"] + n["failed"] + 1
      BY <1>n, <3>4 DEF NatTallies
    <3> QED BY <3>2, <3>3, <3>5
  <2> HIDE DEF m
  <2>3. Balance(n, Len(queue)) /\ Open(n) = 1
    BY <1>n, <1>3, Accounts DEF TelemetryInv
  <2>4. Balance(m, Len(queue)) /\ Open(m) = 0
    BY <1>n, <2>1, <2>3, TalliesAreNat, ExecutePlan
  <2>5. Settled(m)
    <3>1. /\ lastHandled' \in Nat /\ lastHandled' <= n["received"]
          /\ \A i \in DOMAIN queue : lastHandled' < queue[i].id
      BY <1>0, <1>3 DEF TelemetryInv, Numbered, InOrder
    <3> QED BY <2>1, <2>4, <3>1 DEF Settled, SameBut
  <2> QED BY <1>3, <2>4, <2>5, NextEventInv DEF m
<1>4. CASE StepSucceeds
  <2>1. execPc = "running" /\ UNCHANGED lastHandled
    BY <1>4 DEF StepSucceeds, StepEnds
  <2>2. CASE NextEvent(Executed("succeeded"))
    BY <1>3, <2>1, <2>2
  <2>3. CASE UNCHANGED <<execPc, held, queue, n>>
    BY <1>0, <2>1, <2>3, QuietInv DEF Quiet
  <2> QED BY <1>4, <2>2, <2>3 DEF StepSucceeds
<1>5. CASE StepFails
  BY <1>3, <1>5 DEF StepFails, StepEnds
<1>6. CASE DequeueTimesOut \/ ExecutorCancelled
  BY <1>2, <1>6 DEF DequeueTimesOut, ExecutorCancelled
<1>7. CASE ResolveEvent
  BY <1>7, ResolveTelemetry
<1> QED BY <1>1, <1>4, <1>5, <1>6, <1>7 DEF Executor

LEMMA ReloaderTelemetry == TelemetryInv /\ Reloader => TelemetryInv'
<1> SUFFICES ASSUME TelemetryInv, Reloader PROVE TelemetryInv'
  OBVIOUS
<1>0. n \in [Counters -> Nat] /\ {"reloads", "reloadFailures"} \subseteq Counters \ Tallies
  BY DEF TelemetryInv, Shapes, Counters, Tallies
<1>1. UNCHANGED <<queue, execPc, held, lastHandled>>
  BY DEF Reloader, TakeRequest, ReloadOK, ReloadBad, ReloaderStops, ReloaderCancelled,
         KeepOthers, execVars
<1>2. n' = n \/ n' = Count("reloads") \/ n' = Count("reloadFailures")
  BY DEF Reloader, TakeRequest, ReloadOK, ReloadBad, ReloaderStops, ReloaderCancelled
<1>3. n' \in [Counters -> Nat] /\ \A j \in Tallies : n'[j] = n[j]
  BY <1>0, <1>2, QuietCount
<1> QED BY <1>1, <1>3, QuietInv DEF Quiet

LEMMA OutsideTelemetry == TelemetryInv /\ Outside => TelemetryInv'
<1> SUFFICES ASSUME TelemetryInv, Outside PROVE TelemetryInv'
  OBVIOUS
<1>1. n \in [Counters -> Nat]
  BY DEF TelemetryInv, Shapes
<1>2. UNCHANGED <<queue, execPc, held, lastHandled, n>>
  BY DEF Outside, RequestStop, RequestReload, ClientSetLayer, ClientNextLayer,
         ClientPreviousLayer, ClientSetProfile, ClientChange, execVars
<1> QED BY <1>1, <1>2, QuietInv DEF Quiet

LEMMA TelemetryHolds == Spec => []TelemetryInv
<1>1. TelemetryInv /\ Control /\ [Next]_vars => TelemetryInv'
  <2>1. TelemetryInv /\ UNCHANGED vars => TelemetryInv'
    <3> SUFFICES ASSUME TelemetryInv, UNCHANGED vars PROVE TelemetryInv'
      OBVIOUS
    <3>1. Quiet
      BY DEF vars, execVars, Quiet, TelemetryInv, Shapes
    <3> QED BY <3>1, QuietInv
  <2> QED BY <2>1, MainTelemetry, ConsumerTelemetry, ExecutorTelemetry, ReloaderTelemetry,
             OutsideTelemetry DEF Next, Terminated
<1> QED BY <1>1, TelemetryInit, ControlHolds, PTL DEF Spec

(* Counters, queue and executor keep their shapes.                         *)
THEOREM TypeCorrect == Spec => []Shapes
BY TelemetryHolds, PTL DEF TelemetryInv

(* Each event that the device sends is refused, queued, in hand, resolved, *)
(* failed or discarded, and is counted once (consume_events and            *)
(* _executor_loop in daemon/runtime.py).                                   *)
THEOREM EventsAlwaysAccountedFor == Spec => []EventsAccountedFor
BY TelemetryHolds, PTL DEF TelemetryInv

(* A plan is executed once, and at most one is open (_executor_loop).      *)
THEOREM PlansAlwaysAccountedFor == Spec => []PlansAccountedFor
BY TelemetryHolds, PTL DEF TelemetryInv

(* Events are handled in the order they were received, none twice, whether *)
(* the queue overflows or not (daemon/queue.py, _executor_loop).           *)
THEOREM AlwaysInOrder == Spec => []InOrder
BY TelemetryHolds, PTL DEF TelemetryInv

-----------------------------------------------------------------------------
(* Reload requests. Each one that waits is queued once or in hand.         *)
Answers == {"none", "pending", "ok", "failed", "stopping"}

ReloadInv ==
  /\ answer \in [Requests -> Answers]
  /\ reloadQueue \in Seq(Requests)
  /\ \A i \in DOMAIN reloadQueue : answer[reloadQueue[i]] = "pending"
  /\ \A i, j \in DOMAIN reloadQueue : reloadQueue[i] = reloadQueue[j] => i = j
  /\ reloadPc = "holding" =>
       /\ taken \in Requests
       /\ answer[taken] = "pending"
       /\ \A i \in DOMAIN reloadQueue : reloadQueue[i] # taken

(* What a step may do to the answers: ReloadAnswersAreTrue, of one step.   *)
AnswersTrue ==
  config # NoConfig =>
    LET done == {r \in Requests : answer'[r] = "ok" /\ answer[r] # "ok"}
    IN  /\ ConfigRevision' = ConfigRevision + Cardinality(done)
        /\ done = {} => config' = config
        /\ \A r \in Requests :
             answer[r] \notin {"none", "pending"} => answer'[r] = answer[r]

KeepsGiven ==
  \A r \in Requests : answer[r] \notin {"none", "pending"} => answer'[r] = answer[r]

LEMMA NoneDone ==
  ASSUME n["reloads"] \in Nat, n'["reloads"] = n["reloads"], config' = config, KeepsGiven,
         \A r \in Requests : answer'[r] = "ok" => answer[r] = "ok"
  PROVE  AnswersTrue
<1> DEFINE done == {r \in Requests : answer'[r] = "ok" /\ answer[r] # "ok"}
<1>1. done = {}
  OBVIOUS
<1>2. Cardinality(done) = 0
  BY <1>1, FS_EmptySet
<1>3. ConfigRevision' = ConfigRevision + Cardinality(done)
  BY <1>2 DEF ConfigRevision
<1> QED BY <1>3 DEF AnswersTrue, KeepsGiven

LEMMA OneDone ==
  ASSUME n["reloads"] \in Nat, n'["reloads"] = n["reloads"] + 1, KeepsGiven,
         NEW r \in Requests, answer[r] = "pending", answer'[r] = "ok",
         \A q \in Requests \ {r} : answer'[q] = "ok" => answer[q] = "ok"
  PROVE  AnswersTrue
<1> DEFINE done == {q \in Requests : answer'[q] = "ok" /\ answer[q] # "ok"}
<1>1. done = {r}
  OBVIOUS
<1>2. Cardinality(done) = 1
  BY <1>1, FS_Singleton
<1>3. ConfigRevision' = ConfigRevision + Cardinality(done)
  BY <1>2 DEF ConfigRevision
<1>4. done # {}
  BY <1>1
<1> QED BY <1>3, <1>4 DEF AnswersTrue, KeepsGiven

(* A step that leaves the requests alone.                                  *)
NoReload == UNCHANGED <<config, reloadVars>> /\ n'["reloads"] = n["reloads"]

LEMMA NoReloadStep ==
  ASSUME ReloadInv, n["reloads"] \in Nat, NoReload
  PROVE  ReloadInv' /\ AnswersTrue
<1>1. ReloadInv'
  BY DEF ReloadInv, NoReload, reloadVars
<1>2. config' = config /\ answer' = answer /\ n'["reloads"] = n["reloads"]
  BY DEF NoReload, reloadVars
<1>3. AnswersTrue
  BY <1>2, NoneDone DEF KeepsGiven
<1> QED BY <1>1, <1>3

(* The end of the reload loop answers what is still queued.                *)
LEMMA ExitAnswers ==
  ASSUME ReloadInv, NEW ans \in [Requests -> Answers], ReloaderExits(ans)
  PROVE  /\ ReloadInv'
         /\ \A r \in Requests :
              \/ answer'[r] = ans[r]
              \/ /\ \E i \in DOMAIN reloadQueue : reloadQueue[i] = r
                 /\ answer'[r] = "stopping"
<1>1. /\ reloadPc' = "done" /\ reloadQueue' = <<>>
      /\ answer' = [r \in Requests |->
           IF \E i \in DOMAIN reloadQueue : reloadQueue[i] = r THEN "stopping" ELSE ans[r]]
  BY DEF ReloaderExits, Answered
<1>2. answer' \in [Requests -> Answers]
  BY <1>1 DEF Answers
<1>3. reloadQueue' \in Seq(Requests) /\ DOMAIN reloadQueue' = {}
  BY <1>1
<1>4. ReloadInv'
  BY <1>1, <1>2, <1>3 DEF ReloadInv
<1> QED BY <1>1, <1>4

(* The request in hand is answered, and the loop goes on or is left.       *)
LEMMA AnswerGiven ==
  ASSUME ReloadInv, reloadPc = "holding", NEW a \in {"ok", "failed"}, NextRequest(Answer(a))
  PROVE  /\ ReloadInv'
         /\ taken \in Requests /\ answer[taken] = "pending" /\ answer'[taken] = a
         /\ \A r \in Requests \ {taken} :
              answer'[r] = answer[r] \/ (answer[r] = "pending" /\ answer'[r] = "stopping")
<1> DEFINE ans == [answer EXCEPT ![taken] = a]
<1>1. /\ taken \in Requests /\ answer[taken] = "pending"
      /\ \A i \in DOMAIN reloadQueue : reloadQueue[i] # taken
  BY DEF ReloadInv
<1>2. /\ ans \in [Requests -> Answers] /\ ans[taken] = a
      /\ \A r \in Requests \ {taken} : ans[r] = answer[r]
  BY <1>1 DEF ReloadInv, Answers
<1>3. NextRequest(ans)
  BY DEF Answer
<1> HIDE DEF ans
<1>4. CASE stop
  <2>1. ReloaderExits(ans)
    BY <1>3, <1>4 DEF NextRequest
  <2>2. /\ ReloadInv'
        /\ \A r \in Requests :
             \/ answer'[r] = ans[r]
             \/ /\ \E i \in DOMAIN reloadQueue : reloadQueue[i] = r
                /\ answer'[r] = "stopping"
    BY <1>2, <2>1, ExitAnswers
  <2>3. \A i \in DOMAIN reloadQueue : answer[reloadQueue[i]] = "pending"
    BY DEF ReloadInv
  <2>4. ans[taken] = a /\ \A r \in Requests \ {taken} : ans[r] = answer[r]
    BY <1>2
  <2>5. answer'[taken] = a
    BY <1>1, <2>2, <2>4
  <2>6. \A r \in Requests \ {taken} :
          answer'[r] = answer[r] \/ (answer[r] = "pending" /\ answer'[r] = "stopping")
    BY <2>2, <2>3, <2>4
  <2> QED BY <1>1, <2>2, <2>5, <2>6
<1>5. CASE ~stop
  <2>1. reloadPc' = "waiting" /\ answer' = ans /\ reloadQueue' = reloadQueue
    BY <1>3, <1>5 DEF NextRequest
  <2>2. reloadQueue \in Seq(Requests) /\ \A i \in DOMAIN reloadQueue : reloadQueue[i] \in Requests
    BY DEF ReloadInv
  <2>3. ReloadInv'
    BY <1>1, <1>2, <2>1, <2>2 DEF ReloadInv
  <2>4. /\ answer'[taken] = a
        /\ \A r \in Requests \ {taken} : answer'[r] = answer[r]
    BY <1>2, <2>1
  <2> QED BY <1>1, <2>3, <2>4
<1> QED BY <1>4, <1>5

LEMMA ReloaderAnswers ==
  ASSUME ReloadInv, TelemetryInv, Reloader
  PROVE  ReloadInv' /\ AnswersTrue
<1>0. n \in [Counters -> Nat] /\ n["reloads"] \in Nat
  BY DEF TelemetryInv, Shapes, Counters
<1>1. CASE TakeRequest
  <2>1. /\ reloadQueue # <<>> /\ taken' = Head(reloadQueue) /\ reloadQueue' = Tail(reloadQueue)
        /\ reloadPc' = "holding" /\ UNCHANGED <<answer, config, n>>
    BY <1>1 DEF TakeRequest, ctxVars
  <2>2. reloadQueue \in Seq(Requests)
    BY DEF ReloadInv
  <2>3. /\ taken' = reloadQueue[1] /\ 1 \in DOMAIN reloadQueue /\ taken' \in Requests
        /\ reloadQueue' \in Seq(Requests)
        /\ \A i \in DOMAIN reloadQueue' :
             i \in Nat /\ i + 1 \in DOMAIN reloadQueue /\ reloadQueue'[i] = reloadQueue[i + 1] /\ i + 1 # 1
    BY <2>1, <2>2
  <2>4. ReloadInv'
    <3>1. \A i, j \in DOMAIN reloadQueue' : reloadQueue'[i] = reloadQueue'[j] => i = j
      <4> SUFFICES ASSUME NEW i \in DOMAIN reloadQueue', NEW j \in DOMAIN reloadQueue',
                          reloadQueue'[i] = reloadQueue'[j]
                   PROVE  i = j
        OBVIOUS
      <4>1. i + 1 = j + 1
        BY <2>3 DEF ReloadInv
      <4> QED BY <2>3, <4>1
    <3>2. \A i \in DOMAIN reloadQueue' : reloadQueue'[i] # taken' /\ answer[reloadQueue'[i]] = "pending"
      BY <2>3 DEF ReloadInv
    <3>3. answer[taken'] = "pending"
      BY <2>3 DEF ReloadInv
    <3> QED BY <2>1, <2>3, <3>1, <3>2, <3>3 DEF ReloadInv
  <2>5. AnswersTrue
    BY <1>0, <2>1, NoneDone DEF KeepsGiven
  <2> QED BY <2>4, <2>5
<1>2. ASSUME NEW f \in Files, ReloadOK(f) PROVE ReloadInv' /\ AnswersTrue
  <2>1. reloadPc = "holding" /\ NextRequest(Answer("ok")) /\ n' = Count("reloads")
    BY <1>2 DEF ReloadOK
  <2>2. /\ ReloadInv'
        /\ taken \in Requests /\ answer[taken] = "pending" /\ answer'[taken] = "ok"
        /\ \A r \in Requests \ {taken} :
             answer'[r] = answer[r] \/ (answer[r] = "pending" /\ answer'[r] = "stopping")
    BY <2>1, AnswerGiven
  <2>3. n'["reloads"] = n["reloads"] + 1
    BY <1>0, <2>1 DEF Count, Counters
  <2>4. KeepsGiven
    BY <2>2 DEF KeepsGiven
  <2>5. \A r \in Requests \ {taken} : answer'[r] = "ok" => answer[r] = "ok"
    BY <2>2
  <2> QED BY <1>0, <2>2, <2>3, <2>4, <2>5, OneDone
<1>3. ASSUME NEW f \in Files, ReloadBad(f) PROVE ReloadInv' /\ AnswersTrue
  <2>1. reloadPc = "holding" /\ NextRequest(Answer("failed")) /\ n' = Count("reloadFailures")
        /\ config' = config
    BY <1>3 DEF ReloadBad, ctxVars
  <2>2. /\ ReloadInv'
        /\ taken \in Requests /\ answer[taken] = "pending" /\ answer'[taken] = "failed"
        /\ \A r \in Requests \ {taken} :
             answer'[r] = answer[r] \/ (answer[r] = "pending" /\ answer'[r] = "stopping")
    BY <2>1, AnswerGiven
  <2>3. n'["reloads"] = n["reloads"]
    BY <1>0, <2>1 DEF Count, Counters
  <2>4. KeepsGiven
    BY <2>2 DEF KeepsGiven
  <2>5. \A r \in Requests : answer'[r] = "ok" => answer[r] = "ok"
    BY <2>2
  <2> QED BY <1>0, <2>1, <2>2, <2>3, <2>4, <2>5, NoneDone
<1>4. ASSUME ReloaderExits(answer), UNCHANGED <<config, n>>
      PROVE  ReloadInv' /\ AnswersTrue
  <2>1. answer \in [Requests -> Answers] /\ \A i \in DOMAIN reloadQueue : answer[reloadQueue[i]] = "pending"
    BY DEF ReloadInv
  <2>2. /\ ReloadInv'
        /\ \A r \in Requests :
             \/ answer'[r] = answer[r]
             \/ /\ \E i \in DOMAIN reloadQueue : reloadQueue[i] = r
                /\ answer'[r] = "stopping"
    BY <1>4, <2>1, ExitAnswers
  <2>3. KeepsGiven /\ \A r \in Requests : answer'[r] = "ok" => answer[r] = "ok"
    BY <2>1, <2>2 DEF KeepsGiven
  <2> QED BY <1>0, <1>4, <2>2, <2>3, NoneDone
<1>5. CASE ReloaderStops \/ ReloaderCancelled
  BY <1>4, <1>5 DEF ReloaderStops, ReloaderCancelled, ctxVars
<1> QED BY <1>1, <1>2, <1>3, <1>5 DEF Reloader

LEMMA RequestAnswers ==
  ASSUME ReloadInv, TelemetryInv, NEW r \in Requests, RequestReload(r)
  PROVE  ReloadInv' /\ AnswersTrue
<1>0. n["reloads"] \in Nat
  BY DEF TelemetryInv, Shapes, Counters
<1>1. answer[r] = "none" /\ UNCHANGED <<config, n, reloadPc, taken>>
  BY DEF RequestReload, ctxVars
<1>2. /\ answer' \in [Requests -> Answers] /\ answer'[r] \in {"pending", "stopping"}
      /\ \A q \in Requests \ {r} : answer'[q] = answer[q]
  BY DEF RequestReload, ReloadInv, Answers
<1>3. reloadQueue \in Seq(Requests) /\ \A i \in DOMAIN reloadQueue : reloadQueue[i] \in Requests \ {r}
  BY <1>1 DEF ReloadInv
<1>4. ReloadInv'
  <2>1. CASE reloadQueue' = reloadQueue
    BY <1>1, <1>2, <1>3, <2>1 DEF ReloadInv
  <2>2. CASE reloadQueue' = Append(reloadQueue, r) /\ answer'[r] = "pending"
    <3>1. /\ reloadQueue' \in Seq(Requests)
          /\ \A i \in DOMAIN reloadQueue' :
               \/ i \in DOMAIN reloadQueue /\ reloadQueue'[i] = reloadQueue[i]
               \/ i = Len(reloadQueue) + 1 /\ reloadQueue'[i] = r
      BY <1>3, <2>2
    <3>2. \A i, j \in DOMAIN reloadQueue' : reloadQueue'[i] = reloadQueue'[j] => i = j
      BY <1>3, <3>1 DEF ReloadInv
    <3>3. \A i \in DOMAIN reloadQueue' : answer'[reloadQueue'[i]] = "pending"
      BY <1>2, <1>3, <2>2, <3>1 DEF ReloadInv
    <3>4. reloadPc' = "holding" =>
            /\ taken' \in Requests /\ answer'[taken'] = "pending"
            /\ \A i \in DOMAIN reloadQueue' : reloadQueue'[i] # taken'
      BY <1>1, <1>2, <3>1 DEF ReloadInv
    <3> QED BY <1>2, <3>1, <3>2, <3>3, <3>4 DEF ReloadInv
  <2>3. \/ reloadQueue' = reloadQueue
        \/ reloadQueue' = Append(reloadQueue, r) /\ answer'[r] = "pending"
    BY DEF RequestReload, ReloadInv
  <2> QED BY <2>1, <2>2, <2>3
<1>5. KeepsGiven /\ \A q \in Requests : answer'[q] = "ok" => answer[q] = "ok"
  BY <1>1, <1>2 DEF KeepsGiven
<1> QED BY <1>0, <1>1, <1>4, <1>5, NoneDone

(* Before there is a configuration nothing is promised.                    *)
LEMMA MainAnswers ==
  ASSUME ReloadInv, TelemetryInv, Control, Main
  PROVE  ReloadInv' /\ AnswersTrue
<1>0. n \in [Counters -> Nat] /\ n["reloads"] \in Nat
  BY DEF TelemetryInv, Shapes, Counters
<1>1. ASSUME NEW f \in Files, StartOK(f) PROVE ReloadInv' /\ AnswersTrue
  <2>1. config = NoConfig /\ reloadPc' = "waiting" /\ UNCHANGED <<answer, reloadQueue>>
    BY <1>1 DEF StartOK, Control
  <2> QED BY <2>1 DEF ReloadInv, AnswersTrue
<1>2. ASSUME NEW f \in Files, StartBadConfig(f) PROVE NoReload
  BY <1>2 DEF StartBadConfig, NoReload, ctxVars
<1>3. CASE BackoffElapsed
  <2>1. n'["reloads"] = n["reloads"]
    BY <1>0, <1>3 DEF BackoffElapsed, OpenSession, Count, Counters
  <2> QED BY <1>0, <1>3, <2>1, NoReloadStep DEF BackoffElapsed, NoReload, ctxVars
<1>4. CASE SessionOver
  BY <1>0, <1>4, NoReloadStep DEF SessionOver, NoReload, ctxVars
<1>5. ASSUME UNCHANGED <<answer, reloadQueue, reloadPc, taken, config, n>>
      PROVE  ReloadInv' /\ AnswersTrue
  <2>1. ReloadInv'
    BY <1>5 DEF ReloadInv
  <2> QED BY <1>0, <1>5, <2>1, NoneDone DEF KeepsGiven
<1>6. CASE BackoffStopped \/ CloseSession \/ GraceExpires \/ Return
  BY <1>5, <1>6 DEF BackoffStopped, CloseSession, GraceExpires, Return, reloadVars, ctxVars
<1> QED BY <1>0, <1>1, <1>2, <1>3, <1>4, <1>6, NoReloadStep DEF Main

LEMMA OtherAnswers ==
  ASSUME ReloadInv, TelemetryInv, Consumer \/ Executor \/ RequestStop \/ (\E x : ClientChange(x))
  PROVE  ReloadInv' /\ AnswersTrue
<1>0. n \in [Counters -> Nat] /\ n["reloads"] \in Nat
  BY DEF TelemetryInv, Shapes, Counters
<1>1. Consumer => NoReload
  <2>1. (\E k \in Controls, isDown \in BOOLEAN : ReceiveEvent(k, isDown))
          => n'["reloads"] = n["reloads"]
    BY <1>0 DEF ReceiveEvent, Counters
  <2> QED BY <2>1 DEF Consumer, ReceiveEvent, SessionFails, StreamEnds, GeneratorFinalised,
                      NoReload, ctxVars
<1>2. ASSUME Executor PROVE NoReload
  <2>1. ASSUME NEW m, m["reloads"] = n["reloads"], m \in [Counters -> Nat],
               NextEvent(m) \/ ExecutorExits(m)
        PROVE  n'["reloads"] = n["reloads"]
    BY <2>1 DEF NextEvent, ExecutorExits, Discarded, Counters
  <2>2. ASSUME NEW m \in [Counters -> Nat], NEW k \in Tallies
        PROVE  /\ [m EXCEPT ![k] = @ + 1] \in [Counters -> Nat]
               /\ [m EXCEPT ![k] = @ + 1]["reloads"] = m["reloads"]
    BY <2>2, TallyIsCounter DEF Tallies, Counters
  <2>3. /\ Count("failed") \in [Counters -> Nat] /\ Count("failed")["reloads"] = n["reloads"]
        /\ Count("resolved") \in [Counters -> Nat] /\ Count("resolved")["reloads"] = n["reloads"]
    BY <1>0, <2>2 DEF Count, Tallies
  <2>4. n'["reloads"] = n["reloads"]
    <3>1. CASE TakeEvent
      BY <3>1 DEF TakeEvent
    <3>2. CASE DequeueTimesOut \/ ExecutorCancelled
      BY <1>0, <2>1, <3>2 DEF DequeueTimesOut, ExecutorCancelled
    <3>3. ASSUME NEW o \in {"succeeded", "failed"}, NextEvent(Executed(o))
          PROVE  n'["reloads"] = n["reloads"]
      <4>1. Executed(o) \in [Counters -> Nat] /\ Executed(o)["reloads"] = n["reloads"]
        <5> DEFINE x == [n EXCEPT !["executed"] = @ + 1]
        <5>1. x \in [Counters -> Nat] /\ x["reloads"] = n["reloads"]
          BY <1>0, <2>2 DEF Tallies
        <5> HIDE DEF x
        <5>2. /\ [x EXCEPT ![o] = @ + 1] \in [Counters -> Nat]
              /\ [x EXCEPT ![o] = @ + 1]["reloads"] = n["reloads"]
          BY <2>2, <5>1 DEF Tallies
        <5> QED BY <5>2 DEF Executed, x
      <4> QED BY <2>1, <3>3, <4>1
    <3>4. CASE StepSucceeds
      BY <3>3, <3>4 DEF StepSucceeds
    <3>5. CASE StepFails
      BY <3>3, <3>5 DEF StepFails
    <3>6. CASE ResolveEvent
      <4> DEFINE done == Count("resolved")
      <4>1. \/ NextEvent(Count("failed"))
            \/ NextEvent([done EXCEPT !["unmapped"] = @ + 1])
            \/ NextEvent([done EXCEPT !["executed"] = @ + 1, !["succeeded"] = @ + 1])
            \/ n' = done
        BY <3>6, ResolveCases
      <4> HIDE DEF done
      <4>2. done \in [Counters -> Nat] /\ done["reloads"] = n["reloads"]
        BY <2>3 DEF done
      <4>3. /\ [done EXCEPT !["unmapped"] = @ + 1] \in [Counters -> Nat]
            /\ [done EXCEPT !["unmapped"] = @ + 1]["reloads"] = n["reloads"]
        BY <2>2, <4>2 DEF Tallies
      <4>4. /\ [done EXCEPT !["executed"] = @ + 1, !["succeeded"] = @ + 1] \in [Counters -> Nat]
            /\ [done EXCEPT !["executed"] = @ + 1, !["succeeded"] = @ + 1]["reloads"] = n["reloads"]
        <5> DEFINE x == [done EXCEPT !["executed"] = @ + 1]
        <5>1. x \in [Counters -> Nat] /\ x["reloads"] = n["reloads"]
          BY <2>2, <4>2 DEF Tallies
        <5> HIDE DEF x
        <5>2. /\ [x EXCEPT !["succeeded"] = @ + 1] \in [Counters -> Nat]
              /\ [x EXCEPT !["succeeded"] = @ + 1]["reloads"] = n["reloads"]
          BY <2>2, <5>1 DEF Tallies
        <5> QED BY <5>2 DEF x
      <4> QED BY <2>1, <2>3, <4>1, <4>2, <4>3, <4>4
    <3> QED BY <1>2, <3>1, <3>2, <3>4, <3>5, <3>6 DEF Executor
  <2> QED BY <1>2, <2>4, ExecutorFrame DEF NoReload
<1>3. RequestStop \/ (\E x : ClientChange(x)) => NoReload
  BY DEF RequestStop, ClientChange, NoReload, ctxVars
<1> QED BY <1>0, <1>1, <1>2, <1>3, NoReloadStep

LEMMA AnswersStep ==
  ReloadInv /\ TelemetryInv /\ Control /\ [Next]_vars => ReloadInv' /\ [AnswersTrue]_vars
<1> SUFFICES ASSUME ReloadInv, TelemetryInv, Control, [Next]_vars
             PROVE  ReloadInv' /\ [AnswersTrue]_vars
  OBVIOUS
<1>1. CASE UNCHANGED vars
  BY <1>1 DEF vars, reloadVars, ReloadInv
<1>2. CASE Outside
  BY <1>2, OutsideCases, RequestAnswers, OtherAnswers
<1> QED BY <1>1, <1>2, MainAnswers, ReloaderAnswers, OtherAnswers DEF Next, Terminated

(* A reload is answered "ok" exactly when its file comes into force, and   *)
(* no answer is taken back, however requests, reloads, a stop and          *)
(* cancellations interleave (_reload_loop, request_reload_and_wait).       *)
THEOREM ReloadAnswersAlwaysTrue == Spec => ReloadAnswersAreTrue
<1>1. Init => ReloadInv
  BY DEF Init, ReloadInv, Answers
<1>2. Spec => [][AnswersTrue]_vars
  BY <1>1, AnswersStep, ControlHolds, TelemetryHolds, PTL DEF Spec
<1> QED BY <1>2, PTL DEF AnswersTrue, ReloadAnswersAreTrue
=============================================================================
