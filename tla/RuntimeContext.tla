--------------------------- MODULE RuntimeContext ---------------------------
(***************************************************************************)
(* The runtime context of the daemon: which profile is selected and which  *)
(* layer is active (daemon/context.py, RuntimeContextManager).             *)
(*                                                                         *)
(* Three kinds of task move it: the executor running a control action, the *)
(* management server serving yyr4ctl, and the reload loop. Each method     *)
(* runs under an asyncio.Lock that is never held across a suspension, so a *)
(* call is one step, and their order is arbitrary. This module says what   *)
(* all of them together may do; DaemonRuntime, where they are tasks, is    *)
(* shown to implement it.                                                  *)
(***************************************************************************)
EXTENDS ContextOps

CONSTANTS
  NoConfig,     (* the configuration and the context before run() has     *)
  NoContext,    (* loaded the file                                        *)
  MaxRevision   (* bound on the context changes of a checked behaviour    *)

ASSUME RuntimeContextAssumption ==
  /\ NoConfig \notin Files
  /\ NoContext \notin Context
  /\ MaxRevision \in Nat

VARIABLES
  config,   (* the configuration the manager validates against *)
  ctx       (* profile, layer, revision, source of last change *)

vars == <<config, ctx>>

(* The context exists exactly when the configuration it refers to does,    *)
(* and its layer is always one of the nine.                                *)
TypeOK ==
  /\ config \in Configs \cup {NoConfig}
  /\ ctx \in Context \cup {NoContext}
  /\ (config = NoConfig) <=> (ctx = NoContext)

Init ==
  /\ config = NoConfig
  /\ ctx = NoContext

(* run() loads the file and builds the manager.                            *)
Startup(c) ==
  /\ config = NoConfig
  /\ config' = c
  /\ ctx' = StartupContext(c)

Started == config # NoConfig

ChangeLayer(l, src) ==
  /\ Started
  /\ ctx' = SetLayer(ctx, l, src)
  /\ UNCHANGED config

ChangeToNext(src) ==
  /\ Started
  /\ ctx' = NextLayer(config, ctx, src)
  /\ UNCHANGED config

ChangeToPrevious(src) ==
  /\ Started
  /\ ctx' = PreviousLayer(config, ctx, src)
  /\ UNCHANGED config

ChangeProfile(p, src) ==
  /\ Started
  /\ p \in DOMAIN config.profiles
  /\ ctx' = SetProfile(config, ctx, p, src)
  /\ UNCHANGED config

(* A successful reload: resolver and context move in the same step.        *)
Reload(c) ==
  /\ Started
  /\ config' = c
  /\ ctx' = Reconcile(c, ctx)

Step ==
  \/ \E c \in Configs : Startup(c)
  \/ \E c \in Configs : Reload(c)
  \/ \E src \in {"control_action", "management_cli"} :
       \/ \E l \in Layers : ChangeLayer(l, src)
       \/ ChangeToNext(src)
       \/ ChangeToPrevious(src)
       \/ \E p \in Profiles : ChangeProfile(p, src)

(* The specification, without and with the bound that TLC needs.           *)
Spec == Init /\ [][Step]_vars

WithinBound == Started => ctx.revision < MaxRevision
Next        == WithinBound /\ Step
BoundedSpec == Init /\ [][Next]_vars

-----------------------------------------------------------------------------
(* The selected profile is always one the configuration in use declares,   *)
(* whatever reloads and profile switches happen in between: otherwise      *)
(* every key press would make LayeredActionResolver.resolve raise          *)
(* "Unknown profile".                                                      *)
SelectedProfileExists == Started => ctx.profile \in DOMAIN config.profiles

(* Pressing next and then previous (or the reverse) on a layer of the      *)
(* cycle comes back to it, for every context reachable.                    *)
CyclesAreInverse ==
  Started =>
    LET avail == Available(config, ctx.profile)
    IN  ctx.layer \in avail =>
          /\ LayerBefore(avail, LayerAfter(avail, ctx.layer)) = ctx.layer
          /\ LayerAfter(avail, LayerBefore(avail, ctx.layer)) = ctx.layer

(* Observers follow the context by its revision: it grows by one in each   *)
(* step that changes profile or layer, and in no other.                    *)
RevisionTracksChanges ==
  [][Started =>
       LET moved == <<ctx'.profile, ctx'.layer>> # <<ctx.profile, ctx.layer>>
       IN  ctx'.revision = ctx.revision + (IF moved THEN 1 ELSE 0)]_vars

(* A reload takes from the user only what the new file no longer has: a    *)
(* profile still declared stays selected, with its layer when that is      *)
(* declared too; and the layer afterwards is one the new file names.       *)
ReloadKeepsValidSelection ==
  [][(Started /\ config' # config) =>
       /\ ctx.profile \in DOMAIN config'.profiles => ctx'.profile = ctx.profile
       /\ (/\ ctx.profile \in DOMAIN config'.profiles
           /\ ctx.layer \in DOMAIN config'.profiles[ctx.profile])
            => ctx'.layer = ctx.layer
       /\ ctx'.layer \in DOMAIN config'.profiles[ctx'.profile]
                           \cup {config'.initial}]_vars
=============================================================================
