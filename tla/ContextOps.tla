----------------------------- MODULE ContextOps -----------------------------
(***************************************************************************)
(* What the daemon's configuration and runtime context are, and the pure   *)
(* functions the code applies to them: the loader's validity checks        *)
(* (control/config.py), the five ways the RuntimeContextManager moves the  *)
(* context (daemon/context.py) and the LayeredActionResolver               *)
(* (control/actions.py).                                                   *)
(*                                                                         *)
(* A configuration file is a record                                        *)
(*   default, initial : the default_profile and initial_layer entries      *)
(*   profiles[p][l][k] : the action of control k in layer l of profile p   *)
(* and an action is [tooDeep, steps]: the steps its macro flattens to, and *)
(* whether flattening exceeds the depth or step limit.                     *)
(*                                                                         *)
(* Layers are numbered in the order the code cycles through them: 0 is     *)
(* "general", k is "layer_k".                                              *)
(***************************************************************************)
EXTENDS Naturals, Sequences, FiniteSetsExt

CONSTANTS
  Profiles,   (* profile names a file or a client may mention             *)
  Controls,   (* physical controls of the device                          *)
  MaxLayer,   (* the last layer: 8 in the code                            *)
  Files       (* contents the configuration file may have when it is read *)

General == 0
Layers  == 0 .. MaxLayer
Sources == {"startup", "control_action", "management_cli", "config_reload"}

(* The shape a file has once it is parsed; its meaning is checked by       *)
(* ValidConfig below.                                                      *)
ASSUME FilesAssumption ==
  /\ MaxLayer \in Nat
  /\ \A f \in Files :
       /\ f.default \in Profiles
       /\ f.initial \in Layers
       /\ DOMAIN f.profiles \subseteq Profiles
       /\ \A p \in DOMAIN f.profiles : DOMAIN f.profiles[p] \subseteq Layers

-----------------------------------------------------------------------------
(* The loader accepts a file whose profiles all declare "general" and      *)
(* whose default profile is one of them. It does not ask that the initial  *)
(* layer be declared anywhere.                                             *)
ValidConfig(f) ==
  /\ \A p \in DOMAIN f.profiles : General \in DOMAIN f.profiles[p]
  /\ f.default \in DOMAIN f.profiles

Configs == {f \in Files : ValidConfig(f)}

(* The layers next-layer and previous-layer cycle through.                 *)
Available(c, p) ==
  {General} \cup (IF p \in DOMAIN c.profiles THEN DOMAIN c.profiles[p] ELSE {})

(* Mutated forms. An operator whose name ends in "Slip" is never used: it  *)
(* is the following operator with a plausible bug, which a named property  *)
(* of the runs must catch.                                                 *)
LayerBeforeSlip(avail, l) ==
  LET below == {x \in avail : x < l}
  IN  IF below # {} THEN Max(below) ELSE General

(* From a layer that is not available, next goes to the first layer after  *)
(* general and previous to the last one.                                   *)
LayerAfter(avail, l) ==
  LET from  == IF l \in avail THEN l ELSE General
      above == {x \in avail : x > from}
  IN  IF above = {} THEN General ELSE Min(above)

LayerBefore(avail, l) ==
  LET below == {x \in avail : x < l}
  IN  IF l \in avail /\ below # {} THEN Max(below) ELSE Max(avail)

-----------------------------------------------------------------------------
(* A runtime context. "isEnum" tells a LayerId from the plain string that  *)
(* next_layer stores in its place.                                         *)
Context == [profile : Profiles, layer : Layers, revision : Nat,
            source : Sources, isEnum : BOOLEAN]

StartupContext(c) ==
  [profile |-> c.default, layer |-> c.initial, revision |-> 0,
   source |-> "startup", isEnum |-> TRUE]

(* Every method compares before it assigns: only a real change is counted. *)
Switch(x, p, l, isEnum, src) ==
  IF x.profile = p /\ x.layer = l
  THEN x
  ELSE [profile |-> p, layer |-> l, revision |-> x.revision + 1,
        source |-> src, isEnum |-> isEnum]

SetLayer(x, l, src) == Switch(x, x.profile, l, TRUE, src)

NextLayer(c, x, src) ==
  Switch(x, x.profile, LayerAfter(Available(c, x.profile), x.layer), FALSE, src)

PreviousLayer(c, x, src) ==
  Switch(x, x.profile, LayerBefore(Available(c, x.profile), x.layer), TRUE, src)

(* Only for a profile the configuration has: set_profile raises otherwise. *)
SetProfile(c, x, p, src) == Switch(x, p, c.initial, TRUE, src)

ReconcileLayerSlip(c, x) ==
  IF x.layer \in (UNION {DOMAIN c.profiles[p] : p \in DOMAIN c.profiles}) \cup {c.initial}
  THEN x
  ELSE Switch(x, x.profile, c.initial, TRUE, "config_reload")
ReconcileResetSlip(c, x) == Switch(x, c.default, c.initial, TRUE, "config_reload")

Reconcile(c, x) ==
  IF x.profile \notin DOMAIN c.profiles
  THEN Switch(x, c.default, c.initial, TRUE, "config_reload")
  ELSE IF x.layer \in DOMAIN c.profiles[x.profile] \cup {c.initial}
       THEN x
       ELSE Switch(x, x.profile, c.initial, TRUE, "config_reload")

-----------------------------------------------------------------------------
(* The actions a control has in a layer, falling back to general: at most  *)
(* one.                                                                    *)
Mapped(c, p, l, k) ==
  IF l \in DOMAIN c.profiles[p] /\ k \in DOMAIN c.profiles[p][l]
  THEN {c.profiles[p][l][k]}
  ELSE IF k \in DOMAIN c.profiles[p][General]
       THEN {c.profiles[p][General][k]}
       ELSE {}

(* What resolving an event in a context gives: "error" when resolve raises *)
(* (unknown profile, or a macro beyond its limits), "unmapped" or "plan".  *)
Resolution(c, x, e) ==
  IF ~e.down
  THEN [kind |-> "unmapped", steps |-> <<>>]
  ELSE IF x.profile \notin DOMAIN c.profiles
  THEN [kind |-> "error", steps |-> <<>>]
  ELSE LET found == Mapped(c, x.profile, x.layer, e.control)
       IN  IF found = {}
           THEN [kind |-> "unmapped", steps |-> <<>>]
           ELSE LET a == CHOOSE a \in found : TRUE
                IN  IF a.tooDeep
                    THEN [kind |-> "error", steps |-> <<>>]
                    ELSE [kind |-> "plan", steps |-> a.steps]
=============================================================================
