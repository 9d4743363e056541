------------------------------ MODULE DraftOps ------------------------------
(***************************************************************************)
(* The configuration that the editor works on, and the pure functions the  *)
(* code applies to it: the edits of configurator/draft.py, what the text   *)
(* of a configuration says (configurator/serializer.py, read back by       *)
(* control/config.py), and the differences configurator/diff.py shows.     *)
(*                                                                         *)
(* A configuration is a record                                             *)
(*   default, initial : the default profile and the initial layer          *)
(*   profiles[p][l][k] : the action of control k in layer l of profile p   *)
(* An action is a record [kind, target]; only "set_profile" and            *)
(* "set_layer" have a target that names something else. A macro is one     *)
(* opaque action: the code never looks for names inside it.                *)
(*                                                                         *)
(* An operator whose name ends in "Slip" is never used: it is the one      *)
(* after it with a plausible bug, which a property of the runs must catch. *)
(***************************************************************************)
EXTENDS Naturals, FiniteSets, SequencesExt

CONSTANTS
  Profiles,   (* profile names                          *)
  MaxLayer,   (* the last layer: 8 in the code          *)
  Controls,   (* physical controls                      *)
  Actions     (* actions a control can be mapped to     *)

General == 0
Layers  == 0 .. MaxLayer

ASSUME DraftAssumption ==
  /\ MaxLayer \in Nat
  /\ \A a \in Actions :
       /\ a = [kind |-> a.kind, target |-> a.target]
       /\ a.kind = "set_profile" => a.target \in Profiles
       /\ a.kind = "set_layer"   => a.target \in Layers
  /\ \A p, q \in Profiles, a \in Actions :
       a.kind = "set_profile" => [a EXCEPT !.target = q] \in Actions
  /\ \A l \in Layers, a \in Actions :
       a.kind = "set_layer" => [a EXCEPT !.target = l] \in Actions

(* A layer maps some of the controls, a profile has some of the layers, a  *)
(* configuration some of the profiles.                                     *)
LayerMaps    == UNION {[C -> Actions] : C \in SUBSET Controls}
ProfileMaps  == UNION {[L -> LayerMaps] : L \in SUBSET Layers}
Configs ==
  [default : Profiles, initial : Layers,
   profiles : UNION {[P -> ProfileMaps] : P \in SUBSET Profiles}]

(* The same, one part after the other.                                     *)
IsConfig(c) ==
  /\ c = [default |-> c.default, initial |-> c.initial, profiles |-> c.profiles]
  /\ c.default \in Profiles /\ c.initial \in Layers
  /\ DOMAIN c.profiles \subseteq Profiles
  /\ c.profiles = [p \in DOMAIN c.profiles |-> c.profiles[p]]
  /\ \A p \in DOMAIN c.profiles :
       /\ DOMAIN c.profiles[p] \subseteq Layers
       /\ c.profiles[p] = [l \in DOMAIN c.profiles[p] |-> c.profiles[p][l]]
       /\ \A l \in DOMAIN c.profiles[p] :
            /\ DOMAIN c.profiles[p][l] \subseteq Controls
            /\ c.profiles[p][l] \in [DOMAIN c.profiles[p][l] -> Actions]

Unmapped == [k \in {} |-> k]

-----------------------------------------------------------------------------
(* Python's dictionaries, by the copies the code makes of them.            *)
With(f, x, v)    == [y \in DOMAIN f \cup {x} |-> IF y = x THEN v ELSE f[y]]
Without(f, x)    == Restrict(f, DOMAIN f \ {x})
Rekeyed(f, a, b) == [y \in (DOMAIN f \ {a}) \cup {b} |-> f[IF y = b THEN a ELSE y]]

(* The positions that carry an action.                                     *)
Slots(c) ==
  {s \in Profiles \X Layers \X Controls :
     /\ s[1] \in DOMAIN c.profiles
     /\ s[2] \in DOMAIN c.profiles[s[1]]
     /\ s[3] \in DOMAIN c.profiles[s[1]][s[2]]}

ActionAt(c, s) == c.profiles[s[1]][s[2]][s[3]]

SetsProfile(a, p) == a.kind = "set_profile" /\ a.target = p
SetsLayer(a, l)   == a.kind = "set_layer" /\ a.target = l

ProfileRefs(c, p) == {s \in Slots(c) : SetsProfile(ActionAt(c, s), p)}

(* In every profile, though a layer belongs to one.                        *)
LayerRefs(c, l) == {s \in Slots(c) : SetsLayer(ActionAt(c, s), l)}

RetargetProfile(a, old, new) ==
  IF SetsProfile(a, old) THEN [a EXCEPT !.target = new] ELSE a

RetargetLayer(a, old, new) ==
  IF SetsLayer(a, old) THEN [a EXCEPT !.target = new] ELSE a

-----------------------------------------------------------------------------
(* The edits that succeed, each as its guard and its result. An edit that  *)
(* is refused, or that asks for what is already so, changes nothing.       *)
AddProfile(c, p) ==
  [c EXCEPT !.profiles = With(@, p, [l \in {General} |-> Unmapped])]

CanRenameProfile(c, old, new) ==
  old \in DOMAIN c.profiles /\ new \notin DOMAIN c.profiles

RenameProfile(c, old, new) ==
  LET moved == Rekeyed(c.profiles, old, new)
  IN  [c EXCEPT
         !.profiles = [p \in DOMAIN moved |-> [l \in DOMAIN moved[p] |->
                         [k \in DOMAIN moved[p][l] |->
                            RetargetProfile(moved[p][l][k], old, new)]]],
         !.default = IF @ = old THEN new ELSE @]

CanRemoveProfileSlip(c, p) ==
  p \in DOMAIN c.profiles /\ p # c.default

CanRemoveProfile(c, p) ==
  /\ p \in DOMAIN c.profiles
  /\ DOMAIN c.profiles # {p}
  /\ p # c.default
  /\ ProfileRefs(c, p) = {}

RemoveProfile(c, p) == [c EXCEPT !.profiles = Without(@, p)]

AddLayer(c, p, l) == [c EXCEPT !.profiles[p] = With(@, l, Unmapped)]

CanRenameLayer(c, p, old, new) ==
  /\ p \in DOMAIN c.profiles
  /\ old \in DOMAIN c.profiles[p]
  /\ new \notin DOMAIN c.profiles[p]

(* The initial layer follows, whichever profile the layer is renamed in.   *)
(* Nothing stops the general layer from being renamed.                     *)
RenameLayer(c, p, old, new) ==
  LET moved == Rekeyed(c.profiles[p], old, new)
  IN  [c EXCEPT
         !.profiles[p] = [l \in DOMAIN moved |-> [k \in DOMAIN moved[l] |->
                            RetargetLayer(moved[l][k], old, new)]],
         !.initial = IF @ = old THEN new ELSE @]

CanRemoveLayer(c, p, l) ==
  /\ p \in DOMAIN c.profiles
  /\ l \in DOMAIN c.profiles[p]
  /\ l # General
  /\ DOMAIN c.profiles[p] # {l}
  /\ LayerRefs(c, l) = {}

RemoveLayer(c, p, l) == [c EXCEPT !.profiles[p] = Without(@, l)]

HasLayer(c, p, l) == p \in DOMAIN c.profiles /\ l \in DOMAIN c.profiles[p]

SetAction(c, p, l, k, a) == [c EXCEPT !.profiles[p][l] = With(@, k, a)]
ClearAction(c, p, l, k)  == [c EXCEPT !.profiles[p][l] = Without(@, k)]

-----------------------------------------------------------------------------
(* The text of a configuration has one line per mapped control and no      *)
(* other trace of layers and profiles: an empty layer, and a profile       *)
(* without a mapped control, are not in it. Read back, it says             *)
MappedLayers(ls) == {l \in DOMAIN ls : DOMAIN ls[l] # {}}

Written(c) ==
  [c EXCEPT !.profiles =
     [p \in {q \in DOMAIN c.profiles : MappedLayers(c.profiles[q]) # {}} |->
        Restrict(c.profiles[p], MappedLayers(c.profiles[p]))]]

(* What the loader asks of what it reads.                                  *)
Loads(f) ==
  /\ DOMAIN f.profiles # {}
  /\ \A p \in DOMAIN f.profiles : General \in DOMAIN f.profiles[p]
  /\ f.default \in DOMAIN f.profiles

(* validate() loads the text and keeps nothing of what it loaded.          *)
Validates(c) == Loads(Written(c))
=============================================================================
