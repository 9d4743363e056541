---------------------------- MODULE ConfigDraft -----------------------------
(***************************************************************************)
(* A draft of a configuration (configurator/draft.py, ConfigDraft): the    *)
(* configuration that was loaded, a working copy that the editor's         *)
(* requests and the draft commands change, and the count and the renames   *)
(* that tell them apart.                                                   *)
(*                                                                         *)
(* A draft leaves memory as text and comes back from text in two ways: a   *)
(* save, after which the editor loads the file it wrote as its new base    *)
(* (web/session.py, refresh_base), and the recovery of an unsaved draft    *)
(* (from_recovery).                                                        *)
(***************************************************************************)
EXTENDS DraftDiff

CONSTANTS
  Files,      (* what the configuration file may say when it is opened *)
  MaxEdits    (* bound on the edits of a checked behaviour             *)

ASSUME ConfigDraftAssumption ==
  /\ MaxEdits \in Nat
  /\ \A f \in Files : IsConfig(f) /\ Loads(f)

VARIABLES
  base,      (* base_config                                            *)
  working,   (* working_config                                         *)
  dirty,     (* an edit has been made since the base was loaded        *)
  count,     (* mutation_count                                         *)
  records    (* _mutation_records: the renames, oldest first           *)

vars == <<base, working, dirty, count, records>>

(* Both configurations keep to profiles, layers and actions that exist as  *)
(* names, whatever the edits.                                              *)
TypeOK ==
  /\ base \in Configs
  /\ working \in Configs
  /\ dirty \in BOOLEAN
  /\ count \in Nat
  /\ records \in Seq(Renames)

Init ==
  /\ base \in Files
  /\ working = base
  /\ dirty = FALSE
  /\ count = 0
  /\ records = <<>>

-----------------------------------------------------------------------------
MarkDirty == dirty' = TRUE /\ count' = count + 1

(* An edit that is not a rename.                                           *)
EditSlip(c) ==
  /\ working' = c
  /\ count' = count + 1
  /\ UNCHANGED <<base, dirty, records>>

Edit(c) ==
  /\ working' = c
  /\ MarkDirty
  /\ UNCHANGED <<base, records>>

Rename(c, r) ==
  /\ working' = c
  /\ records' = Append(records, r)
  /\ MarkDirty
  /\ UNCHANGED base

add_profile(p) ==
  /\ p \notin DOMAIN working.profiles
  /\ Edit(AddProfile(working, p))

rename_profile(old, new) ==
  /\ CanRenameProfile(working, old, new)
  /\ Rename(RenameProfile(working, old, new),
            [what |-> "profile", owner |-> old, before |-> old, after |-> new])

remove_profile(p) ==
  /\ CanRemoveProfile(working, p)
  /\ Edit(RemoveProfile(working, p))

set_default_profile(p) ==
  /\ p \in DOMAIN working.profiles
  /\ p # working.default
  /\ Edit([working EXCEPT !.default = p])

add_layer(p, l) ==
  /\ p \in DOMAIN working.profiles
  /\ l \notin DOMAIN working.profiles[p]
  /\ Edit(AddLayer(working, p, l))

rename_layer(p, old, new) ==
  /\ CanRenameLayer(working, p, old, new)
  /\ Rename(RenameLayer(working, p, old, new),
            [what |-> "layer", owner |-> p, before |-> old, after |-> new])

remove_layer(p, l) ==
  /\ CanRemoveLayer(working, p, l)
  /\ Edit(RemoveLayer(working, p, l))

(* Any of the nine layers, declared or not.                                *)
set_initial_layer(l) ==
  /\ l # working.initial
  /\ Edit([working EXCEPT !.initial = l])

set_action(p, l, k, a) ==
  /\ HasLayer(working, p, l)
  /\ Edit(SetAction(working, p, l, k, a))

clear_action(p, l, k) ==
  /\ HasLayer(working, p, l)
  /\ k \in DOMAIN working.profiles[p][l]
  /\ Edit(ClearAction(working, p, l, k))

-----------------------------------------------------------------------------
(* A draft that validates is written to the file, and the editor starts    *)
(* over from the file.                                                     *)
SaveAndReload ==
  /\ Validates(working)
  /\ base' = Written(working)
  /\ working' = Written(working)
  /\ dirty' = FALSE
  /\ count' = 0
  /\ records' = <<>>

(* The session of a changed draft ends, and another one resumes it.        *)
Recover ==
  /\ dirty
  /\ Validates(working)
  /\ working' = Written(working)
  /\ records' = <<>>
  /\ UNCHANGED <<base, dirty, count>>

Restructure ==
  \/ \E p \in Profiles : add_profile(p) \/ remove_profile(p) \/ set_default_profile(p)
  \/ \E p, q \in Profiles : rename_profile(p, q)
  \/ \E p \in Profiles, l \in Layers : add_layer(p, l) \/ remove_layer(p, l)
  \/ \E p \in Profiles, l, m \in Layers : rename_layer(p, l, m)
  \/ \E l \in Layers : set_initial_layer(l)

Remap ==
  \E p \in Profiles, l \in Layers, k \in Controls :
    clear_action(p, l, k) \/ \E a \in Actions : set_action(p, l, k, a)

Next == Restructure \/ Remap \/ SaveAndReload \/ Recover

Spec == Init /\ [][Next]_vars

(* MaxEdits edits of a file, with a recovery at any point, then a save and *)
(* one more edit of what was saved.                                        *)
WithinBound ==
  IF base' \in Files THEN count' <= MaxEdits
  ELSE count' <= 1 /\ (base \in Files \/ base' = base)

BoundedSpec == Init /\ [][Next /\ WithinBound]_vars

-----------------------------------------------------------------------------
(* Every name that the configuration uses names something it has: its      *)
(* default profile, and the target of every set_profile and set_layer.     *)
TargetExists(c, s) ==
  LET a == ActionAt(c, s)
  IN  /\ a.kind = "set_profile" => a.target \in DOMAIN c.profiles
      /\ a.kind = "set_layer" => a.target \in DOMAIN c.profiles[s[1]]

Resolved(c) ==
  /\ c.default \in DOMAIN c.profiles
  /\ \A s \in Slots(c) : TargetExists(c, s)

(* Adding, renaming and removing profiles and layers never leaves a name   *)
(* behind: the renames rewrite the actions that use the old name, and a    *)
(* removal is refused while one does (draft.py:547-607).                   *)
NamesStayResolved == [][Restructure /\ Resolved(working) => Resolved(working')]_vars

(* A draft that is not dirty is the file: the session drops such a draft   *)
(* without a recovery file, and offers nothing to save (session.py:262).   *)
CleanIsUnchanged ==
  /\ ~dirty => working = base /\ count = 0
  /\ dirty => count > 0

(* A user who is shown no difference is about to save the file as it is.   *)
EmptyDiffIsUnchanged == DiffDraft(base, working, records) = {} => working = base

(* Renames alone are shown as renames, whatever their order, chains and    *)
(* swaps of profile names included (diff.py:210, "Align base config"): no  *)
(* profile or layer is shown as added or removed and the default profile   *)
(* is not shown as changed. The alignment stops at profiles, so a layer    *)
(* that takes the name of one renamed before it is compared with that one, *)
(* and only there do controls look newly mapped or unmapped.               *)
StructureKinds ==
  {"profile_added", "profile_removed", "layer_added", "layer_removed", "default_profile_changed"}

GivenUp(l) == \E r \in Shown(records) : r.what = "layer" /\ r.before = l
TakenOn(l) == \E r \in Shown(records) : r.what = "layer" /\ r.after = l

RenamesAreNotEdits ==
  count = Len(records) =>
    \A x \in DiffDraft(base, working, records) :
      /\ x[1] \notin StructureKinds
      /\ x[1] \in {"control_mapped", "control_unmapped"} =>
           GivenUp(x[2][2]) /\ TakenOn(x[2][2])
=============================================================================
