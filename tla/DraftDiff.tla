----------------------------- MODULE DraftDiff ------------------------------
(***************************************************************************)
(* What the editor shows as the differences between the file and the draft *)
(* (configurator/diff.py): diff_configs compares two configurations,       *)
(* diff_draft also uses the renames the draft remembers, so that a renamed *)
(* profile is not shown as one removed and one added.                      *)
(*                                                                         *)
(* A change is a pair of its kind and its path. Summaries, risks and the   *)
(* further lines for the steps of a macro are left out.                    *)
(***************************************************************************)
EXTENDS DraftOps

Change(kind, path) == <<kind, path>>

(* A record of a rename: [what, owner, before, after], where "what" is     *)
(* "profile" or "layer" and owner is the profile concerned.                *)
Renames ==
  [what : {"profile"}, owner : Profiles, before : Profiles, after : Profiles]
  \cup
  [what : {"layer"}, owner : Profiles, before : Layers, after : Layers]

-----------------------------------------------------------------------------
(* The controls of a layer that both sides have.                           *)
ControlChanges(p, l, b, d) ==
  LET path(k) == <<p, l, k>>
      both    == DOMAIN b \cap DOMAIN d
  IN  {Change("control_mapped", path(k))   : k \in DOMAIN d \ DOMAIN b} \cup
      {Change("control_unmapped", path(k)) : k \in DOMAIN b \ DOMAIN d} \cup
      {Change("control_action_changed", path(k)) : k \in {x \in both : b[x] # d[x]}}

(* The layers of a profile that both sides have.                           *)
LayerChanges(p, b, d) ==
  {Change("layer_removed", <<p, l>>) : l \in DOMAIN b \ DOMAIN d} \cup
  {Change("layer_added", <<p, l>>)   : l \in DOMAIN d \ DOMAIN b} \cup
  UNION {ControlChanges(p, l, b[l], d[l]) : l \in DOMAIN b \cap DOMAIN d}

DiffConfigsSlip(b, d) ==
  {Change("profile_removed", <<p>>) : p \in DOMAIN b.profiles \ DOMAIN d.profiles} \cup
  {Change("profile_added", <<p>>)   : p \in DOMAIN d.profiles \ DOMAIN b.profiles} \cup
  (UNION {LayerChanges(p, b.profiles[p], d.profiles[p]) :
            p \in DOMAIN b.profiles \cap DOMAIN d.profiles}) \cup
  (IF b.default # d.default THEN {Change("default_profile_changed", <<>>)} ELSE {})

DiffConfigs(b, d) ==
  {Change("profile_removed", <<p>>) : p \in DOMAIN b.profiles \ DOMAIN d.profiles} \cup
  {Change("profile_added", <<p>>)   : p \in DOMAIN d.profiles \ DOMAIN b.profiles} \cup
  (UNION {LayerChanges(p, b.profiles[p], d.profiles[p]) :
            p \in DOMAIN b.profiles \cap DOMAIN d.profiles}) \cup
  (IF b.default # d.default THEN {Change("default_profile_changed", <<>>)} ELSE {}) \cup
  (IF b.initial # d.initial THEN {Change("initial_layer_changed", <<>>)} ELSE {})

-----------------------------------------------------------------------------
(* The file's configuration with the profiles renamed as in the draft; a   *)
(* profile that already has the new name is replaced.                      *)
AlignedWith(b, r) ==
  IF r.what # "profile"
  THEN b
  ELSE [b EXCEPT
          !.profiles = IF r.before \in DOMAIN @
                       THEN With(Without(@, r.before), r.after, @[r.before])
                       ELSE @,
          !.default  = IF @ = r.before THEN r.after ELSE @]

Aligned(b, records) ==
  LET after[n \in 0 .. Len(records)] ==
        IF n = 0 THEN b ELSE AlignedWith(after[n - 1], records[n])
  IN  after[Len(records)]

Shown(records) == Range(records)

(* An addition or removal is taken for one half of a rename, and left out, *)
(* when its last name is the new name of any rename, or the old name of a  *)
(* rename of its kind.                                                     *)
TakenForRename(change, records) ==
  LET name == Last(change[2])
      what == IF change[1] \in {"profile_added", "profile_removed"} THEN "profile" ELSE "layer"
  IN  /\ change[1] \in {"profile_added", "profile_removed", "layer_added", "layer_removed"}
      /\ \E r \in Shown(records) :
           \/ name = r.after
           \/ r.what = what /\ name = r.before

RenameChanges(records) ==
  {Change(IF r.what = "profile" THEN "profile_renamed" ELSE "layer_renamed",
          IF r.what = "profile" THEN <<r.before, r.after>> ELSE <<r.owner, r.before, r.after>>) :
     r \in Shown(records)}

DiffDraftSlip(b, d, records) ==
  RenameChanges(records) \cup
  {x \in DiffConfigs(b, d) : ~TakenForRename(x, records)}

DiffDraft(b, d, records) ==
  RenameChanges(records) \cup
  {x \in DiffConfigs(Aligned(b, records), d) : ~TakenForRename(x, records)}
=============================================================================
