------------------------- MODULE ConfigDraftProofs --------------------------
(***************************************************************************)
(* Proofs about the draft, for any names, layers, controls and actions and *)
(* any number of edits: configurations keep their shape, a clean draft is  *)
(* the file, and no edit of profiles and layers leaves a name behind.      *)
(***************************************************************************)
EXTENDS ConfigDraft, WellFoundedInduction, TLAPS

-----------------------------------------------------------------------------
(* Dictionaries with keys in K and values in V. The three parts of a       *)
(* configuration are such.                                                 *)
Partial(K, V) == UNION {[C -> V] : C \in SUBSET K}

LEMMA ConfigParts ==
  /\ LayerMaps = Partial(Controls, Actions)
  /\ ProfileMaps = Partial(Layers, LayerMaps)
  /\ Configs = [default : Profiles, initial : Layers, profiles : Partial(Profiles, ProfileMaps)]
BY DEF Partial, LayerMaps, ProfileMaps, Configs

LEMMA PartialIs ==
  ASSUME NEW K, NEW V, NEW f \in Partial(K, V)
  PROVE  /\ f \in [DOMAIN f -> V]
         /\ DOMAIN f \subseteq K
<1>1. PICK C \in SUBSET K : f \in [C -> V]
  BY DEF Partial
<1> QED BY <1>1

LEMMA IsPartial ==
  ASSUME NEW K, NEW V, NEW C \in SUBSET K, NEW f \in [C -> V]
  PROVE  f \in Partial(K, V)
BY DEF Partial

LEMMA PartialWith ==
  ASSUME NEW K, NEW V, NEW f \in Partial(K, V), NEW x \in K, NEW v \in V
  PROVE  With(f, x, v) \in Partial(K, V)
<1>1. f \in [DOMAIN f -> V] /\ DOMAIN f \subseteq K
  BY PartialIs
<1>2. With(f, x, v) \in [DOMAIN f \cup {x} -> V]
  BY <1>1 DEF With
<1> QED BY <1>1, <1>2, IsPartial

LEMMA PartialRestrict ==
  ASSUME NEW K, NEW V, NEW f \in Partial(K, V), NEW C \in SUBSET DOMAIN f
  PROVE  Restrict(f, C) \in Partial(K, V)
<1>1. f \in [DOMAIN f -> V] /\ DOMAIN f \subseteq K
  BY PartialIs
<1>2. Restrict(f, C) \in [C -> V]
  BY <1>1 DEF Restrict
<1> QED BY <1>1, <1>2, IsPartial

LEMMA PartialWithout ==
  ASSUME NEW K, NEW V, NEW f \in Partial(K, V), NEW x
  PROVE  Without(f, x) \in Partial(K, V)
BY PartialRestrict DEF Without

LEMMA PartialRekeyed ==
  ASSUME NEW K, NEW V, NEW f \in Partial(K, V), NEW a \in DOMAIN f, NEW b \in K
  PROVE  Rekeyed(f, a, b) \in Partial(K, V)
<1>1. f \in [DOMAIN f -> V] /\ DOMAIN f \subseteq K
  BY PartialIs
<1>2. Rekeyed(f, a, b) \in [(DOMAIN f \ {a}) \cup {b} -> V]
  BY <1>1 DEF Rekeyed
<1> QED BY <1>1, <1>2, IsPartial

(* A configuration whose profiles are replaced, altogether or one of them. *)
Tables == Partial(Profiles, ProfileMaps)

LEMMA ConfigShape ==
  \A c \in Configs :
    /\ c.default \in Profiles /\ c.initial \in Layers
    /\ c.profiles \in Tables
    /\ c.profiles \in [DOMAIN c.profiles -> ProfileMaps]
    /\ DOMAIN c.profiles \subseteq Profiles
    /\ c = [default |-> c.default, initial |-> c.initial, profiles |-> c.profiles]
<1> SUFFICES ASSUME NEW c \in Configs
             PROVE  /\ c.default \in Profiles /\ c.initial \in Layers
                    /\ c.profiles \in Tables
                    /\ c.profiles \in [DOMAIN c.profiles -> ProfileMaps]
                    /\ DOMAIN c.profiles \subseteq Profiles
                    /\ c = [default |-> c.default, initial |-> c.initial, profiles |-> c.profiles]
  OBVIOUS
<1>1. /\ c.default \in Profiles /\ c.initial \in Layers /\ c.profiles \in Tables
      /\ c = [default |-> c.default, initial |-> c.initial, profiles |-> c.profiles]
  BY ConfigParts DEF Tables
<1>2. \A t \in Tables : t \in [DOMAIN t -> ProfileMaps] /\ DOMAIN t \subseteq Profiles
  BY PartialIs DEF Tables
<1> QED BY <1>1, <1>2

LEMMA ConfigWith ==
  ASSUME NEW c \in Configs, NEW t \in Tables
  PROVE  [c EXCEPT !.profiles = t] \in Configs
BY ConfigParts DEF Tables

LEMMA LayerShape ==
  ASSUME NEW c \in Configs, NEW p \in DOMAIN c.profiles
  PROVE  /\ c.profiles[p] \in ProfileMaps
         /\ c.profiles[p] \in [DOMAIN c.profiles[p] -> LayerMaps]
         /\ DOMAIN c.profiles[p] \subseteq Layers
         /\ \A l \in DOMAIN c.profiles[p] :
              /\ c.profiles[p][l] \in [DOMAIN c.profiles[p][l] -> Actions]
              /\ DOMAIN c.profiles[p][l] \subseteq Controls
<1>1. c.profiles[p] \in ProfileMaps
  BY ConfigShape
<1>2. \A m \in ProfileMaps : m \in [DOMAIN m -> LayerMaps] /\ DOMAIN m \subseteq Layers
  BY PartialIs, ConfigParts
<1>3. \A m \in LayerMaps : m \in [DOMAIN m -> Actions] /\ DOMAIN m \subseteq Controls
  BY PartialIs, ConfigParts
<1> QED BY <1>1, <1>2, <1>3

-----------------------------------------------------------------------------
(* The result of each edit is a configuration.                             *)
LEMMA ActionsRetarget ==
  /\ \A a \in Actions, p, q \in Profiles : RetargetProfile(a, p, q) \in Actions
  /\ \A a \in Actions, l, m \in Layers : RetargetLayer(a, l, m) \in Actions
BY DraftAssumption DEF RetargetProfile, RetargetLayer, SetsProfile, SetsLayer

LEMMA UnmappedIsLayer == Unmapped \in LayerMaps
<1>1. Unmapped \in [{} -> Actions]
  BY DEF Unmapped
<1> QED BY <1>1, IsPartial, ConfigParts

LEMMA FreshProfile == [l \in {General} |-> Unmapped] \in ProfileMaps
<1>1. {General} \in SUBSET Layers
  BY DraftAssumption DEF General, Layers
<1>2. [l \in {General} |-> Unmapped] \in [{General} -> LayerMaps]
  BY UnmappedIsLayer
<1> QED BY <1>1, <1>2, IsPartial, ConfigParts

LEMMA AddProfileType ==
  ASSUME NEW c \in Configs, NEW p \in Profiles
  PROVE  AddProfile(c, p) \in Configs
<1>1. With(c.profiles, p, [l \in {General} |-> Unmapped]) \in Tables
  BY ConfigShape, FreshProfile, PartialWith DEF Tables
<1> QED BY <1>1, ConfigWith DEF AddProfile

LEMMA RemoveProfileType ==
  ASSUME NEW c \in Configs, NEW p \in Profiles
  PROVE  RemoveProfile(c, p) \in Configs
<1>1. Without(c.profiles, p) \in Tables
  BY ConfigShape, PartialWithout DEF Tables
<1> QED BY <1>1, ConfigWith DEF RemoveProfile

(* One profile of a configuration is replaced.                             *)
LEMMA ProfileWith ==
  ASSUME NEW c \in Configs, NEW p \in DOMAIN c.profiles, NEW m \in ProfileMaps
  PROVE  [c EXCEPT !.profiles[p] = m] \in Configs
<1>1. [c.profiles EXCEPT ![p] = m] \in [DOMAIN c.profiles -> ProfileMaps]
  BY ConfigShape
<1>2. [c.profiles EXCEPT ![p] = m] \in Tables
  BY <1>1, ConfigShape, IsPartial DEF Tables
<1>3. [c EXCEPT !.profiles[p] = m] = [c EXCEPT !.profiles = [c.profiles EXCEPT ![p] = m]]
  BY ConfigShape
<1> QED BY <1>2, <1>3, ConfigWith

LEMMA AddLayerType ==
  ASSUME NEW c \in Configs, NEW p \in DOMAIN c.profiles, NEW l \in Layers
  PROVE  AddLayer(c, p, l) \in Configs
<1>1. With(c.profiles[p], l, Unmapped) \in ProfileMaps
  BY LayerShape, UnmappedIsLayer, PartialWith, ConfigParts
<1> QED BY <1>1, ProfileWith DEF AddLayer

LEMMA RemoveLayerType ==
  ASSUME NEW c \in Configs, NEW p \in DOMAIN c.profiles, NEW l \in Layers
  PROVE  RemoveLayer(c, p, l) \in Configs
<1>1. Without(c.profiles[p], l) \in ProfileMaps
  BY LayerShape, PartialWithout, ConfigParts
<1> QED BY <1>1, ProfileWith DEF RemoveLayer

(* Renames retarget the actions after the copy.                            *)
LEMMA RetargetedTable ==
  ASSUME NEW t \in Tables, NEW old \in Profiles, NEW new \in Profiles
  PROVE  [p \in DOMAIN t |-> [l \in DOMAIN t[p] |-> [k \in DOMAIN t[p][l] |->
            RetargetProfile(t[p][l][k], old, new)]]] \in Tables
<1>1. t \in [DOMAIN t -> ProfileMaps] /\ DOMAIN t \subseteq Profiles
  BY PartialIs DEF Tables
<1>2. \A m \in ProfileMaps : m \in [DOMAIN m -> LayerMaps] /\ DOMAIN m \subseteq Layers
  BY PartialIs, ConfigParts
<1>3. \A m \in LayerMaps : m \in [DOMAIN m -> Actions] /\ DOMAIN m \subseteq Controls
  BY PartialIs, ConfigParts
<1>4. \A m \in LayerMaps : [k \in DOMAIN m |-> RetargetProfile(m[k], old, new)] \in LayerMaps
  <2> SUFFICES ASSUME NEW m \in LayerMaps
               PROVE  [k \in DOMAIN m |-> RetargetProfile(m[k], old, new)] \in LayerMaps
    OBVIOUS
  <2>1. [k \in DOMAIN m |-> RetargetProfile(m[k], old, new)] \in [DOMAIN m -> Actions]
    BY <1>3, ActionsRetarget
  <2> QED BY <2>1, <1>3, IsPartial, ConfigParts
<1>5. \A m \in ProfileMaps :
        [l \in DOMAIN m |-> [k \in DOMAIN m[l] |-> RetargetProfile(m[l][k], old, new)]] \in ProfileMaps
  <2> SUFFICES ASSUME NEW m \in ProfileMaps
               PROVE  [l \in DOMAIN m |-> [k \in DOMAIN m[l] |-> RetargetProfile(m[l][k], old, new)]]
                        \in ProfileMaps
    OBVIOUS
  <2>1. \A l \in DOMAIN m : [k \in DOMAIN m[l] |-> RetargetProfile(m[l][k], old, new)] \in LayerMaps
    BY <1>2, <1>4
  <2>2. [l \in DOMAIN m |-> [k \in DOMAIN m[l] |-> RetargetProfile(m[l][k], old, new)]]
          \in [DOMAIN m -> LayerMaps]
    BY <2>1
  <2> QED BY <2>2, <1>2, IsPartial, ConfigParts
<1>6. \A p \in DOMAIN t :
        [l \in DOMAIN t[p] |-> [k \in DOMAIN t[p][l] |-> RetargetProfile(t[p][l][k], old, new)]]
          \in ProfileMaps
  BY <1>1, <1>5
<1>7. [p \in DOMAIN t |-> [l \in DOMAIN t[p] |-> [k \in DOMAIN t[p][l] |->
         RetargetProfile(t[p][l][k], old, new)]]] \in [DOMAIN t -> ProfileMaps]
  BY <1>6
<1> QED BY <1>1, <1>7, IsPartial DEF Tables

LEMMA RetargetedProfile ==
  ASSUME NEW m \in ProfileMaps, NEW old \in Layers, NEW new \in Layers
  PROVE  [l \in DOMAIN m |-> [k \in DOMAIN m[l] |-> RetargetLayer(m[l][k], old, new)]]
           \in ProfileMaps
<1>1. m \in [DOMAIN m -> LayerMaps] /\ DOMAIN m \subseteq Layers
  BY PartialIs, ConfigParts
<1>2. \A n \in LayerMaps : [k \in DOMAIN n |-> RetargetLayer(n[k], old, new)] \in LayerMaps
  <2> SUFFICES ASSUME NEW n \in LayerMaps
               PROVE  [k \in DOMAIN n |-> RetargetLayer(n[k], old, new)] \in LayerMaps
    OBVIOUS
  <2>1. n \in [DOMAIN n -> Actions] /\ DOMAIN n \subseteq Controls
    BY PartialIs, ConfigParts
  <2>2. [k \in DOMAIN n |-> RetargetLayer(n[k], old, new)] \in [DOMAIN n -> Actions]
    BY <2>1, ActionsRetarget
  <2> QED BY <2>1, <2>2, IsPartial, ConfigParts
<1>3. \A l \in DOMAIN m : [k \in DOMAIN m[l] |-> RetargetLayer(m[l][k], old, new)] \in LayerMaps
  BY <1>1, <1>2
<1>4. [l \in DOMAIN m |-> [k \in DOMAIN m[l] |-> RetargetLayer(m[l][k], old, new)]]
        \in [DOMAIN m -> LayerMaps]
  BY <1>3
<1> QED BY <1>1, <1>4, IsPartial, ConfigParts

LEMMA RenameProfileType ==
  ASSUME NEW c \in Configs, NEW old \in DOMAIN c.profiles, NEW new \in Profiles
  PROVE  RenameProfile(c, old, new) \in Configs
<1> DEFINE moved == Rekeyed(c.profiles, old, new)
           t == [p \in DOMAIN moved |-> [l \in DOMAIN moved[p] |-> [k \in DOMAIN moved[p][l] |->
                  RetargetProfile(moved[p][l][k], old, new)]]]
<1>1. moved \in Tables
  BY ConfigShape, PartialRekeyed DEF Tables
<1>2. old \in Profiles
  BY ConfigShape
<1>3. t \in Tables
  BY <1>1, <1>2, RetargetedTable
<1>4. RenameProfile(c, old, new) =
        [c EXCEPT !.profiles = t, !.default = IF c.default = old THEN new ELSE c.default]
  BY ConfigShape DEF RenameProfile
<1> HIDE DEF t
<1> QED BY <1>3, <1>4, ConfigParts, ConfigShape DEF Tables

LEMMA RenameLayerType ==
  ASSUME NEW c \in Configs, NEW p \in DOMAIN c.profiles,
         NEW old \in DOMAIN c.profiles[p], NEW new \in Layers
  PROVE  RenameLayer(c, p, old, new) \in Configs
<1> DEFINE moved == Rekeyed(c.profiles[p], old, new)
           m == [l \in DOMAIN moved |-> [k \in DOMAIN moved[l] |->
                  RetargetLayer(moved[l][k], old, new)]]
<1>1. moved \in ProfileMaps
  BY LayerShape, PartialRekeyed, ConfigParts
<1>2. old \in Layers
  BY LayerShape
<1>3. m \in ProfileMaps
  BY <1>1, <1>2, RetargetedProfile
<1>4. RenameLayer(c, p, old, new) =
        [[c EXCEPT !.profiles[p] = m] EXCEPT !.initial = IF c.initial = old THEN new ELSE c.initial]
  BY ConfigShape DEF RenameLayer
<1> HIDE DEF m
<1>5. [c EXCEPT !.profiles[p] = m] \in Configs
  BY <1>3, ProfileWith
<1> QED BY <1>4, <1>5, ConfigParts, ConfigShape

LEMMA SetActionType ==
  ASSUME NEW c \in Configs, NEW p \in Profiles, NEW l \in Layers, HasLayer(c, p, l),
         NEW k \in Controls
  PROVE  /\ \A a \in Actions : SetAction(c, p, l, k, a) \in Configs
         /\ ClearAction(c, p, l, k) \in Configs
<1>1. /\ p \in DOMAIN c.profiles /\ l \in DOMAIN c.profiles[p]
      /\ c.profiles[p] \in [DOMAIN c.profiles[p] -> LayerMaps]
      /\ DOMAIN c.profiles[p] \subseteq Layers
  BY LayerShape DEF HasLayer
<1>2. \A n \in LayerMaps : [c.profiles[p] EXCEPT ![l] = n] \in ProfileMaps
  <2> SUFFICES ASSUME NEW n \in LayerMaps
               PROVE  [c.profiles[p] EXCEPT ![l] = n] \in ProfileMaps
    OBVIOUS
  <2>1. [c.profiles[p] EXCEPT ![l] = n] \in [DOMAIN c.profiles[p] -> LayerMaps]
    BY <1>1
  <2> QED BY <2>1, <1>1, IsPartial, ConfigParts
<1>3. \A n \in LayerMaps : [c EXCEPT !.profiles[p][l] = n] \in Configs
  <2> SUFFICES ASSUME NEW n \in LayerMaps
               PROVE  [c EXCEPT !.profiles[p][l] = n] \in Configs
    OBVIOUS
  <2>1. [c EXCEPT !.profiles[p][l] = n] = [c EXCEPT !.profiles[p] = [c.profiles[p] EXCEPT ![l] = n]]
    BY ConfigShape, <1>1
  <2> QED BY <2>1, <1>1, <1>2, ProfileWith
<1>4. c.profiles[p][l] \in LayerMaps
  BY <1>1
<1>5. /\ \A a \in Actions : With(c.profiles[p][l], k, a) \in LayerMaps
      /\ Without(c.profiles[p][l], k) \in LayerMaps
  BY <1>4, PartialWith, PartialWithout, ConfigParts
<1> QED BY <1>3, <1>5 DEF SetAction, ClearAction

LEMMA WrittenType ==
  ASSUME NEW c \in Configs
  PROVE  Written(c) \in Configs
<1> DEFINE P == {q \in DOMAIN c.profiles : MappedLayers(c.profiles[q]) # {}}
           t == [p \in P |-> Restrict(c.profiles[p], MappedLayers(c.profiles[p]))]
<1>1. ASSUME NEW p \in DOMAIN c.profiles
      PROVE  Restrict(c.profiles[p], MappedLayers(c.profiles[p])) \in ProfileMaps
  <2>1. c.profiles[p] \in Partial(Layers, LayerMaps)
    BY LayerShape, ConfigParts
  <2>2. MappedLayers(c.profiles[p]) \in SUBSET DOMAIN c.profiles[p]
    BY DEF MappedLayers
  <2> QED BY <2>1, <2>2, PartialRestrict, ConfigParts
<1>2. t \in [P -> ProfileMaps]
  BY <1>1
<1>3. P \in SUBSET Profiles
  BY ConfigShape
<1> HIDE DEF P
<1>4. t \in Tables
  BY <1>2, <1>3, IsPartial DEF Tables
<1>5. Written(c) = [c EXCEPT !.profiles = t]
  BY DEF Written, P
<1> QED BY <1>4, <1>5, ConfigWith

(* What may be said in a file is a configuration.                          *)
LEMMA IsConfigShape ==
  ASSUME NEW c, IsConfig(c)
  PROVE  c \in Configs
<1>1. \A p \in DOMAIN c.profiles : \A l \in DOMAIN c.profiles[p] :
        c.profiles[p][l] \in LayerMaps
  BY IsPartial, ConfigParts DEF IsConfig
<1>2. \A p \in DOMAIN c.profiles : c.profiles[p] \in ProfileMaps
  <2> SUFFICES ASSUME NEW p \in DOMAIN c.profiles PROVE c.profiles[p] \in ProfileMaps
    OBVIOUS
  <2>1. /\ DOMAIN c.profiles[p] \in SUBSET Layers
        /\ c.profiles[p] = [l \in DOMAIN c.profiles[p] |-> c.profiles[p][l]]
    BY DEF IsConfig
  <2>2. c.profiles[p] \in [DOMAIN c.profiles[p] -> LayerMaps]
    BY <1>1, <2>1
  <2> QED BY <2>1, <2>2, IsPartial, ConfigParts
<1>3. /\ DOMAIN c.profiles \in SUBSET Profiles
      /\ c.profiles = [p \in DOMAIN c.profiles |-> c.profiles[p]]
  BY DEF IsConfig
<1>4. c.profiles \in [DOMAIN c.profiles -> ProfileMaps]
  BY <1>2, <1>3
<1>5. c.profiles \in Partial(Profiles, ProfileMaps)
  BY <1>3, <1>4, IsPartial
<1>6. /\ c.default \in Profiles /\ c.initial \in Layers
      /\ c = [default |-> c.default, initial |-> c.initial, profiles |-> c.profiles]
  BY DEF IsConfig
<1> QED BY <1>5, <1>6, ConfigParts

-----------------------------------------------------------------------------
(* The draft keeps its shape, and a clean one is the file.                 *)
IInv == TypeOK /\ CleanIsUnchanged

LEMMA EditInv ==
  ASSUME IInv, NEW c \in Configs, Edit(c)
  PROVE  IInv'
BY DEF IInv, TypeOK, CleanIsUnchanged, Edit, MarkDirty

LEMMA RenameInv ==
  ASSUME IInv, NEW c \in Configs, NEW r \in Renames, Rename(c, r)
  PROVE  IInv'
BY DEF IInv, TypeOK, CleanIsUnchanged, Rename, MarkDirty

LEMMA RestructureInv == IInv /\ Restructure => IInv'
<1> SUFFICES ASSUME IInv, Restructure PROVE IInv'
  OBVIOUS
<1>0. working \in Configs /\ DOMAIN working.profiles \subseteq Profiles
  BY ConfigShape DEF IInv, TypeOK
<1>1. ASSUME NEW p \in Profiles, add_profile(p) PROVE IInv'
  BY <1>0, <1>1, AddProfileType, EditInv DEF add_profile
<1>2. ASSUME NEW p \in Profiles, remove_profile(p) PROVE IInv'
  BY <1>0, <1>2, RemoveProfileType, EditInv DEF remove_profile
<1>3. ASSUME NEW p \in Profiles, set_default_profile(p) PROVE IInv'
  <2>1. [working EXCEPT !.default = p] \in Configs
    BY <1>0, ConfigParts
  <2> QED BY <1>3, <2>1, EditInv DEF set_default_profile
<1>4. ASSUME NEW p \in Profiles, NEW q \in Profiles, rename_profile(p, q) PROVE IInv'
  <2>1. RenameProfile(working, p, q) \in Configs
    BY <1>0, <1>4, RenameProfileType DEF rename_profile, CanRenameProfile
  <2>2. [what |-> "profile", owner |-> p, before |-> p, after |-> q] \in Renames
    BY DEF Renames
  <2> QED BY <1>4, <2>1, <2>2, RenameInv DEF rename_profile
<1>5. ASSUME NEW p \in Profiles, NEW l \in Layers, add_layer(p, l) PROVE IInv'
  BY <1>0, <1>5, AddLayerType, EditInv DEF add_layer
<1>6. ASSUME NEW p \in Profiles, NEW l \in Layers, remove_layer(p, l) PROVE IInv'
  BY <1>0, <1>6, RemoveLayerType, EditInv DEF remove_layer, CanRemoveLayer
<1>7. ASSUME NEW p \in Profiles, NEW l \in Layers, NEW m \in Layers, rename_layer(p, l, m)
      PROVE  IInv'
  <2>1. RenameLayer(working, p, l, m) \in Configs
    BY <1>0, <1>7, RenameLayerType DEF rename_layer, CanRenameLayer
  <2>2. [what |-> "layer", owner |-> p, before |-> l, after |-> m] \in Renames
    BY DEF Renames
  <2> QED BY <1>7, <2>1, <2>2, RenameInv DEF rename_layer
<1>8. ASSUME NEW l \in Layers, set_initial_layer(l) PROVE IInv'
  <2>1. [working EXCEPT !.initial = l] \in Configs
    BY <1>0, ConfigParts
  <2> QED BY <1>8, <2>1, EditInv DEF set_initial_layer
<1> QED BY <1>1, <1>2, <1>3, <1>4, <1>5, <1>6, <1>7, <1>8 DEF Restructure

LEMMA RemapInv == IInv /\ Remap => IInv'
<1> SUFFICES ASSUME IInv, NEW p \in Profiles, NEW l \in Layers, NEW k \in Controls,
                    clear_action(p, l, k) \/ \E a \in Actions : set_action(p, l, k, a)
             PROVE  IInv'
  BY DEF Remap
<1>0. working \in Configs
  BY DEF IInv, TypeOK
<1>1. CASE clear_action(p, l, k)
  BY <1>0, <1>1, SetActionType, EditInv DEF clear_action
<1>2. ASSUME NEW a \in Actions, set_action(p, l, k, a) PROVE IInv'
  BY <1>0, <1>2, SetActionType, EditInv DEF set_action
<1> QED BY <1>1, <1>2

LEMMA FilesInv == IInv /\ (SaveAndReload \/ Recover) => IInv'
<1> SUFFICES ASSUME IInv, SaveAndReload \/ Recover PROVE IInv'
  OBVIOUS
<1>1. Written(working) \in Configs
  BY WrittenType DEF IInv, TypeOK
<1>2. <<>> \in Seq(Renames)
  OBVIOUS
<1>3. CASE SaveAndReload
  <2>1. TypeOK'
    BY <1>1, <1>2, <1>3 DEF TypeOK, SaveAndReload
  <2>2. CleanIsUnchanged'
    BY <1>3, Zenon DEF CleanIsUnchanged, SaveAndReload
  <2> QED BY <2>1, <2>2 DEF IInv
<1>4. CASE Recover
  <2>1. TypeOK'
    BY <1>1, <1>2, <1>4 DEF IInv, TypeOK, Recover
  <2>2. CleanIsUnchanged'
    BY <1>4, Zenon DEF IInv, CleanIsUnchanged, Recover
  <2> QED BY <2>1, <2>2 DEF IInv
<1> QED BY <1>3, <1>4

(* Invariance. IInv is inductive as it stands.                             *)
LEMMA Invariance == Spec => []IInv
<1>1. Init => IInv
  <2> SUFFICES ASSUME Init PROVE IInv
    OBVIOUS
  <2>1. <<>> \in Seq(Renames)
    OBVIOUS
  <2>2. TypeOK
    BY <2>1, ConfigDraftAssumption, IsConfigShape DEF Init, TypeOK
  <2>3. CleanIsUnchanged
    BY Zenon DEF Init, CleanIsUnchanged
  <2> QED BY <2>2, <2>3 DEF IInv
<1>2. IInv /\ [Next]_vars => IInv'
  <2>1. IInv /\ UNCHANGED vars => IInv'
    BY DEF IInv, TypeOK, CleanIsUnchanged, vars
  <2> QED BY <2>1, RestructureInv, RemapInv, FilesInv DEF Next
<1> QED BY <1>1, <1>2, PTL DEF Spec

(* Whatever the edits, saves and recoveries, both configurations use only  *)
(* profiles, layers, controls and actions that exist, and renames are      *)
(* recorded in the form the difference reads (draft.py, diff.py).          *)
THEOREM TypeCorrect == Spec => []TypeOK
BY Invariance, PTL DEF IInv

(* A draft that is not marked dirty is the file, so that the session loses *)
(* nothing when it leaves such a draft without a recovery (session.py:262).*)
THEOREM CleanIsAlwaysUnchanged == Spec => []CleanIsUnchanged
BY Invariance, PTL DEF IInv

-----------------------------------------------------------------------------
(* The edits of profiles and layers, and the names in the configuration.   *)
LEMMA SlotsAre ==
  ASSUME NEW c \in Configs, NEW p, NEW l, NEW k
  PROVE  <<p, l, k>> \in Slots(c) <=>
           /\ p \in DOMAIN c.profiles
           /\ l \in DOMAIN c.profiles[p]
           /\ k \in DOMAIN c.profiles[p][l]
<1>1. p \in DOMAIN c.profiles => p \in Profiles
  BY ConfigShape
<1>2. p \in DOMAIN c.profiles /\ l \in DOMAIN c.profiles[p] =>
        l \in Layers /\ DOMAIN c.profiles[p][l] \subseteq Controls
  BY LayerShape
<1> QED BY <1>1, <1>2 DEF Slots

(* Resolved, by profile, layer and control.                                *)
LEMMA ResolvedIs ==
  ASSUME NEW c \in Configs
  PROVE  Resolved(c) <=>
           /\ c.default \in DOMAIN c.profiles
           /\ \A p \in DOMAIN c.profiles : \A l \in DOMAIN c.profiles[p] :
                \A k \in DOMAIN c.profiles[p][l] :
                  LET a == c.profiles[p][l][k]
                  IN  /\ a.kind = "set_profile" => a.target \in DOMAIN c.profiles
                      /\ a.kind = "set_layer" => a.target \in DOMAIN c.profiles[p]
<1>1. \A s \in Slots(c) : s = <<s[1], s[2], s[3]>> /\ <<s[1], s[2], s[3]>> \in Slots(c)
  BY DEF Slots
<1>2. ASSUME NEW p, NEW l, NEW k
      PROVE  TargetExists(c, <<p, l, k>>) <=>
               LET a == c.profiles[p][l][k]
               IN  /\ a.kind = "set_profile" => a.target \in DOMAIN c.profiles
                   /\ a.kind = "set_layer" => a.target \in DOMAIN c.profiles[p]
  BY DEF TargetExists, ActionAt
<1>3. ASSUME Resolved(c), NEW p \in DOMAIN c.profiles, NEW l \in DOMAIN c.profiles[p],
             NEW k \in DOMAIN c.profiles[p][l]
      PROVE  TargetExists(c, <<p, l, k>>)
  BY <1>3, SlotsAre DEF Resolved
<1>4. ASSUME NEW s \in Slots(c),
             \A p \in DOMAIN c.profiles : \A l \in DOMAIN c.profiles[p] :
               \A k \in DOMAIN c.profiles[p][l] : TargetExists(c, <<p, l, k>>)
      PROVE  TargetExists(c, s)
  <2>1. s[1] \in DOMAIN c.profiles /\ s[2] \in DOMAIN c.profiles[s[1]]
        /\ s[3] \in DOMAIN c.profiles[s[1]][s[2]]
    BY DEF Slots
  <2>2. TargetExists(c, <<s[1], s[2], s[3]>>)
    BY <1>4, <2>1
  <2> QED BY <1>1, <2>2
<1> QED BY <1>2, <1>3, <1>4 DEF Resolved

(* Profiles that come and go. A new one maps nothing.                      *)
LEMMA AddProfileResolved ==
  ASSUME NEW c \in Configs, Resolved(c), NEW p \in Profiles, p \notin DOMAIN c.profiles
  PROVE  Resolved(AddProfile(c, p))
<1> DEFINE d == AddProfile(c, p)
<1>1. d \in Configs
  BY AddProfileType
<1>2. /\ d.default = c.default
      /\ DOMAIN d.profiles = DOMAIN c.profiles \cup {p}
      /\ DOMAIN d.profiles[p] = {General} /\ DOMAIN d.profiles[p][General] = {}
      /\ \A q \in DOMAIN c.profiles : d.profiles[q] = c.profiles[q]
  BY ConfigShape DEF AddProfile, With, Unmapped
<1> HIDE DEF d
<1>3. Resolved(d)
  BY <1>1, <1>2, ResolvedIs
<1> QED BY <1>3 DEF d

LEMMA RemoveProfileResolved ==
  ASSUME NEW c \in Configs, Resolved(c), NEW p \in Profiles, CanRemoveProfile(c, p)
  PROVE  Resolved(RemoveProfile(c, p))
<1> DEFINE d == RemoveProfile(c, p)
<1>1. d \in Configs
  BY RemoveProfileType
<1>2. /\ d.default = c.default
      /\ DOMAIN d.profiles = DOMAIN c.profiles \ {p}
      /\ \A q \in DOMAIN d.profiles : d.profiles[q] = c.profiles[q]
  BY ConfigShape DEF RemoveProfile, Without, Restrict
<1>3. ASSUME NEW q \in DOMAIN c.profiles, NEW l \in DOMAIN c.profiles[q],
             NEW k \in DOMAIN c.profiles[q][l]
      PROVE  ~SetsProfile(c.profiles[q][l][k], p)
  <2>1. <<q, l, k>> \in Slots(c)
    BY SlotsAre
  <2> QED BY <2>1 DEF CanRemoveProfile, ProfileRefs, ActionAt
<1>4. c.default # p
  BY DEF CanRemoveProfile
<1> HIDE DEF d
<1>5. Resolved(d)
  BY <1>1, <1>2, <1>3, <1>4, ResolvedIs DEF SetsProfile
<1> QED BY <1>5 DEF d

LEMMA DefaultResolved ==
  ASSUME NEW c \in Configs, Resolved(c), NEW p \in DOMAIN c.profiles
  PROVE  Resolved([c EXCEPT !.default = p])
<1> DEFINE d == [c EXCEPT !.default = p]
<1>1. d \in Configs /\ d.default = p /\ d.profiles = c.profiles
  BY ConfigShape, ConfigParts
<1> HIDE DEF d
<1>2. Resolved(d)
  BY <1>1, ResolvedIs
<1> QED BY <1>2 DEF d

(* What a renamed profile was called before.                               *)
Was(x, old, new) == IF x = new THEN old ELSE x

LEMMA RenamedProfile ==
  ASSUME NEW c \in Configs, NEW old \in DOMAIN c.profiles, NEW new \in Profiles
  PROVE  LET d == RenameProfile(c, old, new)
         IN  /\ DOMAIN d.profiles = (DOMAIN c.profiles \ {old}) \cup {new}
             /\ d.default = IF c.default = old THEN new ELSE c.default
             /\ \A p \in DOMAIN d.profiles :
                  LET q == Was(p, old, new)
                  IN  /\ DOMAIN d.profiles[p] = DOMAIN c.profiles[q]
                      /\ \A l \in DOMAIN d.profiles[p] :
                           /\ DOMAIN d.profiles[p][l] = DOMAIN c.profiles[q][l]
                           /\ \A k \in DOMAIN d.profiles[p][l] :
                                d.profiles[p][l][k] = RetargetProfile(c.profiles[q][l][k], old, new)
<1> DEFINE d == RenameProfile(c, old, new)
           moved == Rekeyed(c.profiles, old, new)
<1>1. /\ d.profiles = [p \in DOMAIN moved |-> [l \in DOMAIN moved[p] |->
                         [k \in DOMAIN moved[p][l] |->
                            RetargetProfile(moved[p][l][k], old, new)]]]
      /\ d.default = IF c.default = old THEN new ELSE c.default
  BY ConfigShape DEF RenameProfile
<1>2. /\ DOMAIN moved = (DOMAIN c.profiles \ {old}) \cup {new}
      /\ \A p \in DOMAIN moved : moved[p] = c.profiles[Was(p, old, new)]
  BY DEF Rekeyed, Was
<1> HIDE DEF d, moved
<1>3. \A p \in DOMAIN d.profiles :
        /\ DOMAIN d.profiles[p] = DOMAIN c.profiles[Was(p, old, new)]
        /\ \A l \in DOMAIN d.profiles[p] :
             /\ DOMAIN d.profiles[p][l] = DOMAIN c.profiles[Was(p, old, new)][l]
             /\ \A k \in DOMAIN d.profiles[p][l] :
                  d.profiles[p][l][k] =
                    RetargetProfile(c.profiles[Was(p, old, new)][l][k], old, new)
  BY <1>1, <1>2
<1> QED BY <1>1, <1>2, <1>3 DEF d

LEMMA RenamedLayer ==
  ASSUME NEW c \in Configs, NEW p \in DOMAIN c.profiles, NEW old \in DOMAIN c.profiles[p],
         NEW new \in Layers
  PROVE  LET d == RenameLayer(c, p, old, new)
         IN  /\ d.default = c.default
             /\ DOMAIN d.profiles = DOMAIN c.profiles
             /\ \A q \in DOMAIN c.profiles : q # p => d.profiles[q] = c.profiles[q]
             /\ DOMAIN d.profiles[p] = (DOMAIN c.profiles[p] \ {old}) \cup {new}
             /\ \A l \in DOMAIN d.profiles[p] :
                  LET m == Was(l, old, new)
                  IN  /\ m \in DOMAIN c.profiles[p]
                      /\ DOMAIN d.profiles[p][l] = DOMAIN c.profiles[p][m]
                      /\ \A k \in DOMAIN d.profiles[p][l] :
                           d.profiles[p][l][k] = RetargetLayer(c.profiles[p][m][k], old, new)
<1> DEFINE d == RenameLayer(c, p, old, new)
           moved == Rekeyed(c.profiles[p], old, new)
<1>1. /\ d.default = c.default
      /\ DOMAIN d.profiles = DOMAIN c.profiles
      /\ \A q \in DOMAIN c.profiles : q # p => d.profiles[q] = c.profiles[q]
      /\ d.profiles[p] = [l \in DOMAIN moved |-> [k \in DOMAIN moved[l] |->
                            RetargetLayer(moved[l][k], old, new)]]
  BY ConfigShape DEF RenameLayer
<1>2. /\ DOMAIN moved = (DOMAIN c.profiles[p] \ {old}) \cup {new}
      /\ \A l \in DOMAIN moved : /\ moved[l] = c.profiles[p][Was(l, old, new)]
                                  /\ Was(l, old, new) \in DOMAIN c.profiles[p]
  BY DEF Rekeyed, Was
<1> HIDE DEF d, moved
<1>3. \A l \in DOMAIN d.profiles[p] :
        /\ DOMAIN d.profiles[p][l] = DOMAIN c.profiles[p][Was(l, old, new)]
        /\ \A k \in DOMAIN d.profiles[p][l] :
             d.profiles[p][l][k] = RetargetLayer(c.profiles[p][Was(l, old, new)][k], old, new)
  BY <1>1, <1>2
<1> QED BY <1>1, <1>2, <1>3 DEF d

(* A rename moves what was called old to new, and every action that set    *)
(* old now sets new.                                                       *)
LEMMA RenameProfileResolved ==
  ASSUME NEW c \in Configs, Resolved(c), NEW old \in Profiles, NEW new \in Profiles,
         CanRenameProfile(c, old, new)
  PROVE  Resolved(RenameProfile(c, old, new))
<1> DEFINE d == RenameProfile(c, old, new)
<1>1. old \in DOMAIN c.profiles /\ new \notin DOMAIN c.profiles
  BY DEF CanRenameProfile
<1>2. d \in Configs
  BY <1>1, RenameProfileType
<1>3. /\ DOMAIN d.profiles = (DOMAIN c.profiles \ {old}) \cup {new}
      /\ d.default = IF c.default = old THEN new ELSE c.default
      /\ \A p \in DOMAIN d.profiles :
           /\ DOMAIN d.profiles[p] = DOMAIN c.profiles[Was(p, old, new)]
           /\ \A l \in DOMAIN d.profiles[p] :
                /\ DOMAIN d.profiles[p][l] = DOMAIN c.profiles[Was(p, old, new)][l]
                /\ \A k \in DOMAIN d.profiles[p][l] :
                     d.profiles[p][l][k] =
                       RetargetProfile(c.profiles[Was(p, old, new)][l][k], old, new)
  BY <1>1, RenamedProfile
<1>4. \A p \in DOMAIN d.profiles : Was(p, old, new) \in DOMAIN c.profiles
  BY <1>1, <1>3 DEF Was
<1> HIDE DEF d
<1>5. d.default \in DOMAIN d.profiles
  BY <1>1, <1>3, ResolvedIs
<1>6. ASSUME NEW p \in DOMAIN d.profiles, NEW l \in DOMAIN d.profiles[p],
             NEW k \in DOMAIN d.profiles[p][l]
      PROVE  LET a == d.profiles[p][l][k]
             IN  /\ a.kind = "set_profile" => a.target \in DOMAIN d.profiles
                 /\ a.kind = "set_layer" => a.target \in DOMAIN d.profiles[p]
  <2> DEFINE b == c.profiles[Was(p, old, new)][l][k]
  <2>1. Was(p, old, new) \in DOMAIN c.profiles /\ l \in DOMAIN c.profiles[Was(p, old, new)]
        /\ k \in DOMAIN c.profiles[Was(p, old, new)][l]
    BY <1>3, <1>4
  <2>2. b \in Actions
    BY <2>1, LayerShape
  <2>3. /\ b.kind = "set_profile" => b.target \in DOMAIN c.profiles
        /\ b.kind = "set_layer" => b.target \in DOMAIN c.profiles[Was(p, old, new)]
    BY <2>1, ResolvedIs
  <2>4. d.profiles[p][l][k] = RetargetProfile(b, old, new)
    BY <1>3
  <2>5. DOMAIN d.profiles[p] = DOMAIN c.profiles[Was(p, old, new)]
    BY <1>3
  <2> HIDE DEF b
  <2>6. b = [kind |-> b.kind, target |-> b.target]
    BY <2>2, DraftAssumption
  <2>7. CASE SetsProfile(b, old)
    <3>1. RetargetProfile(b, old, new) = [kind |-> "set_profile", target |-> new]
      BY <2>6, <2>7 DEF RetargetProfile, SetsProfile
    <3> QED BY <1>3, <2>4, <3>1
  <2>8. CASE ~SetsProfile(b, old)
    <3>1. RetargetProfile(b, old, new) = b
      BY <2>8 DEF RetargetProfile
    <3> QED BY <1>3, <2>3, <2>4, <2>5, <2>8, <3>1 DEF SetsProfile
  <2> QED BY <2>7, <2>8
<1>7. Resolved(d)
  BY <1>2, <1>5, <1>6, ResolvedIs
<1> QED BY <1>7 DEF d

(* Layers that come and go. The other profiles keep theirs.                *)
LEMMA AddLayerResolved ==
  ASSUME NEW c \in Configs, Resolved(c), NEW p \in DOMAIN c.profiles, NEW l \in Layers,
         l \notin DOMAIN c.profiles[p]
  PROVE  Resolved(AddLayer(c, p, l))
<1> DEFINE d == AddLayer(c, p, l)
<1>1. d \in Configs
  BY AddLayerType
<1>2. /\ d.default = c.default
      /\ DOMAIN d.profiles = DOMAIN c.profiles
      /\ \A q \in DOMAIN c.profiles : q # p => d.profiles[q] = c.profiles[q]
      /\ d.profiles[p] = With(c.profiles[p], l, Unmapped)
  BY ConfigShape DEF AddLayer
<1>3. /\ DOMAIN d.profiles[p] = DOMAIN c.profiles[p] \cup {l}
      /\ DOMAIN d.profiles[p][l] = {}
      /\ \A m \in DOMAIN c.profiles[p] : d.profiles[p][m] = c.profiles[p][m]
  BY <1>2 DEF With, Unmapped
<1> HIDE DEF d
<1>4. Resolved(d)
  BY <1>1, <1>2, <1>3, ResolvedIs
<1> QED BY <1>4 DEF d

LEMMA RemoveLayerResolved ==
  ASSUME NEW c \in Configs, Resolved(c), NEW p \in Profiles, NEW l \in Layers,
         CanRemoveLayer(c, p, l)
  PROVE  Resolved(RemoveLayer(c, p, l))
<1> DEFINE d == RemoveLayer(c, p, l)
<1>0. p \in DOMAIN c.profiles
  BY DEF CanRemoveLayer
<1>1. d \in Configs
  BY <1>0, RemoveLayerType
<1>2. /\ d.default = c.default
      /\ DOMAIN d.profiles = DOMAIN c.profiles
      /\ \A q \in DOMAIN c.profiles : q # p => d.profiles[q] = c.profiles[q]
      /\ d.profiles[p] = Without(c.profiles[p], l)
  BY <1>0, ConfigShape DEF RemoveLayer
<1>3. /\ DOMAIN d.profiles[p] = DOMAIN c.profiles[p] \ {l}
      /\ \A m \in DOMAIN d.profiles[p] : d.profiles[p][m] = c.profiles[p][m]
  BY <1>2 DEF Without, Restrict
<1>4. ASSUME NEW q \in DOMAIN c.profiles, NEW m \in DOMAIN c.profiles[q],
             NEW k \in DOMAIN c.profiles[q][m]
      PROVE  ~SetsLayer(c.profiles[q][m][k], l)
  <2>1. <<q, m, k>> \in Slots(c)
    BY SlotsAre
  <2> QED BY <2>1 DEF CanRemoveLayer, LayerRefs, ActionAt
<1> HIDE DEF d
<1>5. Resolved(d)
  BY <1>0, <1>1, <1>2, <1>3, <1>4, ResolvedIs DEF SetsLayer
<1> QED BY <1>5 DEF d

LEMMA InitialResolved ==
  ASSUME NEW c \in Configs, Resolved(c), NEW l \in Layers
  PROVE  Resolved([c EXCEPT !.initial = l])
<1> DEFINE d == [c EXCEPT !.initial = l]
<1>1. d \in Configs /\ d.default = c.default /\ d.profiles = c.profiles
  BY ConfigShape, ConfigParts
<1> HIDE DEF d
<1>2. Resolved(d)
  BY <1>1, ResolvedIs
<1> QED BY <1>2 DEF d

(* Only the renamed layer's profile is rewritten: a layer is switched to   *)
(* by its number in whatever profile is selected, and elsewhere the number *)
(* stands for that profile's own layer.                                    *)
LEMMA RenameLayerResolved ==
  ASSUME NEW c \in Configs, Resolved(c), NEW p \in Profiles, NEW old \in Layers,
         NEW new \in Layers, CanRenameLayer(c, p, old, new)
  PROVE  Resolved(RenameLayer(c, p, old, new))
<1> DEFINE d == RenameLayer(c, p, old, new)
<1>1. p \in DOMAIN c.profiles /\ old \in DOMAIN c.profiles[p] /\ new \notin DOMAIN c.profiles[p]
  BY DEF CanRenameLayer
<1>2. d \in Configs
  BY <1>1, RenameLayerType
<1>3. /\ d.default = c.default
      /\ DOMAIN d.profiles = DOMAIN c.profiles
      /\ \A q \in DOMAIN c.profiles : q # p => d.profiles[q] = c.profiles[q]
      /\ DOMAIN d.profiles[p] = (DOMAIN c.profiles[p] \ {old}) \cup {new}
      /\ \A l \in DOMAIN d.profiles[p] :
           /\ Was(l, old, new) \in DOMAIN c.profiles[p]
           /\ DOMAIN d.profiles[p][l] = DOMAIN c.profiles[p][Was(l, old, new)]
           /\ \A k \in DOMAIN d.profiles[p][l] :
                d.profiles[p][l][k] = RetargetLayer(c.profiles[p][Was(l, old, new)][k], old, new)
  BY <1>1, RenamedLayer
<1> HIDE DEF d
<1>4. ASSUME NEW l \in DOMAIN d.profiles[p], NEW k \in DOMAIN d.profiles[p][l]
      PROVE  LET a == d.profiles[p][l][k]
             IN  /\ a.kind = "set_profile" => a.target \in DOMAIN d.profiles
                 /\ a.kind = "set_layer" => a.target \in DOMAIN d.profiles[p]
  <2> DEFINE b == c.profiles[p][Was(l, old, new)][k]
  <2>1. /\ Was(l, old, new) \in DOMAIN c.profiles[p]
        /\ k \in DOMAIN c.profiles[p][Was(l, old, new)]
        /\ d.profiles[p][l][k] = RetargetLayer(b, old, new)
    BY <1>3
  <2>2. b \in Actions
    BY <1>1, <2>1, LayerShape
  <2>3. /\ b.kind = "set_profile" => b.target \in DOMAIN c.profiles
        /\ b.kind = "set_layer" => b.target \in DOMAIN c.profiles[p]
    BY <1>1, <2>1, ResolvedIs
  <2>4. DOMAIN d.profiles[p] = (DOMAIN c.profiles[p] \ {old}) \cup {new}
    BY <1>3
  <2> HIDE DEF b
  <2>5. b = [kind |-> b.kind, target |-> b.target]
    BY <2>2, DraftAssumption
  <2>6. CASE SetsLayer(b, old)
    <3>1. RetargetLayer(b, old, new) = [kind |-> "set_layer", target |-> new]
      BY <2>5, <2>6 DEF RetargetLayer, SetsLayer
    <3> QED BY <2>1, <2>4, <3>1
  <2>7. CASE ~SetsLayer(b, old)
    <3>1. RetargetLayer(b, old, new) = b
      BY <2>7 DEF RetargetLayer
    <3> QED BY <1>3, <2>1, <2>3, <2>4, <2>7, <3>1 DEF SetsLayer
  <2> QED BY <2>6, <2>7
<1>5. Resolved(d)
  BY <1>1, <1>2, <1>3, <1>4, ResolvedIs
<1> QED BY <1>5 DEF d

(* No edit of profiles and layers leaves a name that is gone in an action  *)
(* or in the default profile, however edits, saves and recoveries follow   *)
(* each other (draft.py, the eight structural edits).                      *)
THEOREM NamesAlwaysResolved == Spec => NamesStayResolved
<1>1. ASSUME IInv, Restructure, Resolved(working) PROVE Resolved(working')
  <2>0. working \in Configs /\ DOMAIN working.profiles \subseteq Profiles
    BY <1>1, ConfigShape DEF IInv, TypeOK
  <2>1. ASSUME NEW p \in Profiles, add_profile(p) PROVE Resolved(working')
    BY <1>1, <2>0, <2>1, AddProfileResolved DEF add_profile, Edit
  <2>2. ASSUME NEW p \in Profiles, remove_profile(p) PROVE Resolved(working')
    BY <1>1, <2>0, <2>2, RemoveProfileResolved DEF remove_profile, Edit
  <2>3. ASSUME NEW p \in Profiles, set_default_profile(p) PROVE Resolved(working')
    BY <1>1, <2>0, <2>3, DefaultResolved DEF set_default_profile, Edit
  <2>4. ASSUME NEW p \in Profiles, NEW q \in Profiles, rename_profile(p, q)
        PROVE  Resolved(working')
    BY <1>1, <2>0, <2>4, RenameProfileResolved DEF rename_profile, Rename
  <2>5. ASSUME NEW p \in Profiles, NEW l \in Layers, add_layer(p, l) PROVE Resolved(working')
    BY <1>1, <2>0, <2>5, AddLayerResolved DEF add_layer, Edit
  <2>6. ASSUME NEW p \in Profiles, NEW l \in Layers, remove_layer(p, l) PROVE Resolved(working')
    BY <1>1, <2>0, <2>6, RemoveLayerResolved DEF remove_layer, Edit
  <2>7. ASSUME NEW p \in Profiles, NEW l \in Layers, NEW m \in Layers, rename_layer(p, l, m)
        PROVE  Resolved(working')
    BY <1>1, <2>0, <2>7, RenameLayerResolved DEF rename_layer, Rename
  <2>8. ASSUME NEW l \in Layers, set_initial_layer(l) PROVE Resolved(working')
    BY <1>1, <2>0, <2>8, InitialResolved DEF set_initial_layer, Edit
  <2> QED BY <1>1, <2>1, <2>2, <2>3, <2>4, <2>5, <2>6, <2>7, <2>8 DEF Restructure
<1>2. IInv /\ [Next]_vars => [Restructure /\ Resolved(working) => Resolved(working')]_vars
  BY <1>1
<1> QED BY <1>2, Invariance, PTL DEF Spec, NamesStayResolved

-----------------------------------------------------------------------------
(* The alignment of the file with the renames, one record after another.   *)
Steps(f, b, rs, m) ==
  f = [n \in 0 .. m |-> IF n = 0 THEN b ELSE AlignedWith(f[n - 1], rs[n])]

LEMMA AlignedIs ==
  ASSUME NEW b, NEW rs
  PROVE  Aligned(b, rs) = (CHOOSE f : Steps(f, b, rs, Len(rs)))[Len(rs)]
BY DEF Aligned, Steps

(* A set of numbers that is not empty has a least one.                     *)
LEMMA Smallest ==
  ASSUME NEW S \in SUBSET Nat, S # {}
  PROVE  \E x \in S : \A y \in Nat : y < x => y \notin S
<1> DEFINE LT == {ss \in Nat \X Nat : ss[1] < ss[2]}
<1>1. IsWellFoundedOn(LT, Nat)
  BY NatLessThanWellFounded DEF OpToRel
<1>2. PICK x \in S : \A y \in S : ~ (<<y, x>> \in LT)
  <2> HIDE DEF LT
  <2> QED BY <1>1, WFMin
<1>3. ASSUME NEW y \in Nat, y < x
      PROVE  y \notin S
  <2>1. <<y, x>> \in Nat \X Nat /\ <<y, x>>[1] < <<y, x>>[2]
    BY <1>3
  <2>2. <<y, x>> \in LT
    BY <2>1, Zenon
  <2> QED BY <1>2, <2>2
<1> QED BY <1>3

LEMMA StepsExist ==
  ASSUME NEW b, NEW rs, NEW m \in Nat
  PROVE  \E f : Steps(f, b, rs, m)
<1> DEFINE S == {n \in Nat : ~ \E f : Steps(f, b, rs, n)}
<1>1. SUFFICES ASSUME S # {} PROVE FALSE
  OBVIOUS
<1>2. PICK n \in S : \A y \in Nat : y < n => y \notin S
  BY <1>1, Smallest
<1>3. CASE n = 0
  <2>1. Steps([i \in 0 .. 0 |-> b], b, rs, 0)
    BY DEF Steps
  <2> QED BY <1>3, <2>1
<1>4. CASE n # 0
  <2>1. n - 1 \in Nat /\ n - 1 < n
    BY <1>4
  <2>2. PICK f : Steps(f, b, rs, n - 1)
    BY <1>2, <2>1
  <2> DEFINE g == [i \in 0 .. n |-> IF i = n THEN AlignedWith(f[n - 1], rs[n]) ELSE f[i]]
  <2>3. \A i \in 0 .. n - 1 : f[i] = IF i = 0 THEN b ELSE AlignedWith(f[i - 1], rs[i])
    BY <2>2 DEF Steps
  <2>4. \A i \in 0 .. n : g[i] = IF i = 0 THEN b ELSE AlignedWith(g[i - 1], rs[i])
    <3> SUFFICES ASSUME NEW i \in 0 .. n
                 PROVE  g[i] = IF i = 0 THEN b ELSE AlignedWith(g[i - 1], rs[i])
      OBVIOUS
    <3>1. CASE i = n
      BY <1>4, <3>1
    <3>2. CASE i # n
      <4>1. i \in 0 .. n - 1 /\ (i # 0 => i - 1 \in 0 .. n /\ i - 1 # n)
        BY <3>2
      <4>2. g[i] = f[i] /\ (i # 0 => g[i - 1] = f[i - 1])
        BY <3>2, <4>1
      <4> QED BY <2>3, <4>1, <4>2
    <3> QED BY <3>1, <3>2
  <2>5. g = [i \in 0 .. n |-> g[i]]
    OBVIOUS
  <2> HIDE DEF g
  <2>6. Steps(g, b, rs, n)
    BY <2>4, <2>5 DEF Steps
  <2> QED BY <2>6
<1> QED BY <1>3, <1>4

(* Without a rename there is nothing to align, and the last rename is      *)
(* applied to what the earlier ones made.                                  *)
LEMMA AlignedEmpty ==
  ASSUME NEW b
  PROVE  Aligned(b, <<>>) = b
<1> DEFINE f == CHOOSE g : Steps(g, b, <<>>, 0)
<1>1. Steps(f, b, <<>>, 0)
  <2>1. \E g : Steps(g, b, <<>>, 0)
    BY StepsExist
  <2> QED BY <2>1, Zenon
<1>2. f[0] = b
  <2> HIDE DEF f
  <2> QED BY <1>1 DEF Steps
<1>3. Len(<<>>) = 0
  OBVIOUS
<1> QED BY <1>2, <1>3, AlignedIs

LEMMA AlignedAppend ==
  ASSUME NEW b, NEW rs \in Seq(Renames), NEW r \in Renames
  PROVE  Aligned(b, Append(rs, r)) = AlignedWith(Aligned(b, rs), r)
<1> DEFINE L == Len(rs)
           more == Append(rs, r)
           f == CHOOSE h : Steps(h, b, rs, L)
           g == CHOOSE h : Steps(h, b, more, L + 1)
<1>1. L \in Nat /\ Len(more) = L + 1 /\ more[L + 1] = r /\ \A i \in 1 .. L : more[i] = rs[i]
  OBVIOUS
<1>2. Aligned(b, rs) = f[L] /\ Aligned(b, more) = g[L + 1]
  BY <1>1, AlignedIs
<1>3. Steps(f, b, rs, L) /\ Steps(g, b, more, L + 1)
  <2>1. L + 1 \in Nat
    BY <1>1
  <2>2. (\E h : Steps(h, b, rs, L)) /\ \E h : Steps(h, b, more, L + 1)
    BY <1>1, <2>1, StepsExist
  <2> QED BY <2>2, Zenon
<1> HIDE DEF L, more, f, g
<1>4. \A i \in 0 .. L : f[i] = IF i = 0 THEN b ELSE AlignedWith(f[i - 1], rs[i])
  BY <1>3 DEF Steps
<1>5. \A i \in 0 .. L + 1 : g[i] = IF i = 0 THEN b ELSE AlignedWith(g[i - 1], more[i])
  BY <1>3 DEF Steps
<1> DEFINE S == {i \in Nat : i <= L /\ f[i] # g[i]}
<1>6. S = {}
  <2> SUFFICES ASSUME S # {} PROVE FALSE
    OBVIOUS
  <2>1. PICK i \in S : \A y \in Nat : y < i => y \notin S
    BY Smallest
  <2>2. i \in 0 .. L /\ i \in 0 .. L + 1 /\ f[i] # g[i]
    BY <1>1, <2>1
  <2>3. CASE i = 0
    BY <1>4, <1>5, <2>2, <2>3
  <2>4. CASE i # 0
    <3>1. i - 1 \in Nat /\ i - 1 < i /\ i - 1 <= L /\ i \in 1 .. L
      BY <1>1, <2>2, <2>4
    <3>2. f[i - 1] = g[i - 1]
      BY <2>1, <3>1
    <3>3. f[i] = AlignedWith(f[i - 1], rs[i]) /\ g[i] = AlignedWith(g[i - 1], more[i])
      BY <1>4, <1>5, <2>2, <2>4
    <3> QED BY <1>1, <2>2, <3>1, <3>2, <3>3
  <2> QED BY <2>3, <2>4
<1>7. f[L] = g[L]
  BY <1>1, <1>6
<1>8. L + 1 \in 0 .. L + 1 /\ L + 1 # 0 /\ (L + 1) - 1 = L
  BY <1>1
<1>9. g[L + 1] = AlignedWith(g[L], more[L + 1])
  BY <1>5, <1>8
<1> QED BY <1>1, <1>2, <1>7, <1>9 DEF more

-----------------------------------------------------------------------------
(* Two configurations without a difference are one.                        *)
LEMMA NoLayerChanges ==
  ASSUME NEW c \in Configs, NEW d \in Configs, NEW p \in DOMAIN c.profiles, p \in DOMAIN d.profiles,
         LayerChanges(p, c.profiles[p], d.profiles[p]) = {}
  PROVE  c.profiles[p] = d.profiles[p]
<1> DEFINE x == c.profiles[p]
           y == d.profiles[p]
<1>1. /\ x \in [DOMAIN x -> LayerMaps] /\ y \in [DOMAIN y -> LayerMaps]
      /\ \A l \in DOMAIN x : x[l] \in [DOMAIN x[l] -> Actions]
      /\ \A l \in DOMAIN y : y[l] \in [DOMAIN y[l] -> Actions]
  BY LayerShape
<1> HIDE DEF x, y
<1>2. LayerChanges(p, x, y) = {}
  BY DEF x, y
<1>3. DOMAIN x = DOMAIN y
  <2>1. \A l \in DOMAIN x \ DOMAIN y : Change("layer_removed", <<p, l>>) \in LayerChanges(p, x, y)
    BY DEF LayerChanges
  <2>2. \A l \in DOMAIN y \ DOMAIN x : Change("layer_added", <<p, l>>) \in LayerChanges(p, x, y)
    BY DEF LayerChanges
  <2> QED BY <1>2, <2>1, <2>2
<1>4. ASSUME NEW l \in DOMAIN x PROVE x[l] = y[l]
  <2>1. ControlChanges(p, l, x[l], y[l]) = {}
    BY <1>2, <1>3 DEF LayerChanges
  <2>2. /\ \A k \in DOMAIN y[l] \ DOMAIN x[l] :
             Change("control_mapped", <<p, l, k>>) \in ControlChanges(p, l, x[l], y[l])
        /\ \A k \in DOMAIN x[l] \ DOMAIN y[l] :
             Change("control_unmapped", <<p, l, k>>) \in ControlChanges(p, l, x[l], y[l])
        /\ \A k \in DOMAIN x[l] \cap DOMAIN y[l] : x[l][k] # y[l][k] =>
             Change("control_action_changed", <<p, l, k>>) \in ControlChanges(p, l, x[l], y[l])
    BY DEF ControlChanges
  <2>3. DOMAIN x[l] = DOMAIN y[l]
    BY <2>1, <2>2
  <2>4. \A k \in DOMAIN x[l] : x[l][k] = y[l][k]
    BY <2>1, <2>2, <2>3
  <2>5. x[l] \in [DOMAIN x[l] -> Actions] /\ y[l] \in [DOMAIN x[l] -> Actions]
    BY <1>1, <1>3, <2>3
  <2> QED BY <2>4, <2>5
<1>5. x = y
  BY <1>1, <1>3, <1>4
<1> QED BY <1>5 DEF x, y

LEMMA NoDifference ==
  ASSUME NEW c \in Configs, NEW d \in Configs, DiffConfigs(c, d) = {}
  PROVE  c = d
<1>1. /\ \A p \in DOMAIN c.profiles \ DOMAIN d.profiles :
           Change("profile_removed", <<p>>) \in DiffConfigs(c, d)
      /\ \A p \in DOMAIN d.profiles \ DOMAIN c.profiles :
           Change("profile_added", <<p>>) \in DiffConfigs(c, d)
      /\ \A p \in DOMAIN c.profiles \cap DOMAIN d.profiles :
           LayerChanges(p, c.profiles[p], d.profiles[p]) \subseteq DiffConfigs(c, d)
      /\ c.default # d.default => Change("default_profile_changed", <<>>) \in DiffConfigs(c, d)
      /\ c.initial # d.initial => Change("initial_layer_changed", <<>>) \in DiffConfigs(c, d)
  <2>1. \A p \in DOMAIN c.profiles \ DOMAIN d.profiles :
          Change("profile_removed", <<p>>) \in DiffConfigs(c, d)
    BY DEF DiffConfigs
  <2>2. \A p \in DOMAIN d.profiles \ DOMAIN c.profiles :
          Change("profile_added", <<p>>) \in DiffConfigs(c, d)
    BY DEF DiffConfigs
  <2>3. \A p \in DOMAIN c.profiles \cap DOMAIN d.profiles :
          LayerChanges(p, c.profiles[p], d.profiles[p]) \subseteq DiffConfigs(c, d)
    BY DEF DiffConfigs
  <2>4. c.default # d.default => Change("default_profile_changed", <<>>) \in DiffConfigs(c, d)
    <3>1. (IF c.default # d.default THEN {Change("default_profile_changed", <<>>)} ELSE {})
            \subseteq DiffConfigs(c, d)
      BY Zenon DEF DiffConfigs
    <3> QED BY <3>1, Zenon
  <2>5. c.initial # d.initial => Change("initial_layer_changed", <<>>) \in DiffConfigs(c, d)
    <3>1. (IF c.initial # d.initial THEN {Change("initial_layer_changed", <<>>)} ELSE {})
            \subseteq DiffConfigs(c, d)
      BY Zenon DEF DiffConfigs
    <3> QED BY <3>1, Zenon
  <2> QED BY <2>1, <2>2, <2>3, <2>4, <2>5
<1>2. /\ DOMAIN c.profiles = DOMAIN d.profiles
      /\ c.default = d.default /\ c.initial = d.initial
  BY <1>1
<1>3. \A p \in DOMAIN c.profiles : c.profiles[p] = d.profiles[p]
  BY <1>1, <1>2, NoLayerChanges
<1>4. /\ c.profiles \in [DOMAIN c.profiles -> ProfileMaps]
      /\ d.profiles \in [DOMAIN c.profiles -> ProfileMaps]
  BY <1>2, ConfigShape
<1>5. c.profiles = d.profiles
  BY <1>3, <1>4
<1> QED BY <1>2, <1>5, ConfigShape

(* A draft that differs from the file shows a difference: a rename is one  *)
(* by itself, and without one nothing is aligned or left out.              *)
LEMMA NothingShown ==
  ASSUME NEW c \in Configs, NEW d \in Configs, NEW rs \in Seq(Renames), DiffDraft(c, d, rs) = {}
  PROVE  d = c
<1>1. RenameChanges(rs) = {} /\ {x \in DiffConfigs(Aligned(c, rs), d) : ~TakenForRename(x, rs)} = {}
  BY DEF DiffDraft
<1>2. Shown(rs) = {}
  BY <1>1 DEF RenameChanges
<1>3. rs = <<>>
  <2>1. DOMAIN rs = {}
    BY <1>2 DEF Shown, Range
  <2>2. Len(rs) \in Nat /\ DOMAIN rs = 1 .. Len(rs)
    OBVIOUS
  <2> QED BY <2>1, <2>2
<1>4. \A x : ~TakenForRename(x, rs)
  BY <1>2 DEF TakenForRename
<1>5. DiffConfigs(c, d) = {}
  BY <1>1, <1>3, <1>4, AlignedEmpty
<1> QED BY <1>5, NoDifference

(* Saving what is shown as no difference saves the file as it is, whatever *)
(* was edited, renamed and recovered before (diff.py, diff_draft).         *)
THEOREM EmptyDiffIsAlwaysUnchanged == Spec => []EmptyDiffIsUnchanged
<1>1. IInv => EmptyDiffIsUnchanged
  BY NothingShown DEF IInv, TypeOK, EmptyDiffIsUnchanged
<1> QED BY <1>1, Invariance, PTL

-----------------------------------------------------------------------------
(* While there are only renames, the draft has the profiles of the aligned *)
(* file, and each layer of either is the same layer of the other, with the *)
(* same controls mapped, unless a rename gave up or took on its name.      *)
Gave(rs, l) == \E r \in Shown(rs) : r.what = "layer" /\ r.before = l
Took(rs, l) == \E r \in Shown(rs) : r.what = "layer" /\ r.after = l

Kept(x, y, l) == l \in DOMAIN x /\ l \in DOMAIN y /\ DOMAIN x[l] = DOMAIN y[l]

SameLayers(x, y, rs) ==
  /\ \A l \in DOMAIN x : Kept(x, y, l) \/ Gave(rs, l)
  /\ \A l \in DOMAIN y : Kept(x, y, l) \/ Took(rs, l)

Follows(c, d, rs) ==
  /\ DOMAIN c.profiles = DOMAIN d.profiles
  /\ c.default = d.default
  /\ \A p \in DOMAIN c.profiles : SameLayers(c.profiles[p], d.profiles[p], rs)

LEMMA ShownAppend ==
  ASSUME NEW rs \in Seq(Renames), NEW r \in Renames
  PROVE  Shown(Append(rs, r)) = Shown(rs) \cup {r}
<1> DEFINE more == Append(rs, r)
<1>1. /\ Len(rs) \in Nat /\ DOMAIN rs = 1 .. Len(rs)
      /\ DOMAIN more = 1 .. Len(rs) + 1
      /\ more[Len(rs) + 1] = r /\ \A i \in 1 .. Len(rs) : more[i] = rs[i]
  OBVIOUS
<1> HIDE DEF more
<1>2. DOMAIN more = DOMAIN rs \cup {Len(rs) + 1}
  BY <1>1
<1>3. /\ more[Len(rs) + 1] = r /\ \A i \in DOMAIN rs : more[i] = rs[i]
  BY <1>1
<1>4. {more[i] : i \in DOMAIN more} = {rs[i] : i \in DOMAIN rs} \cup {r}
  BY <1>2, <1>3
<1> QED BY <1>4 DEF Shown, Range, more

LEMMA MoreRecords ==
  ASSUME NEW rs \in Seq(Renames), NEW r \in Renames, NEW l
  PROVE  /\ Gave(rs, l) => Gave(Append(rs, r), l)
         /\ Took(rs, l) => Took(Append(rs, r), l)
BY ShownAppend DEF Gave, Took

LEMMA NothingFollows ==
  ASSUME NEW c \in Configs
  PROVE  Follows(c, c, <<>>)
BY DEF Follows, SameLayers, Kept

(* A rename of a profile is made in the aligned file too.                  *)
LEMMA AlignedProfile ==
  ASSUME NEW c \in Configs, NEW old \in DOMAIN c.profiles, NEW new \in Profiles,
         new \notin DOMAIN c.profiles
  PROVE  LET r == [what |-> "profile", owner |-> old, before |-> old, after |-> new]
             e == AlignedWith(c, r)
         IN  /\ e \in Configs
             /\ DOMAIN e.profiles = (DOMAIN c.profiles \ {old}) \cup {new}
             /\ e.default = IF c.default = old THEN new ELSE c.default
             /\ \A p \in DOMAIN e.profiles : e.profiles[p] = c.profiles[Was(p, old, new)]
<1> DEFINE r == [what |-> "profile", owner |-> old, before |-> old, after |-> new]
           e == AlignedWith(c, r)
           t == With(Without(c.profiles, old), new, c.profiles[old])
           n == IF c.default = old THEN new ELSE c.default
<1>1. r.what = "profile" /\ r.before = old /\ r.after = new
  OBVIOUS
<1>2. t \in Tables
  <2>1. c.profiles[old] \in ProfileMaps /\ c.profiles \in Tables
    BY ConfigShape
  <2> QED BY <2>1, PartialWithout, PartialWith DEF Tables
<1>3. /\ DOMAIN t = (DOMAIN c.profiles \ {old}) \cup {new}
      /\ \A p \in DOMAIN t : t[p] = c.profiles[Was(p, old, new)]
  BY DEF With, Without, Restrict, Was
<1>4. n \in Profiles
  BY ConfigShape
<1> HIDE DEF r, t, n
<1>5. e = [default |-> n, initial |-> c.initial, profiles |-> t]
  <2>1. e = [c EXCEPT !.profiles = t, !.default = n]
    BY <1>1 DEF AlignedWith, n, t
  <2> QED BY <2>1, ConfigShape
<1>6. e \in Configs
  BY <1>2, <1>4, <1>5, ConfigShape, ConfigParts DEF Tables
<1>7. e.profiles = t /\ e.default = n
  BY <1>5
<1> HIDE DEF e
<1>8. /\ e \in Configs
      /\ DOMAIN e.profiles = (DOMAIN c.profiles \ {old}) \cup {new}
      /\ e.default = IF c.default = old THEN new ELSE c.default
      /\ \A p \in DOMAIN e.profiles : e.profiles[p] = c.profiles[Was(p, old, new)]
  BY <1>3, <1>6, <1>7 DEF n
<1> QED BY <1>8 DEF e, r

LEMMA ProfileRenameFollows ==
  ASSUME NEW c \in Configs, NEW d \in Configs, NEW rs \in Seq(Renames), Follows(c, d, rs),
         NEW old \in Profiles, NEW new \in Profiles, CanRenameProfile(d, old, new)
  PROVE  LET r == [what |-> "profile", owner |-> old, before |-> old, after |-> new]
         IN  /\ AlignedWith(c, r) \in Configs
             /\ Follows(AlignedWith(c, r), RenameProfile(d, old, new), Append(rs, r))
<1> DEFINE r == [what |-> "profile", owner |-> old, before |-> old, after |-> new]
           a == AlignedWith(c, r)
           b == RenameProfile(d, old, new)
           more == Append(rs, r)
<1>1. /\ DOMAIN c.profiles = DOMAIN d.profiles /\ c.default = d.default
      /\ old \in DOMAIN c.profiles /\ new \notin DOMAIN c.profiles
  BY DEF Follows, CanRenameProfile
<1>2. /\ a \in Configs
      /\ DOMAIN a.profiles = (DOMAIN c.profiles \ {old}) \cup {new}
      /\ a.default = IF c.default = old THEN new ELSE c.default
      /\ \A p \in DOMAIN a.profiles : a.profiles[p] = c.profiles[Was(p, old, new)]
  BY <1>1, AlignedProfile
<1>3. /\ DOMAIN b.profiles = (DOMAIN d.profiles \ {old}) \cup {new}
      /\ b.default = IF d.default = old THEN new ELSE d.default
      /\ \A p \in DOMAIN b.profiles :
           /\ DOMAIN b.profiles[p] = DOMAIN d.profiles[Was(p, old, new)]
           /\ \A l \in DOMAIN b.profiles[p] :
                DOMAIN b.profiles[p][l] = DOMAIN d.profiles[Was(p, old, new)][l]
  BY <1>1, RenamedProfile
<1>4. r \in Renames
  BY DEF Renames
<1>5. \A l : (Gave(rs, l) => Gave(more, l)) /\ (Took(rs, l) => Took(more, l))
  <2> SUFFICES ASSUME NEW l
               PROVE  (Gave(rs, l) => Gave(more, l)) /\ (Took(rs, l) => Took(more, l))
    OBVIOUS
  <2>1. r \in Renames
    BY <1>4
  <2> HIDE DEF r
  <2> QED BY <2>1, MoreRecords
<1> HIDE DEF a, b, more, r
<1>6. ASSUME NEW p \in DOMAIN a.profiles
      PROVE  SameLayers(a.profiles[p], b.profiles[p], more)
  <2> DEFINE q == Was(p, old, new)
  <2>1. q \in DOMAIN c.profiles /\ p \in DOMAIN b.profiles
    BY <1>1, <1>2, <1>3 DEF Was
  <2>2. SameLayers(c.profiles[q], d.profiles[q], rs)
    BY <2>1 DEF Follows
  <2>3. /\ a.profiles[p] = c.profiles[q]
        /\ DOMAIN b.profiles[p] = DOMAIN d.profiles[q]
        /\ \A l \in DOMAIN b.profiles[p] : DOMAIN b.profiles[p][l] = DOMAIN d.profiles[q][l]
    BY <1>2, <1>3, <2>1
  <2> HIDE DEF q
  <2> QED BY <1>5, <2>2, <2>3 DEF SameLayers, Kept
<1>7. Follows(a, b, more)
  BY <1>1, <1>2, <1>3, <1>6 DEF Follows
<1> QED BY <1>2, <1>7 DEF a, b, more, r

(* A rename of a layer is not: it leaves the aligned file as it is.        *)
LEMMA LayerRenameFollows ==
  ASSUME NEW c \in Configs, NEW d \in Configs, NEW rs \in Seq(Renames), Follows(c, d, rs),
         NEW p \in Profiles, NEW old \in Layers, NEW new \in Layers,
         CanRenameLayer(d, p, old, new)
  PROVE  LET r == [what |-> "layer", owner |-> p, before |-> old, after |-> new]
         IN  /\ AlignedWith(c, r) = c
             /\ Follows(c, RenameLayer(d, p, old, new), Append(rs, r))
<1> DEFINE r == [what |-> "layer", owner |-> p, before |-> old, after |-> new]
           b == RenameLayer(d, p, old, new)
           more == Append(rs, r)
<1>1. /\ DOMAIN c.profiles = DOMAIN d.profiles /\ c.default = d.default
      /\ p \in DOMAIN d.profiles
      /\ old \in DOMAIN d.profiles[p] /\ new \notin DOMAIN d.profiles[p]
  BY DEF Follows, CanRenameLayer
<1>2. /\ b.default = d.default
      /\ DOMAIN b.profiles = DOMAIN d.profiles
      /\ \A q \in DOMAIN d.profiles : q # p => b.profiles[q] = d.profiles[q]
      /\ DOMAIN b.profiles[p] = (DOMAIN d.profiles[p] \ {old}) \cup {new}
      /\ \A l \in DOMAIN b.profiles[p] :
           DOMAIN b.profiles[p][l] = DOMAIN d.profiles[p][Was(l, old, new)]
  BY <1>1, RenamedLayer
<1>3. r \in Renames /\ AlignedWith(c, r) = c
  BY DEF Renames, AlignedWith
<1>4. \A l : (Gave(rs, l) => Gave(more, l)) /\ (Took(rs, l) => Took(more, l))
  <2> SUFFICES ASSUME NEW l
               PROVE  (Gave(rs, l) => Gave(more, l)) /\ (Took(rs, l) => Took(more, l))
    OBVIOUS
  <2>1. r \in Renames
    BY <1>3
  <2> HIDE DEF r
  <2> QED BY <2>1, MoreRecords
<1>5. Gave(more, old) /\ Took(more, new)
  BY <1>3, ShownAppend DEF Gave, Took
<1> HIDE DEF b, more, r
<1>6. ASSUME NEW q \in DOMAIN c.profiles
      PROVE  SameLayers(c.profiles[q], b.profiles[q], more)
  <2>1. SameLayers(c.profiles[q], d.profiles[q], rs)
    BY DEF Follows
  <2>2. CASE q # p
    BY <1>1, <1>2, <1>4, <2>1, <2>2 DEF SameLayers
  <2>3. CASE q = p
    <3> DEFINE x == c.profiles[p]
               y == d.profiles[p]
               z == b.profiles[p]
    <3>1. /\ \A l \in DOMAIN x : Kept(x, y, l) \/ Gave(rs, l)
          /\ \A l \in DOMAIN y : Kept(x, y, l) \/ Took(rs, l)
      BY <2>1, <2>3 DEF SameLayers
    <3>2. /\ new \notin DOMAIN y
          /\ DOMAIN z = (DOMAIN y \ {old}) \cup {new}
          /\ \A l \in DOMAIN y : l # old => l \in DOMAIN z /\ DOMAIN z[l] = DOMAIN y[l]
      BY <1>1, <1>2 DEF Was
    <3> HIDE DEF x, y, z
    <3>3. ASSUME NEW l \in DOMAIN x PROVE Kept(x, z, l) \/ Gave(more, l)
      BY <1>4, <1>5, <3>1, <3>2 DEF Kept
    <3>4. ASSUME NEW l \in DOMAIN z PROVE Kept(x, z, l) \/ Took(more, l)
      BY <1>4, <1>5, <3>1, <3>2 DEF Kept
    <3>5. SameLayers(x, z, more)
      BY <3>3, <3>4 DEF SameLayers
    <3> QED BY <2>3, <3>5 DEF x, z
  <2> QED BY <2>2, <2>3
<1>7. Follows(c, b, more)
  BY <1>1, <1>2, <1>6 DEF Follows
<1> QED BY <1>3, <1>7 DEF b, more, r

-----------------------------------------------------------------------------
(* Every rename counts as an edit, and any other edit counts too, so that  *)
(* the count tells the two apart until the next save.                      *)
OnlyRenames ==
  /\ Len(records) <= count
  /\ count = Len(records) =>
       /\ Aligned(base, records) \in Configs
       /\ Follows(Aligned(base, records), working, records)

LEMMA EditOnly ==
  ASSUME IInv, OnlyRenames, NEW c, Edit(c)
  PROVE  OnlyRenames'
<1>1. /\ records' = records /\ count' = count + 1 /\ count \in Nat
      /\ Len(records) \in Nat /\ Len(records) <= count
  BY DEF IInv, TypeOK, OnlyRenames, Edit, MarkDirty
<1>2. Len(records') <= count' /\ count' # Len(records')
  BY <1>1
<1> QED BY <1>2 DEF OnlyRenames

LEMMA RenameOnly ==
  ASSUME IInv, OnlyRenames, NEW c, NEW r \in Renames, Rename(c, r),
         LET a == Aligned(base, records)
         IN  a \in Configs /\ Follows(a, working, records) =>
               AlignedWith(a, r) \in Configs /\ Follows(AlignedWith(a, r), c, Append(records, r))
  PROVE  OnlyRenames'
<1> DEFINE a == Aligned(base, records)
<1>1. /\ records \in Seq(Renames) /\ Len(records) \in Nat /\ count \in Nat
      /\ base' = base /\ working' = c /\ records' = Append(records, r) /\ count' = count + 1
  BY DEF IInv, TypeOK, Rename, MarkDirty
<1>2. Len(records') = Len(records) + 1
  BY <1>1
<1>3. Len(records') <= count' /\ (count' = Len(records') => count = Len(records))
  BY <1>1, <1>2 DEF OnlyRenames
<1>4. Aligned(base', records') = AlignedWith(a, r)
  BY <1>1, AlignedAppend
<1> HIDE DEF a
<1>5. ASSUME count' = Len(records')
      PROVE  /\ AlignedWith(a, r) \in Configs
             /\ Follows(AlignedWith(a, r), c, Append(records, r))
  BY <1>3, <1>5 DEF OnlyRenames, a
<1> QED BY <1>1, <1>3, <1>4, <1>5 DEF OnlyRenames

LEMMA RestructureOnly == IInv /\ OnlyRenames /\ Restructure => OnlyRenames'
<1> SUFFICES ASSUME IInv, OnlyRenames, Restructure PROVE OnlyRenames'
  OBVIOUS
<1>0. working \in Configs /\ records \in Seq(Renames)
  BY DEF IInv, TypeOK
<1>1. ASSUME NEW p \in Profiles, add_profile(p) \/ remove_profile(p) \/ set_default_profile(p)
      PROVE  OnlyRenames'
  BY <1>1, EditOnly DEF add_profile, remove_profile, set_default_profile
<1>2. ASSUME NEW p \in Profiles, NEW q \in Profiles, rename_profile(p, q) PROVE OnlyRenames'
  <2> DEFINE r == [what |-> "profile", owner |-> p, before |-> p, after |-> q]
  <2>1. r \in Renames
    BY DEF Renames
  <2>2. CanRenameProfile(working, p, q) /\ Rename(RenameProfile(working, p, q), r)
    BY <1>2 DEF rename_profile
  <2>3. \A a \in Configs : Follows(a, working, records) =>
          /\ AlignedWith(a, r) \in Configs
          /\ Follows(AlignedWith(a, r), RenameProfile(working, p, q), Append(records, r))
    BY <1>0, <2>2, ProfileRenameFollows
  <2> HIDE DEF r
  <2> QED BY <2>1, <2>2, <2>3, RenameOnly
<1>3. ASSUME NEW p \in Profiles, NEW l \in Layers, add_layer(p, l) \/ remove_layer(p, l)
      PROVE  OnlyRenames'
  BY <1>3, EditOnly DEF add_layer, remove_layer
<1>4. ASSUME NEW p \in Profiles, NEW l \in Layers, NEW m \in Layers, rename_layer(p, l, m)
      PROVE  OnlyRenames'
  <2> DEFINE r == [what |-> "layer", owner |-> p, before |-> l, after |-> m]
  <2>1. r \in Renames
    BY DEF Renames
  <2>2. CanRenameLayer(working, p, l, m) /\ Rename(RenameLayer(working, p, l, m), r)
    BY <1>4 DEF rename_layer
  <2>3. \A a \in Configs : Follows(a, working, records) =>
          /\ AlignedWith(a, r) = a
          /\ Follows(a, RenameLayer(working, p, l, m), Append(records, r))
    BY <1>0, <2>2, LayerRenameFollows
  <2> HIDE DEF r
  <2> QED BY <2>1, <2>2, <2>3, RenameOnly
<1>5. ASSUME NEW l \in Layers, set_initial_layer(l) PROVE OnlyRenames'
  BY <1>5, EditOnly DEF set_initial_layer
<1> QED BY <1>1, <1>2, <1>3, <1>4, <1>5 DEF Restructure

LEMMA NextOnly == IInv /\ OnlyRenames /\ [Next]_vars => OnlyRenames'
<1> SUFFICES ASSUME IInv, OnlyRenames, [Next]_vars PROVE OnlyRenames'
  OBVIOUS
<1>1. CASE Restructure
  BY <1>1, RestructureOnly
<1>2. CASE Remap
  BY <1>2, EditOnly DEF Remap, clear_action, set_action
<1>3. CASE SaveAndReload
  <2>1. /\ base' \in Configs /\ working' = base' /\ count' = 0 /\ records' = <<>>
    BY <1>3, WrittenType DEF SaveAndReload, IInv, TypeOK
  <2>2. Aligned(base', records') = base' /\ Follows(base', working', records') /\ Len(records') = 0
    BY <2>1, AlignedEmpty, NothingFollows
  <2> QED BY <2>1, <2>2 DEF OnlyRenames
<1>4. CASE Recover
  <2>1. records' = <<>> /\ count' = count /\ count \in Nat /\ count > 0
    BY <1>4 DEF Recover, IInv, TypeOK, CleanIsUnchanged
  <2>2. Len(records') <= count' /\ count' # Len(records')
    BY <2>1
  <2> QED BY <2>2 DEF OnlyRenames
<1>5. CASE UNCHANGED vars
  BY <1>5 DEF vars, OnlyRenames
<1> QED BY <1>1, <1>2, <1>3, <1>4, <1>5 DEF Next

LEMMA OnlyInvariance == Spec => []OnlyRenames
<1>1. Init => OnlyRenames
  <2> SUFFICES ASSUME Init PROVE OnlyRenames
    OBVIOUS
  <2>1. base \in Configs /\ working = base /\ count = 0 /\ records = <<>>
    BY ConfigDraftAssumption, IsConfigShape DEF Init
  <2>2. Aligned(base, records) = base /\ Follows(base, working, records) /\ Len(records) = 0
    BY <2>1, AlignedEmpty, NothingFollows
  <2> QED BY <2>1, <2>2 DEF OnlyRenames
<1> QED BY <1>1, NextOnly, Invariance, PTL DEF Spec

(* What the difference shows of a layer of two profiles that follow each   *)
(* other, when what is taken for half of a rename is left out.             *)
LEMMA LayerChangesShown ==
  ASSUME NEW p, NEW x, NEW y, NEW rs, SameLayers(x, y, rs),
         NEW change \in LayerChanges(p, x, y), ~TakenForRename(change, rs)
  PROVE  /\ change[1] \notin StructureKinds
         /\ change[1] \in {"control_mapped", "control_unmapped"} =>
              Gave(rs, change[2][2]) /\ Took(rs, change[2][2])
<1>1. ASSUME NEW l \in DOMAIN x, l \notin DOMAIN y, change = Change("layer_removed", <<p, l>>)
      PROVE  FALSE
  <2>1. PICK r \in Shown(rs) : r.what = "layer" /\ r.before = l
    BY <1>1 DEF SameLayers, Kept, Gave
  <2>2. change[1] = "layer_removed" /\ Last(change[2]) = l
    BY <1>1 DEF Change, Last
  <2> QED BY <2>1, <2>2 DEF TakenForRename
<1>2. ASSUME NEW l \in DOMAIN y, l \notin DOMAIN x, change = Change("layer_added", <<p, l>>)
      PROVE  FALSE
  <2>1. PICK r \in Shown(rs) : r.what = "layer" /\ r.after = l
    BY <1>2 DEF SameLayers, Kept, Took
  <2>2. change[1] = "layer_added" /\ Last(change[2]) = l
    BY <1>2 DEF Change, Last
  <2> QED BY <2>1, <2>2 DEF TakenForRename
<1>3. ASSUME NEW l \in DOMAIN x \cap DOMAIN y, change \in ControlChanges(p, l, x[l], y[l])
      PROVE  /\ change[1] \notin StructureKinds
             /\ change[1] \in {"control_mapped", "control_unmapped"} =>
                  Gave(rs, change[2][2]) /\ Took(rs, change[2][2])
  <2>1. \/ \E k \in DOMAIN y[l] \ DOMAIN x[l] : change = Change("control_mapped", <<p, l, k>>)
        \/ \E k \in DOMAIN x[l] \ DOMAIN y[l] : change = Change("control_unmapped", <<p, l, k>>)
        \/ \E k : change = Change("control_action_changed", <<p, l, k>>)
    BY <1>3 DEF ControlChanges
  <2>2. DOMAIN x[l] # DOMAIN y[l] => Gave(rs, l) /\ Took(rs, l)
    BY <1>3 DEF SameLayers, Kept
  <2>3. change[1] \in {"control_mapped", "control_unmapped", "control_action_changed"}
    BY <2>1 DEF Change
  <2>4. change[1] \in {"control_mapped", "control_unmapped"} =>
          change[2][2] = l /\ DOMAIN x[l] # DOMAIN y[l]
    BY <2>1 DEF Change
  <2> QED BY <2>2, <2>3, <2>4 DEF StructureKinds
<1>4. \/ \E l \in DOMAIN x \ DOMAIN y : change = Change("layer_removed", <<p, l>>)
      \/ \E l \in DOMAIN y \ DOMAIN x : change = Change("layer_added", <<p, l>>)
      \/ \E l \in DOMAIN x \cap DOMAIN y : change \in ControlChanges(p, l, x[l], y[l])
  BY DEF LayerChanges
<1> QED BY <1>1, <1>2, <1>3, <1>4

LEMMA ChangesShown ==
  ASSUME NEW c \in Configs, NEW d \in Configs, NEW rs, Follows(c, d, rs),
         NEW change \in DiffConfigs(c, d), ~TakenForRename(change, rs)
  PROVE  /\ change[1] \notin StructureKinds
         /\ change[1] \in {"control_mapped", "control_unmapped"} =>
              Gave(rs, change[2][2]) /\ Took(rs, change[2][2])
<1>1. DOMAIN c.profiles = DOMAIN d.profiles /\ c.default = d.default
  BY DEF Follows
<1>2. \/ \E p \in DOMAIN c.profiles : change \in LayerChanges(p, c.profiles[p], d.profiles[p])
      \/ change = Change("initial_layer_changed", <<>>)
  <2>1. \/ \E p \in DOMAIN c.profiles \cap DOMAIN d.profiles :
             change \in LayerChanges(p, c.profiles[p], d.profiles[p])
        \/ change \in IF c.initial # d.initial
                       THEN {Change("initial_layer_changed", <<>>)} ELSE {}
    BY <1>1 DEF DiffConfigs
  <2> QED BY <1>1, <2>1
<1>3. ASSUME NEW p \in DOMAIN c.profiles,
             change \in LayerChanges(p, c.profiles[p], d.profiles[p])
      PROVE  /\ change[1] \notin StructureKinds
             /\ change[1] \in {"control_mapped", "control_unmapped"} =>
                  Gave(rs, change[2][2]) /\ Took(rs, change[2][2])
  BY <1>3, LayerChangesShown DEF Follows
<1>4. CASE change = Change("initial_layer_changed", <<>>)
  BY <1>4 DEF Change, StructureKinds
<1> QED BY <1>2, <1>3, <1>4

(* However profiles and layers are renamed, in chains, swaps and back, the *)
(* user is shown renames and no profile or layer that comes or goes; only  *)
(* a layer that took the name of one renamed away is shown with controls   *)
(* that nobody mapped or unmapped (diff.py, diff_draft).                   *)
THEOREM RenamesAreNeverEdits == Spec => []RenamesAreNotEdits
<1>1. IInv /\ OnlyRenames => RenamesAreNotEdits
  <2> SUFFICES ASSUME IInv, OnlyRenames, count = Len(records),
                      NEW x \in DiffDraft(base, working, records)
               PROVE  /\ x[1] \notin StructureKinds
                      /\ x[1] \in {"control_mapped", "control_unmapped"} =>
                           GivenUp(x[2][2]) /\ TakenOn(x[2][2])
    BY DEF RenamesAreNotEdits
  <2> DEFINE a == Aligned(base, records)
  <2>1. a \in Configs /\ working \in Configs /\ Follows(a, working, records)
    BY DEF IInv, TypeOK, OnlyRenames
  <2>2. CASE x \in RenameChanges(records)
    <3>1. x[1] \in {"profile_renamed", "layer_renamed"}
      BY <2>2 DEF RenameChanges, Change
    <3> QED BY <3>1 DEF StructureKinds
  <2>3. CASE x \in DiffConfigs(a, working) /\ ~TakenForRename(x, records)
    <3>1. \A l : (GivenUp(l) <=> Gave(records, l)) /\ (TakenOn(l) <=> Took(records, l))
      BY DEF GivenUp, TakenOn, Gave, Took
    <3> HIDE DEF a
    <3> QED BY <2>1, <2>3, <3>1, ChangesShown
  <2> QED BY <2>2, <2>3 DEF DiffDraft
<1> QED BY <1>1, Invariance, OnlyInvariance, PTL
=============================================================================
