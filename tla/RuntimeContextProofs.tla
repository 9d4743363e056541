------------------------- MODULE RuntimeContextProofs -------------------------
(***************************************************************************)
(* The context manager keeps its promises for every set of files, profiles *)
(* and layers. The inductive invariant is the type invariant together with *)
(* SelectedProfileExists: each depends on the other, because a context of  *)
(* an unknown profile has no layer cycle.                                  *)
(*                                                                         *)
(* First come facts about the operators of ContextOps, for every           *)
(* configuration and context: the layer cycle stays within the declared    *)
(* layers and its two directions undo each other, and every way of moving  *)
(* a context yields a context.                                             *)
(***************************************************************************)
EXTENDS RuntimeContext, WellFoundedInduction, TLAPS

-----------------------------------------------------------------------------
(* Least and greatest elements.                                            *)

(* Every non-empty set of naturals has a least element.                    *)
LEMMA NatHasLeast ==
  ASSUME NEW S \in SUBSET Nat, S # {}
  PROVE  \E x \in S : \A y \in S : x <= y
<1> DEFINE LT == {ss \in Nat \X Nat : ss[1] < ss[2]}
<1>1. IsWellFoundedOn(LT, Nat)
  BY NatLessThanWellFounded DEF OpToRel
<1>2. PICK x \in S : \A y \in S : ~ (<<y, x>> \in LT)
  <2> HIDE DEF LT
  <2> QED BY <1>1, WFMin
<1>3. ASSUME NEW y \in S
      PROVE  x <= y
  <2>1. y \in Nat /\ x \in Nat
    OBVIOUS
  <2>2. CASE y < x
    <3>1. <<y, x>> \in Nat \X Nat /\ <<y, x>>[1] < <<y, x>>[2]
      BY <2>1, <2>2
    <3>2. <<y, x>> \in LT
      BY <3>1, Zenon
    <3> QED
      BY <1>2, <3>2
  <2> QED
    BY <2>1, <2>2
<1> QED
  BY <1>3

(* Min returns the least element of a non-empty set of naturals.           *)
LEMMA MinIsLeast ==
  ASSUME NEW S \in SUBSET Nat, S # {}
  PROVE  Min(S) \in S /\ \A y \in S : Min(S) <= y
BY NatHasLeast DEF Min

(* Max returns the greatest element of a non-empty bounded one.            *)
LEMMA MaxIsGreatest ==
  ASSUME NEW N \in Nat, NEW S \in SUBSET (0 .. N), S # {}
  PROVE  Max(S) \in S /\ \A y \in S : y <= Max(S)
<1> DEFINE T == {N - y : y \in S}
<1>1. T \in SUBSET Nat /\ T # {}
  <2>1. ASSUME NEW y \in S
        PROVE  N - y \in Nat
    <3>1. y \in Int /\ 0 <= y /\ y <= N
      OBVIOUS
    <3> QED
      BY <3>1
  <2>2. T \in SUBSET Nat
    BY <2>1, Zenon
  <2> QED
    BY <2>2
<1>2. PICK t \in T : \A u \in T : t <= u
  <2> HIDE DEF T
  <2> QED BY <1>1, NatHasLeast
<1>3. PICK x \in S : t = N - x
  OBVIOUS
<1>4. \A y \in S : x >= y
  <2> TAKE y \in S
  <2>1. N - x <= N - y
    BY <1>2, <1>3
  <2> QED BY <2>1
<1> QED
  BY <1>4 DEF Max

-----------------------------------------------------------------------------
(* The layer cycle.                                                        *)

(* Layers are naturals: the cycle is their order.                          *)
LEMMA LayersAreNat == MaxLayer \in Nat /\ Layers = 0 .. MaxLayer /\ Layers \subseteq Nat
BY FilesAssumption DEF Layers

(* What a context can cycle through are layers, general among them.        *)
LEMMA AvailableAreLayers ==
  ASSUME NEW c \in Configs, NEW p
  PROVE  Available(c, p) \in SUBSET Layers /\ General \in Available(c, p)
BY FilesAssumption DEF Available, Configs, ValidConfig, Layers, General

(* Both directions stay within the cycle, also when they start outside.    *)
LEMMA CycleIsClosed ==
  ASSUME NEW avail \in SUBSET Layers, General \in avail, NEW l \in Layers
  PROVE  LayerAfter(avail, l) \in avail /\ LayerBefore(avail, l) \in avail
<1> USE DEF General
<1>0. MaxLayer \in Nat /\ Layers = 0 .. MaxLayer /\ avail \subseteq Nat
  BY LayersAreNat
<1>1. LayerAfter(avail, l) \in avail
  <2> DEFINE from  == IF l \in avail THEN l ELSE General
             above == {x \in avail : x > from}
  <2>1. CASE above = {}
    BY <2>1 DEF LayerAfter
  <2>2. CASE above # {}
    <3>1. above \in SUBSET Nat
      BY <1>0
    <3>2. Min(above) \in above
      <4> HIDE DEF above
      <4> QED BY <3>1, <2>2, MinIsLeast
    <3> QED BY <2>2, <3>2 DEF LayerAfter
  <2> QED BY <2>1, <2>2
<1>2. LayerBefore(avail, l) \in avail
  <2> DEFINE below == {x \in avail : x < l}
  <2>1. Max(avail) \in avail
    BY <1>0, MaxIsGreatest
  <2>2. CASE l \in avail /\ below # {}
    <3>1. below \in SUBSET (0 .. MaxLayer)
      BY <1>0
    <3>2. Max(below) \in below
      <4> HIDE DEF below
      <4> QED BY <1>0, <3>1, <2>2, MaxIsGreatest
    <3> QED BY <2>2, <3>2 DEF LayerBefore
  <2>3. CASE ~(l \in avail /\ below # {})
    BY <2>1, <2>3 DEF LayerBefore
  <2> QED BY <2>2, <2>3
<1> QED BY <1>1, <1>2

(* The layers of a cycle seen from one of them: where next and previous    *)
(* lead, by order alone.                                                   *)
LEMMA AfterIsSuccessor ==
  ASSUME NEW avail \in SUBSET Layers, General \in avail, NEW l \in avail
  PROVE  LET a == LayerAfter(avail, l)
         IN  \/ a > l /\ \A x \in avail : x > l => x >= a
             \/ a = General /\ \A x \in avail : x <= l
<1> USE DEF General
<1>0. MaxLayer \in Nat /\ Layers = 0 .. MaxLayer /\ avail \subseteq Nat
  BY LayersAreNat
<1> DEFINE above == {x \in avail : x > l}
<1>1. CASE above = {}
  BY <1>0, <1>1 DEF LayerAfter
<1>2. CASE above # {}
  <2>1. above \in SUBSET Nat
    BY <1>0
  <2>2. Min(above) \in above /\ \A y \in above : Min(above) <= y
    <3> HIDE DEF above
    <3> QED BY <2>1, <1>2, MinIsLeast
  <2>3. LayerAfter(avail, l) = Min(above)
    BY <1>2 DEF LayerAfter
  <2> QED BY <1>0, <2>2, <2>3
<1> QED BY <1>1, <1>2

(* The same for the direction of previous_layer.                           *)
LEMMA BeforeIsPredecessor ==
  ASSUME NEW avail \in SUBSET Layers, General \in avail, NEW l \in avail
  PROVE  LET b == LayerBefore(avail, l)
         IN  \/ b < l /\ \A x \in avail : x < l => x <= b
             \/ (\A x \in avail : x <= b) /\ \A x \in avail : x >= l
<1> USE DEF General
<1>0. MaxLayer \in Nat /\ Layers = 0 .. MaxLayer /\ avail \subseteq Nat
  BY LayersAreNat
<1> DEFINE below == {x \in avail : x < l}
<1>1. CASE below = {}
  <2>1. Max(avail) \in avail /\ \A y \in avail : y <= Max(avail)
    BY <1>0, MaxIsGreatest
  <2>2. LayerBefore(avail, l) = Max(avail)
    BY <1>1 DEF LayerBefore
  <2> QED BY <1>0, <1>1, <2>1, <2>2
<1>2. CASE below # {}
  <2>1. below \in SUBSET (0 .. MaxLayer)
    BY <1>0
  <2>2. Max(below) \in below /\ \A y \in below : y <= Max(below)
    <3> HIDE DEF below
    <3> QED BY <1>0, <2>1, <1>2, MaxIsGreatest
  <2>3. LayerBefore(avail, l) = Max(below)
    BY <1>2 DEF LayerBefore
  <2> QED BY <1>0, <2>2, <2>3
<1> QED BY <1>1, <1>2

(* Next and previous undo each other on the layers of a cycle.             *)
LEMMA NextThenPrevious ==
  ASSUME NEW avail \in SUBSET Layers, General \in avail, NEW l \in avail
  PROVE  /\ LayerBefore(avail, LayerAfter(avail, l)) = l
         /\ LayerAfter(avail, LayerBefore(avail, l)) = l
<1> USE DEF General
<1>0. avail \subseteq Nat /\ l \in Layers
  BY LayersAreNat
<1> DEFINE a  == LayerAfter(avail, l)
           b  == LayerBefore(avail, l)
           ba == LayerBefore(avail, a)
           ab == LayerAfter(avail, b)
<1>1. a \in avail /\ b \in avail
  BY <1>0, CycleIsClosed
<1>2. ba \in avail /\ ab \in avail
  <2> HIDE DEF a, b
  <2> QED BY <1>1, CycleIsClosed
<1>3. \/ a > l /\ \A x \in avail : x > l => x >= a
      \/ a = 0 /\ \A x \in avail : x <= l
  BY AfterIsSuccessor
<1>4. \/ b < l /\ \A x \in avail : x < l => x <= b
      \/ (\A x \in avail : x <= b) /\ \A x \in avail : x >= l
  BY BeforeIsPredecessor
<1>5. \/ ba < a /\ \A x \in avail : x < a => x <= ba
      \/ (\A x \in avail : x <= ba) /\ \A x \in avail : x >= a
  <2> HIDE DEF a
  <2> QED BY <1>1, BeforeIsPredecessor
<1>6. \/ ab > b /\ \A x \in avail : x > b => x >= ab
      \/ ab = 0 /\ \A x \in avail : x <= b
  <2> HIDE DEF b
  <2> QED BY <1>1, AfterIsSuccessor
<1> HIDE DEF a, b, ba, ab
<1>7. ba = l
  BY <1>0, <1>1, <1>2, <1>3, <1>5
<1>8. ab = l
  BY <1>0, <1>1, <1>2, <1>4, <1>6
<1> QED
  BY <1>7, <1>8 DEF a, b, ba, ab

-----------------------------------------------------------------------------
(* Moving a context.                                                       *)

(* What the loader's checks guarantee of a configuration in force.         *)
LEMMA ConfigShape ==
  ASSUME NEW c \in Configs
  PROVE  /\ c \in Files
         /\ c.default \in DOMAIN c.profiles /\ c.default \in Profiles
         /\ c.initial \in Layers
         /\ DOMAIN c.profiles \subseteq Profiles
         /\ \A p \in DOMAIN c.profiles : General \in DOMAIN c.profiles[p]
BY FilesAssumption DEF Configs, ValidConfig

(* What each way of changing the context promises: a context, on a profile *)
(* of the configuration, its revision counting the change.                 *)
Moves(c, x, y) ==
  /\ y \in Context
  /\ y.profile \in DOMAIN c.profiles
  /\ y.revision = x.revision
       + (IF <<y.profile, y.layer>> # <<x.profile, x.layer>> THEN 1 ELSE 0)

(* The assignment that the five methods share counts exactly real changes. *)
LEMMA SwitchMoves ==
  ASSUME NEW c \in Configs, NEW x \in Context, NEW p \in DOMAIN c.profiles,
         NEW l \in Layers, NEW isEnum \in BOOLEAN, NEW src \in Sources
  PROVE  Moves(c, x, Switch(x, p, l, isEnum, src))
<1>0. p \in Profiles /\ x.revision \in Nat
  BY ConfigShape DEF Context
<1>1. CASE x.profile = p /\ x.layer = l
  BY <1>0, <1>1 DEF Switch, Moves
<1>2. CASE ~(x.profile = p /\ x.layer = l)
  <2> DEFINE y == [profile |-> p, layer |-> l, revision |-> x.revision + 1,
                   source |-> src, isEnum |-> isEnum]
  <2>1. y \in Context
    BY <1>0 DEF Context
  <2>2. <<y.profile, y.layer>> # <<x.profile, x.layer>>
    BY <1>2
  <2>3. Switch(x, p, l, isEnum, src) = y
    BY <1>2 DEF Switch
  <2> QED BY <2>1, <2>2, <2>3 DEF Moves
<1> QED BY <1>1, <1>2

(* run() starts on the default profile of the file it has loaded.          *)
LEMMA StartupIsContext ==
  ASSUME NEW c \in Configs
  PROVE  /\ StartupContext(c) \in Context
         /\ StartupContext(c).profile \in DOMAIN c.profiles
BY ConfigShape DEF StartupContext, Context, Sources

(* set_layer accepts any of the nine layers, declared or not.              *)
LEMMA SetLayerMoves ==
  ASSUME NEW c \in Configs, NEW x \in Context, x.profile \in DOMAIN c.profiles,
         NEW l \in Layers, NEW src \in Sources
  PROVE  Moves(c, x, SetLayer(x, l, src))
BY SwitchMoves DEF SetLayer

(* next_layer moves within the cycle of the selected profile.              *)
LEMMA NextLayerMoves ==
  ASSUME NEW c \in Configs, NEW x \in Context, x.profile \in DOMAIN c.profiles,
         NEW src \in Sources
  PROVE  Moves(c, x, NextLayer(c, x, src))
<1>1. x.profile \in Profiles /\ x.layer \in Layers
  BY DEF Context
<1>2. LayerAfter(Available(c, x.profile), x.layer) \in Layers
  BY <1>1, AvailableAreLayers, CycleIsClosed
<1> QED BY <1>1, <1>2, SwitchMoves DEF NextLayer

(* previous_layer moves within the cycle of the selected profile.          *)
LEMMA PreviousLayerMoves ==
  ASSUME NEW c \in Configs, NEW x \in Context, x.profile \in DOMAIN c.profiles,
         NEW src \in Sources
  PROVE  Moves(c, x, PreviousLayer(c, x, src))
<1>1. x.profile \in Profiles /\ x.layer \in Layers
  BY DEF Context
<1>2. LayerBefore(Available(c, x.profile), x.layer) \in Layers
  BY <1>1, AvailableAreLayers, CycleIsClosed
<1> QED BY <1>1, <1>2, SwitchMoves DEF PreviousLayer

(* set_profile goes to a declared profile, on the file's initial layer.    *)
LEMMA SetProfileMoves ==
  ASSUME NEW c \in Configs, NEW x \in Context, NEW p \in DOMAIN c.profiles,
         NEW src \in Sources
  PROVE  Moves(c, x, SetProfile(c, x, p, src))
<1>1. p \in Profiles /\ c.initial \in Layers
  BY ConfigShape
<1> QED BY <1>1, SwitchMoves DEF SetProfile

(* A reload: the same, and it takes away only what the new file lacks.     *)
LEMMA ReconcileMoves ==
  ASSUME NEW c \in Configs, NEW x \in Context
  PROVE  /\ Moves(c, x, Reconcile(c, x))
         /\ x.profile \in DOMAIN c.profiles => Reconcile(c, x).profile = x.profile
         /\ (x.profile \in DOMAIN c.profiles
               /\ x.layer \in DOMAIN c.profiles[x.profile])
              => Reconcile(c, x).layer = x.layer
         /\ Reconcile(c, x).layer \in
              DOMAIN c.profiles[Reconcile(c, x).profile] \cup {c.initial}
<1>1. /\ c.default \in DOMAIN c.profiles /\ c.initial \in Layers
      /\ x.revision \in Nat
      /\ "config_reload" \in Sources /\ TRUE \in BOOLEAN
  BY ConfigShape DEF Context, Sources
<1> DEFINE To(p) == Switch(x, p, c.initial, TRUE, "config_reload")
<1>2. ASSUME NEW p \in DOMAIN c.profiles
      PROVE  Moves(c, x, To(p)) /\ To(p).layer = c.initial /\ To(p).profile = p
  <2>1. \A src \in Sources : Moves(c, x, Switch(x, p, c.initial, TRUE, src))
    BY <1>1, SwitchMoves
  <2>2. To(p).layer = c.initial /\ To(p).profile = p
    BY DEF Switch
  <2> QED BY <1>1, <2>1, <2>2
<1> HIDE DEF To
<1>3. CASE x.profile \notin DOMAIN c.profiles
  <2>1. Reconcile(c, x) = To(c.default)
    BY <1>3 DEF Reconcile, To
  <2> QED BY <1>1, <1>2, <1>3, <2>1
<1>4. CASE /\ x.profile \in DOMAIN c.profiles
           /\ x.layer \in DOMAIN c.profiles[x.profile] \cup {c.initial}
  <2>1. Reconcile(c, x) = x
    BY <1>4 DEF Reconcile
  <2> QED BY <1>1, <1>4, <2>1 DEF Moves
<1>5. CASE /\ x.profile \in DOMAIN c.profiles
           /\ x.layer \notin DOMAIN c.profiles[x.profile] \cup {c.initial}
  <2>1. Reconcile(c, x) = To(x.profile)
    BY <1>5 DEF Reconcile, To
  <2> QED BY <1>2, <1>5, <2>1
<1> QED BY <1>3, <1>4, <1>5

-----------------------------------------------------------------------------
(* The manager.                                                            *)
IInv == TypeOK /\ SelectedProfileExists

(* None is neither a configuration nor a context.                          *)
LEMMA ConfigsAreNotNone == NoConfig \notin Configs /\ NoContext \notin Context
BY RuntimeContextAssumption DEF Configs

(* Every step of a started manager is a move of its context on the         *)
(* configuration it ends with, or leaves both alone.                       *)
LEMMA StepMoves ==
  ASSUME IInv, Started, Step
  PROVE  /\ config' \in Configs
         /\ Moves(config', ctx, ctx')
         /\ config' = config \/ ctx' = Reconcile(config', ctx)
<1>1. /\ config \in Configs /\ ctx \in Context
      /\ ctx.profile \in DOMAIN config.profiles
  BY DEF IInv, TypeOK, SelectedProfileExists, Started
<1>2. ASSUME NEW c \in Configs, Reload(c)
      PROVE  config' = c /\ Moves(c, ctx, ctx') /\ ctx' = Reconcile(c, ctx)
  BY <1>1, <1>2, ReconcileMoves DEF Reload
<1>3. ASSUME NEW src \in {"control_action", "management_cli"},
             NEW l \in Layers, ChangeLayer(l, src)
      PROVE  config' = config /\ Moves(config, ctx, ctx')
  BY <1>1, <1>3, SetLayerMoves DEF ChangeLayer, Sources
<1>4. ASSUME NEW src \in {"control_action", "management_cli"}, ChangeToNext(src)
      PROVE  config' = config /\ Moves(config, ctx, ctx')
  BY <1>1, <1>4, NextLayerMoves DEF ChangeToNext, Sources
<1>5. ASSUME NEW src \in {"control_action", "management_cli"}, ChangeToPrevious(src)
      PROVE  config' = config /\ Moves(config, ctx, ctx')
  BY <1>1, <1>5, PreviousLayerMoves DEF ChangeToPrevious, Sources
<1>6. ASSUME NEW src \in {"control_action", "management_cli"},
             NEW p \in Profiles, ChangeProfile(p, src)
      PROVE  config' = config /\ Moves(config, ctx, ctx')
  BY <1>1, <1>6, SetProfileMoves DEF ChangeProfile, Sources
<1>7. ASSUME NEW c \in Configs, Startup(c)
      PROVE  FALSE
  BY <1>7 DEF Startup, Started
<1> QED
  BY <1>1, <1>2, <1>3, <1>4, <1>5, <1>6, <1>7 DEF Step

(* IInv is preserved: a step that starts the manager establishes it for the*)
(* file loaded, every later one is a move (StepMoves).                     *)
LEMMA InvInductive == IInv /\ [Step]_vars => IInv'
<1> SUFFICES ASSUME IInv, [Step]_vars
             PROVE  IInv'
  OBVIOUS
<1>1. CASE UNCHANGED vars
  BY <1>1 DEF IInv, TypeOK, SelectedProfileExists, Started, vars
<1>2. CASE Step /\ Started
  <2>1. config' \in Configs /\ Moves(config', ctx, ctx')
    BY <1>2, StepMoves
  <2> QED
    BY <2>1, ConfigsAreNotNone
    DEF Moves, IInv, TypeOK, SelectedProfileExists, Started
<1>3. CASE Step /\ ~Started
  <2>1. PICK c \in Configs : Startup(c)
    BY <1>3 DEF Step, Reload, ChangeLayer, ChangeToNext, ChangeToPrevious, ChangeProfile
  <2>2. config' = c /\ ctx' \in Context /\ ctx'.profile \in DOMAIN c.profiles
    BY <2>1, StartupIsContext DEF Startup
  <2> QED
    BY <2>2, ConfigsAreNotNone DEF IInv, TypeOK, SelectedProfileExists, Started
<1> QED
  BY <1>1, <1>2, <1>3

(* The manager's state always has the declared types, and the selected     *)
(* profile is always one that the configuration in force declares.         *)
THEOREM InvHolds == Spec => []IInv
<1>1. Init => IInv
  BY DEF Init, IInv, TypeOK, SelectedProfileExists, Started
<1> QED
  BY <1>1, InvInductive, PTL DEF Spec

(* The configuration and the context exist together and are well formed:   *)
(* the layer is always one of the nine, the source one of the four.        *)
THEOREM TypeCorrect == Spec => []TypeOK
<1>1. IInv => TypeOK
  BY DEF IInv
<1> QED
  BY <1>1, InvHolds, PTL

(* No sequence of reloads, profile switches and layer changes leaves the   *)
(* daemon on a profile its configuration does not declare.                 *)
THEOREM ProfileAlwaysExists == Spec => []SelectedProfileExists
<1>1. IInv => SelectedProfileExists
  BY DEF IInv
<1> QED
  BY <1>1, InvHolds, PTL

(* In every reachable context next and previous undo each other on the     *)
(* layers of the cycle.                                                    *)
THEOREM CyclesAlwaysInverse == Spec => []CyclesAreInverse
<1>1. IInv => CyclesAreInverse
  <2> SUFFICES ASSUME IInv, Started,
                      ctx.layer \in Available(config, ctx.profile)
               PROVE  LET avail == Available(config, ctx.profile)
                      IN  /\ LayerBefore(avail, LayerAfter(avail, ctx.layer)) = ctx.layer
                          /\ LayerAfter(avail, LayerBefore(avail, ctx.layer)) = ctx.layer
    BY DEF CyclesAreInverse
  <2>1. config \in Configs
    BY DEF IInv, TypeOK, Started
  <2>2. /\ Available(config, ctx.profile) \in SUBSET Layers
        /\ General \in Available(config, ctx.profile)
    BY <2>1, AvailableAreLayers
  <2> QED
    BY <2>2, NextThenPrevious
<1> QED
  BY <1>1, InvHolds, PTL

(* The revision counts the changes of profile or layer, one by one.        *)
THEOREM RevisionAlwaysTracks == Spec => RevisionTracksChanges
<1>1. IInv /\ [Step]_vars =>
        [Started =>
           LET moved == <<ctx'.profile, ctx'.layer>> # <<ctx.profile, ctx.layer>>
           IN  ctx'.revision = ctx.revision + (IF moved THEN 1 ELSE 0)]_vars
  BY StepMoves DEF Moves
<1> QED
  BY <1>1, InvHolds, PTL DEF Spec, RevisionTracksChanges

(* A reload keeps every part of the selection that the new file still has. *)
THEOREM ReloadAlwaysKeeps == Spec => ReloadKeepsValidSelection
<1>1. IInv /\ [Step]_vars =>
        [(Started /\ config' # config) =>
           /\ ctx.profile \in DOMAIN config'.profiles => ctx'.profile = ctx.profile
           /\ (/\ ctx.profile \in DOMAIN config'.profiles
               /\ ctx.layer \in DOMAIN config'.profiles[ctx.profile])
                => ctx'.layer = ctx.layer
           /\ ctx'.layer \in DOMAIN config'.profiles[ctx'.profile]
                               \cup {config'.initial}]_vars
  <2> SUFFICES ASSUME IInv, Step, Started, config' # config
               PROVE  /\ ctx.profile \in DOMAIN config'.profiles => ctx'.profile = ctx.profile
                      /\ (/\ ctx.profile \in DOMAIN config'.profiles
                          /\ ctx.layer \in DOMAIN config'.profiles[ctx.profile])
                           => ctx'.layer = ctx.layer
                      /\ ctx'.layer \in DOMAIN config'.profiles[ctx'.profile]
                                          \cup {config'.initial}
    BY DEF vars
  <2>1. config' \in Configs /\ ctx' = Reconcile(config', ctx)
    BY StepMoves
  <2>2. ctx \in Context
    BY DEF IInv, TypeOK, Started
  <2> QED
    BY <2>1, <2>2, ReconcileMoves
<1> QED
  BY <1>1, InvHolds, PTL DEF Spec, ReloadKeepsValidSelection
=============================================================================
