----------------------- MODULE DeviceDiscoveryProofs -----------------------
(***************************************************************************)
(* What DeviceDiscovery promises, proved for every set of ports, every     *)
(* kind of device and any number of pluggings.                             *)
(***************************************************************************)
EXTENDS DeviceDiscovery, FiniteSetTheorems, WellFoundedInduction, TLAPS

Input == [plug : Nat, port : Ports, part : Nat, node : Nat, face : Face]

TypeOK ==
  /\ plugs \in Nat
  /\ bus \in [Ports -> [plug : 0 .. plugs, kind : Seq(Face)]]
  /\ inputs \subseteq Input /\ IsFiniteSet(inputs)
  /\ listed \subseteq Input /\ IsFiniteSet(listed)
  /\ todo \subseteq listed /\ seen \subseteq listed \ todo

(* An input is of the device that is in its port, as that describes it,    *)
(* and no other input has its node. A port without a device has plug 0.    *)
InputsFit ==
  /\ \A i \in inputs : /\ i.plug = bus[i.port].plug
                       /\ i.part \in DOMAIN bus[i.port].kind
                       /\ i.face = bus[i.port].kind[i.part]
  /\ \A i, j \in inputs : i.node = j.node => i = j
  /\ \A p \in Ports : bus[p].plug = 0 => bus[p] = Empty

(* What was listed is a snapshot: of one device per port, which no later   *)
(* device is mistaken for. What is still there is looked at or will be.    *)
SnapshotFits ==
  /\ \A i \in listed : /\ i.plug \in 1 .. plugs
                       /\ i.plug = bus[i.port].plug => i \in inputs
  /\ \A i, j \in listed : i.port = j.port => i.plug = j.plug
  /\ listed \cap inputs \subseteq todo \cup seen

(* How far the attempt is: what was decided stays what the records say.    *)
PhaseFits ==
  /\ phase \in {"idle", "scanning", "opening", "half_open", "reading", "failed"}
  /\ phase = "idle" => listed = {} /\ todo = {} /\ seen = {}
  /\ IF phase \in {"idle", "scanning"} THEN verdict = "none"
     ELSE todo = {} /\ verdict = Selection(seen)
  /\ phase \in {"opening", "half_open", "reading"} => verdict = "selected"
  /\ IF verdict = "selected" THEN chosen \in Identities(seen) ELSE chosen = {}

(* What is open bears the node's name of the one record of its role.       *)
HandlesFit ==
  /\ phase \notin {"half_open", "reading"} => handles = {}
  /\ phase \in {"half_open", "reading"} => \E h \in handles : h[1] = "keyboard"
  /\ phase = "reading" => \E h \in handles : h[1] = "mouse"
  /\ \A h \in handles, i \in chosen : i \in inputs /\ h[1] = Role(i.face) => h[2] = i

IInv == TypeOK /\ InputsFit /\ SnapshotFits /\ PhaseFits /\ HandlesFit

-----------------------------------------------------------------------------
(* Numbers and sizes.                                                      *)

(* Every non-empty set of naturals has a least element.                    *)
LEMMA NatHasLeast ==
  ASSUME NEW S \in SUBSET Nat, S # {}
  PROVE  \E x \in S : \A y \in Nat : y < x => y \notin S
<1> DEFINE LT == {ss \in Nat \X Nat : ss[1] < ss[2]}
<1>1. IsWellFoundedOn(LT, Nat)
  BY NatLessThanWellFounded DEF OpToRel
<1>2. PICK x \in S : \A y \in S : ~ (<<y, x>> \in LT)
  <2> HIDE DEF LT
  <2> QED BY <1>1, WFMin
<1>3. ASSUME NEW y \in Nat, y < x
      PROVE  y \notin S
  <2>1. <<y, x>> \in Nat \X Nat /\ <<y, x>>[1] < <<y, x>>[2]
    BY <1>3
  <2>2. <<y, x>> \in LT
    BY <2>1, Zenon
  <2>3. QED
    BY <1>2, <2>2
<1>4. QED
  BY <1>3

(* Of the numbers up to a set's size, one is not in the set.               *)
LEMMA OneIsFree ==
  ASSUME NEW T, IsFiniteSet(T)
  PROVE  \E n \in 0 .. Cardinality(T) : n \notin T
<1>1. Cardinality(T) \in Nat
  BY FS_CardinalityType
<1>2. SUFFICES ASSUME 0 .. Cardinality(T) \subseteq T PROVE FALSE
  OBVIOUS
<1>3. Cardinality(0 .. Cardinality(T)) = Cardinality(T) + 1
  BY <1>1, FS_Interval
<1>4. Cardinality(0 .. Cardinality(T)) <= Cardinality(T)
  BY <1>2, FS_Subset
<1>5. QED
  BY <1>1, <1>3, <1>4

(* A new input gets a node that no other has.                              *)
LEMMA LowestFreeIsFree ==
  ASSUME TypeOK
  PROVE  LowestFree \in Nat /\ \A i \in inputs : i.node # LowestFree
<1> DEFINE taken   == {i.node : i \in inputs}
           Free(n) == n \notin taken /\ \A k \in 0 .. (n - 1) : k \in taken
<1>1. IsFiniteSet(taken)
  <2>1. IsFiniteSet(inputs)
    BY DEF TypeOK
  <2>2. [i \in inputs |-> i.node] \in Surjection(inputs, taken)
    BY DEF Surjection
  <2>3. QED
    BY <2>1, <2>2, FS_Surjection
<1>2. Cardinality(taken) \in Nat
  BY <1>1, FS_CardinalityType
<1>3. \E n \in 0 .. Cardinality(taken) : n \notin taken
  BY <1>1, OneIsFree
<1> HIDE DEF taken
<1>4. \E n \in 0 .. Cardinality(taken) : Free(n)
  <2> DEFINE S == {n \in 0 .. Cardinality(taken) : n \notin taken}
  <2>1. S \in SUBSET Nat /\ S # {}
    BY <1>2, <1>3
  <2>2. PICK n \in S : \A k \in Nat : k < n => k \notin S
    BY <2>1, NatHasLeast
  <2>3. n \in Nat /\ n <= Cardinality(taken) /\ n \notin taken
    BY <1>2, <2>2
  <2>4. ASSUME NEW k \in 0 .. (n - 1)
        PROVE  k \in taken
    <3>1. k \in Nat /\ k < n /\ k \in 0 .. Cardinality(taken)
      BY <1>2, <2>3
    <3>2. QED
      BY <2>2, <3>1
  <2>5. QED
    BY <1>2, <2>3, <2>4
<1>5. LowestFree \in 0 .. Cardinality(taken) /\ Free(LowestFree)
  <2>1. LowestFree = CHOOSE n \in 0 .. Cardinality(taken) : Free(n)
    BY DEF LowestFree, taken
  <2> HIDE DEF Free
  <2>2. QED
    BY <1>4, <2>1
<1>6. QED
  BY <1>2, <1>5 DEF taken

(* A finite set that does not have more than one element has one at most.  *)
LEMMA AtMostOne ==
  ASSUME NEW S, IsFiniteSet(S), ~(Cardinality(S) > 1), NEW a \in S, NEW b \in S
  PROVE  a = b
<1>1. Cardinality(S) \in Nat
  BY FS_CardinalityType
<1>2. CASE Cardinality(S) = 0
  BY <1>2, FS_EmptySet
<1>3. CASE Cardinality(S) = 1
  BY <1>3, FS_Singleton
<1>4. QED
  BY <1>1, <1>2, <1>3

-----------------------------------------------------------------------------
(* What the selection makes of the records.                                *)

(* The roles exclude each other.                                           *)
LEMMA RoleIs ==
  ASSUME NEW face \in Face
  PROVE  /\ Role(face) = "ambiguous" <=> face.keyboard /\ face.mouse
         /\ Role(face) = "keyboard" <=> face.keyboard /\ ~face.mouse
         /\ Role(face) = "mouse" <=> ~face.keyboard /\ face.mouse
<1>1. face.keyboard \in BOOLEAN /\ face.mouse \in BOOLEAN
  BY DEF Face
<1>2. QED
  BY <1>1 DEF Role

(* A group is what matched at one port, all of it.                         *)
LEMMA GroupOfPort ==
  ASSUME NEW records, NEW r \in records, Matches(r.face)
  PROVE  {x \in records : Matches(x.face) /\ x.port = r.port} \in Groups(records)
<1> DEFINE matched == {x \in records : Matches(x.face)}
<1>1. r.port \in {x.port : x \in matched}
  OBVIOUS
<1>2. {x \in matched : x.port = r.port} = {x \in records : Matches(x.face) /\ x.port = r.port}
  OBVIOUS
<1>3. {x \in matched : x.port = r.port} \in Groups(records)
  BY <1>1 DEF Groups
<1>4. QED
  BY <1>2, <1>3

(* So its records were all seen, at one port.                              *)
LEMMA GroupHasPort ==
  ASSUME NEW records, NEW g \in Groups(records)
  PROVE  g \subseteq records /\ \A i, j \in g : i.port = j.port
BY DEF Groups

(* An identity is one keyboard and one mouse of one port.                  *)
LEMMA IdentityIs ==
  ASSUME NEW records, IsFiniteSet(records), NEW id \in Identities(records)
  PROVE  /\ id \subseteq records
         /\ \A i, j \in id : i.port = j.port
         /\ \A i, j \in id : Role(i.face) = Role(j.face) => i = j
         /\ \A i \in id : Role(i.face) \in {"keyboard", "mouse"}
<1>1. PICK g \in Groups(records) :
        ~IsAmbiguous(g) /\ id = InRole(g, "keyboard") \cup InRole(g, "mouse")
  BY DEF Identities, Complete
<1>2. g \subseteq records /\ \A i, j \in g : i.port = j.port
  BY <1>1, GroupHasPort
<1>3. \A role : InRole(g, role) \subseteq g
  BY DEF InRole
<1>4. \A role : IsFiniteSet(InRole(g, role))
  BY <1>2, <1>3, FS_Subset
<1>5. ~(Cardinality(InRole(g, "keyboard")) > 1) /\ ~(Cardinality(InRole(g, "mouse")) > 1)
  BY <1>1 DEF IsAmbiguous
<1>6. ASSUME NEW i \in id, NEW j \in id, Role(i.face) = Role(j.face)
      PROVE  i = j
  <2>1. \A x \in InRole(g, "keyboard") : Role(x.face) = "keyboard"
    BY DEF InRole
  <2>2. \A x \in InRole(g, "mouse") : Role(x.face) = "mouse"
    BY DEF InRole
  <2>3. CASE Role(i.face) = "keyboard"
    <3>1. i \in InRole(g, "keyboard") /\ j \in InRole(g, "keyboard")
      BY <1>1, <1>6, <2>2, <2>3
    <3>2. QED
      BY <1>4, <1>5, <3>1, AtMostOne
  <2>4. CASE Role(i.face) = "mouse"
    <3>1. i \in InRole(g, "mouse") /\ j \in InRole(g, "mouse")
      BY <1>1, <1>6, <2>1, <2>4
    <3>2. QED
      BY <1>4, <1>5, <3>1, AtMostOne
  <2>5. QED
    BY <1>1, <1>6, <2>1, <2>2, <2>3, <2>4
<1>7. \A i \in id : Role(i.face) \in {"keyboard", "mouse"}
  BY <1>1 DEF InRole
<1>8. QED
  BY <1>1, <1>2, <1>3, <1>6, <1>7

(* When something is selected, no group is ambiguous and there is one      *)
(* identity.                                                               *)
LEMMA SelectedIs ==
  ASSUME NEW records, IsFiniteSet(records), Selection(records) = "selected"
  PROVE  /\ \A g \in Groups(records) : ~IsAmbiguous(g)
         /\ \A a, b \in Identities(records) : a = b
<1>1. /\ Cardinality(Identities(records)) = 1
      /\ \A g \in Groups(records) : ~IsAmbiguous(g)
  BY DEF Selection
<1>2. IsFiniteSet(Identities(records))
  <2>1. Identities(records) \subseteq SUBSET records
    BY IdentityIs
  <2>2. QED
    BY <2>1, FS_SUBSET, FS_Subset
<1>3. QED
  BY <1>1, <1>2, FS_Singleton

-----------------------------------------------------------------------------
(* The inductive invariant.                                                *)

(* With nothing plugged in and no attempt made it holds.                   *)
LEMMA InitHolds == Init => IInv
<1>1. SUFFICES ASSUME Init PROVE IInv
  OBVIOUS
<1>2. IsFiniteSet({})
  BY FS_EmptySet
<1>3. TypeOK
  BY <1>1, <1>2 DEF Init, TypeOK, Empty
<1>4. InputsFit /\ SnapshotFits
  BY <1>1 DEF Init, InputsFit, SnapshotFits
<1>5. PhaseFits /\ HandlesFit
  BY <1>1 DEF Init, PhaseFits, HandlesFit
<1>6. QED
  BY <1>3, <1>4, <1>5 DEF IInv

(* What was chosen was seen, and is one keyboard and one mouse.            *)
LEMMA ChosenIs ==
  ASSUME IInv
  PROVE  /\ chosen \subseteq seen /\ chosen \subseteq listed
         /\ \A i, j \in chosen : i.port = j.port
         /\ \A i, j \in chosen : Role(i.face) = Role(j.face) => i = j
         /\ \A i \in chosen : Role(i.face) \in {"keyboard", "mouse"}
<1>1. IsFiniteSet(seen) /\ seen \subseteq listed
  BY FS_Subset DEF IInv, TypeOK
<1>2. CASE chosen = {}
  BY <1>2
<1>3. CASE chosen # {}
  <2>1. chosen \in Identities(seen)
    BY <1>3 DEF IInv, PhaseFits
  <2>2. QED
    BY <1>1, <2>1, IdentityIs
<1>4. QED
  BY <1>2, <1>3

(* A step of the kernel keeps it, when no input that was listed comes back *)
(* and a listed input whose device stays stays.                            *)
LEMMA KernelStepKeeps ==
  ASSUME IInv, UNCHANGED <<ScanVars, phase, verdict, chosen, handles>>,
         TypeOK', InputsFit',
         \A i \in listed : /\ i.plug \in 1 .. plugs'
                           /\ i.plug = bus'[i.port].plug => i \in inputs',
         listed \cap inputs' \subseteq inputs
  PROVE  IInv'
<1>1. SnapshotFits'
  BY DEF IInv, SnapshotFits, ScanVars
<1>2. PhaseFits'
  BY DEF IInv, PhaseFits, ScanVars
<1>3. HandlesFit'
  BY ChosenIs DEF IInv, HandlesFit
<1>4. QED
  BY <1>1, <1>2, <1>3 DEF IInv

(* A new device has a plug number that no listed input bears.              *)
LEMMA PlugKeeps ==
  ASSUME IInv, NEW p \in Ports, NEW kind \in Kinds, Plug(p, kind)
  PROVE  IInv'
<1>1. /\ plugs \in Nat /\ bus \in [Ports -> [plug : 0 .. plugs, kind : Seq(Face)]]
      /\ kind \in Seq(Face)
  BY KindsAssumption DEF IInv, TypeOK
<1>2. /\ plugs' = plugs + 1 /\ bus[p] = Empty
      /\ bus' = [bus EXCEPT ![p] = [plug |-> plugs + 1, kind |-> kind]]
      /\ UNCHANGED <<inputs, ScanVars, phase, verdict, chosen, handles>>
  BY DEF Plug
<1>3. plugs' \in Nat /\ 0 .. plugs \subseteq 0 .. plugs' /\ plugs + 1 \in 0 .. plugs'
      /\ 1 .. plugs \subseteq 1 .. plugs' /\ plugs + 1 # 0
  BY <1>1, <1>2
<1>4. \A q \in Ports : bus'[q] = IF q = p THEN [plug |-> plugs + 1, kind |-> kind] ELSE bus[q]
  BY <1>1, <1>2
<1>5. bus' \in [Ports -> [plug : 0 .. plugs', kind : Seq(Face)]]
  <2>1. [plug |-> plugs + 1, kind |-> kind] \in [plug : 0 .. plugs', kind : Seq(Face)]
    BY <1>1, <1>3
  <2>2. \A q \in Ports : bus[q] \in [plug : 0 .. plugs', kind : Seq(Face)]
    BY <1>1, <1>3
  <2>3. QED
    BY <1>1, <1>2, <2>1, <2>2
<1>6. TypeOK'
  BY <1>2, <1>3, <1>5 DEF IInv, TypeOK, ScanVars
<1>7. \A i \in inputs : i.port # p
  BY <1>2 DEF IInv, InputsFit, Empty
<1>8. InputsFit'
  <2>1. \A i \in inputs : i.port \in Ports
    BY DEF IInv, TypeOK, Input
  <2>2. \A q \in Ports : bus'[q].plug = 0 => bus'[q] = Empty
    BY <1>3, <1>4 DEF IInv, InputsFit
  <2>3. QED
    BY <1>2, <1>4, <1>7, <2>1, <2>2 DEF IInv, InputsFit
<1>9. ASSUME NEW i \in listed
      PROVE  i.plug \in 1 .. plugs' /\ (i.plug = bus'[i.port].plug => i \in inputs')
  <2>1. i.plug \in 1 .. plugs /\ (i.plug = bus[i.port].plug => i \in inputs) /\ i.port \in Ports
    BY DEF IInv, SnapshotFits, TypeOK, Input
  <2>2. i.plug # plugs + 1
    BY <1>1, <2>1
  <2>3. QED
    BY <1>2, <1>3, <1>4, <2>1, <2>2
<1>10. QED
  BY <1>2, <1>6, <1>8, <1>9, KernelStepKeeps

(* A new input is none of those listed: they are there, or of a device     *)
(* that went.                                                              *)
LEMMA AppearKeeps ==
  ASSUME IInv, NEW p \in Ports, Appear(p)
  PROVE  IInv'
<1>1. PICK part \in DOMAIN bus[p].kind \ Present(p) :
        inputs' = inputs \cup {[plug |-> bus[p].plug, port |-> p, part |-> part,
                                node |-> LowestFree, face |-> bus[p].kind[part]]}
  BY DEF Appear
<1> DEFINE new == [plug |-> bus[p].plug, port |-> p, part |-> part,
                   node |-> LowestFree, face |-> bus[p].kind[part]]
<1>2. /\ new.plug = bus[p].plug /\ new.port = p /\ new.part = part
      /\ new.node = LowestFree /\ new.face = bus[p].kind[part]
  OBVIOUS
<1>3. UNCHANGED <<bus, plugs, ScanVars, phase, verdict, chosen, handles>>
  BY DEF Appear
<1>4. LowestFree \in Nat /\ \A i \in inputs : i.node # LowestFree
  BY LowestFreeIsFree DEF IInv
<1>5. new \in Input
  <2>1. bus[p].plug \in 0 .. plugs /\ bus[p].kind \in Seq(Face) /\ plugs \in Nat
    BY DEF IInv, TypeOK
  <2>2. bus[p].plug \in Nat /\ part \in Nat /\ bus[p].kind[part] \in Face
    BY <1>1, <2>1
  <2>3. QED
    BY <1>4, <2>2 DEF Input
<1>6. new \notin listed
  <2>1. SUFFICES ASSUME new \in listed PROVE FALSE
    OBVIOUS
  <2>2. new \in inputs
    BY <1>2, <2>1 DEF IInv, SnapshotFits
  <2>3. part \in Present(p)
    BY <1>2, <2>2 DEF Present
  <2>4. QED
    BY <1>1, <2>3
<1> HIDE DEF new
<1>7. inputs' = inputs \cup {new}
  BY <1>1 DEF new
<1>8. TypeOK'
  <2>1. IsFiniteSet(inputs')
    BY <1>7, FS_AddElement DEF IInv, TypeOK
  <2>2. QED
    BY <1>3, <1>5, <1>7, <2>1 DEF IInv, TypeOK, ScanVars
<1>9. InputsFit'
  BY <1>1, <1>2, <1>3, <1>4, <1>7 DEF IInv, InputsFit
<1>10. \A i \in listed : /\ i.plug \in 1 .. plugs'
                         /\ i.plug = bus'[i.port].plug => i \in inputs'
  BY <1>3, <1>7 DEF IInv, SnapshotFits
<1>11. QED
  BY <1>3, <1>6, <1>7, <1>8, <1>9, <1>10, KernelStepKeeps

(* A device that goes takes its inputs with it.                            *)
LEMMA UnplugKeeps ==
  ASSUME IInv, NEW p \in Ports, Unplug(p)
  PROVE  IInv'
<1>1. /\ bus' = [bus EXCEPT ![p] = Empty] /\ inputs' = {i \in inputs : i.port # p}
      /\ UNCHANGED <<plugs, ScanVars, phase, verdict, chosen, handles>>
  BY DEF Unplug
<1>2. plugs \in Nat /\ bus \in [Ports -> [plug : 0 .. plugs, kind : Seq(Face)]]
  BY DEF IInv, TypeOK
<1>3. \A q \in Ports : bus'[q] = IF q = p THEN Empty ELSE bus[q]
  BY <1>1, <1>2
<1>4. TypeOK'
  <2>1. Empty \in [plug : 0 .. plugs, kind : Seq(Face)]
    BY <1>2 DEF Empty
  <2>2. bus' \in [Ports -> [plug : 0 .. plugs, kind : Seq(Face)]]
    BY <1>1, <1>2, <2>1
  <2>3. inputs' \subseteq inputs /\ IsFiniteSet(inputs')
    BY <1>1, FS_Subset DEF IInv, TypeOK
  <2>4. QED
    BY <1>1, <2>2, <2>3 DEF IInv, TypeOK, ScanVars
<1>5. InputsFit'
  <2>1. \A i \in inputs : i.port \in Ports
    BY DEF IInv, TypeOK, Input
  <2>2. QED
    BY <1>1, <1>3, <2>1 DEF IInv, InputsFit
<1>6. ASSUME NEW i \in listed
      PROVE  i.plug \in 1 .. plugs' /\ (i.plug = bus'[i.port].plug => i \in inputs')
  <2>1. i.plug \in 1 .. plugs /\ (i.plug = bus[i.port].plug => i \in inputs) /\ i.port \in Ports
    BY DEF IInv, SnapshotFits, TypeOK, Input
  <2>2. i.plug # Empty.plug
    BY <1>2, <2>1 DEF Empty
  <2>3. QED
    BY <1>1, <1>3, <2>1, <2>2
<1>7. QED
  BY <1>1, <1>4, <1>5, <1>6, KernelStepKeeps

(* A step of the attempt that leaves its scan alone.                       *)
LEMMA AfterScanKeeps ==
  ASSUME IInv, UNCHANGED <<BusVars, ScanVars>>, PhaseFits', HandlesFit'
  PROVE  IInv'
<1>1. TypeOK' /\ InputsFit' /\ SnapshotFits'
  BY DEF IInv, TypeOK, InputsFit, SnapshotFits, BusVars, ScanVars
<1>2. QED
  BY <1>1 DEF IInv

(* What is listed is what is there.                                        *)
LEMMA BeginKeeps == IInv /\ Begin => IInv'
<1>1. SUFFICES ASSUME IInv, Begin PROVE IInv'
  OBVIOUS
<1>2. /\ phase = "idle" /\ phase' = "scanning" /\ listed' = inputs /\ todo' = inputs
      /\ UNCHANGED <<bus, plugs, inputs, seen, verdict, chosen, handles>>
  BY <1>1 DEF Begin, BusVars
<1>3. seen = {} /\ verdict = "none" /\ chosen = {} /\ handles = {}
  BY <1>1, <1>2 DEF IInv, PhaseFits, HandlesFit
<1>4. TypeOK' /\ InputsFit'
  BY <1>1, <1>2, <1>3 DEF IInv, TypeOK, InputsFit
<1>5. SnapshotFits'
  <2>1. ASSUME NEW i \in inputs
        PROVE  i.plug \in 1 .. plugs
    <3>1. /\ i.port \in Ports /\ plugs \in Nat /\ bus[i.port].plug \in 0 .. plugs
          /\ i.plug = bus[i.port].plug /\ i.part \in DOMAIN bus[i.port].kind
      BY <1>1 DEF IInv, TypeOK, InputsFit, Input
    <3>2. bus[i.port] # Empty
      BY <3>1 DEF Empty
    <3>3. bus[i.port].plug # 0
      BY <1>1, <3>1, <3>2 DEF IInv, InputsFit
    <3>4. QED
      BY <3>1, <3>3
  <2>2. \A i, j \in inputs : i.port = j.port => i.plug = j.plug
    BY <1>1 DEF IInv, InputsFit
  <2>3. QED
    BY <1>2, <2>1, <2>2 DEF SnapshotFits
<1>6. PhaseFits' /\ HandlesFit'
  BY <1>2, <1>3 DEF PhaseFits, HandlesFit
<1>7. QED
  BY <1>4, <1>5, <1>6 DEF IInv

(* An input looked at is seen or gone.                                     *)
LEMMA LookKeeps == IInv /\ Look => IInv'
<1>1. SUFFICES ASSUME IInv, Look PROVE IInv'
  OBVIOUS
<1>2. /\ phase = "scanning" /\ todo' = todo \ {Turn}
      /\ seen' = (IF Turn \in inputs THEN seen \cup {Turn} ELSE seen)
      /\ UNCHANGED <<bus, plugs, inputs, listed, phase, verdict, chosen, handles>>
  BY <1>1 DEF Look, BusVars
<1>3. Turn \in todo
  BY <1>1 DEF Look, Turn
<1>4. TypeOK' /\ InputsFit'
  BY <1>1, <1>2, <1>3 DEF IInv, TypeOK, InputsFit
<1>5. SnapshotFits'
  BY <1>1, <1>2 DEF IInv, SnapshotFits
<1>6. PhaseFits' /\ HandlesFit'
  BY <1>1, <1>2 DEF IInv, PhaseFits, HandlesFit
<1>7. QED
  BY <1>4, <1>5, <1>6 DEF IInv

(* The verdict is what the records say.                                    *)
LEMMA SelectKeeps == IInv /\ Select => IInv'
<1>1. SUFFICES ASSUME IInv, Select PROVE IInv'
  OBVIOUS
<1>2. /\ phase = "scanning" /\ todo = {} /\ verdict' = Selection(seen)
      /\ UNCHANGED <<BusVars, ScanVars, handles>>
      /\ IF verdict' = "selected"
           THEN phase' = "opening" /\ chosen' \in Identities(seen)
           ELSE phase' = "failed" /\ chosen' = {}
  BY <1>1 DEF Select
<1>3. todo' = {} /\ seen' = seen /\ handles' = {}
  BY <1>1, <1>2 DEF IInv, HandlesFit, ScanVars
<1>4. PhaseFits' /\ HandlesFit'
  BY <1>2, <1>3 DEF PhaseFits, HandlesFit
<1>5. QED
  BY <1>1, <1>2, <1>4, AfterScanKeeps

(* What is opened for a role under the name of the chosen record is that   *)
(* record's input, if that is still there.                                 *)
LEMMA OpensRight ==
  ASSUME IInv, NEW role, NEW h \in Opens(role)
  PROVE  /\ h[1] = role
         /\ \A i \in chosen : i \in inputs /\ role = Role(i.face) => h[2] = i
<1>1. PICK x \in UNION {AtNode(r.node) : r \in InRole(chosen, role)} : h = <<role, x>>
  BY DEF Opens
<1>2. PICK r \in InRole(chosen, role) : x \in AtNode(r.node)
  BY <1>1
<1>3. x \in inputs /\ x.node = r.node /\ r \in chosen /\ Role(r.face) = role
  BY <1>2 DEF AtNode, InRole
<1>4. ASSUME NEW i \in chosen, i \in inputs, role = Role(i.face)
      PROVE  x = i
  <2>1. r = i
    BY <1>3, <1>4, ChosenIs
  <2>2. QED
    BY <1>3, <1>4, <2>1 DEF IInv, InputsFit
<1>5. QED
  BY <1>1, <1>4

(* The keyboard is opened first.                                           *)
LEMMA OpenKeyboardKeeps == IInv /\ OpenKeyboard => IInv'
<1>1. SUFFICES ASSUME IInv, OpenKeyboard PROVE IInv'
  OBVIOUS
<1>2. /\ phase = "opening" /\ handles' = Opens("keyboard")
      /\ phase' = (IF handles' = {} THEN "failed" ELSE "half_open")
      /\ UNCHANGED <<BusVars, ScanVars, verdict, chosen>>
  BY <1>1 DEF OpenKeyboard
<1>3. PhaseFits'
  BY <1>1, <1>2 DEF IInv, PhaseFits, ScanVars
<1>4. HandlesFit'
  <2>1. \A h \in handles' :
          /\ h[1] = "keyboard"
          /\ \A i \in chosen : i \in inputs /\ "keyboard" = Role(i.face) => h[2] = i
    BY <1>1, <1>2, OpensRight
  <2>2. QED
    BY <1>2, <2>1 DEF HandlesFit, BusVars
<1>5. QED
  BY <1>1, <1>2, <1>3, <1>4, AfterScanKeeps

(* Then the mouse, or the keyboard is closed again.                        *)
LEMMA OpenMouseKeeps == IInv /\ OpenMouse => IInv'
<1>1. SUFFICES ASSUME IInv, OpenMouse PROVE IInv'
  OBVIOUS
<1>2. /\ phase = "half_open"
      /\ handles' = (IF Opens("mouse") = {} THEN {} ELSE handles \cup Opens("mouse"))
      /\ phase' = (IF handles' = {} THEN "failed" ELSE "reading")
      /\ UNCHANGED <<BusVars, ScanVars, verdict, chosen>>
  BY <1>1 DEF OpenMouse
<1>3. PhaseFits'
  BY <1>1, <1>2 DEF IInv, PhaseFits, ScanVars
<1>4. HandlesFit'
  <2>1. \A h \in Opens("mouse") :
          /\ h[1] = "mouse"
          /\ \A i \in chosen : i \in inputs /\ "mouse" = Role(i.face) => h[2] = i
    BY <1>1, OpensRight
  <2>2. /\ \E h \in handles : h[1] = "keyboard"
        /\ \A h \in handles, i \in chosen : i \in inputs /\ h[1] = Role(i.face) => h[2] = i
    BY <1>1, <1>2 DEF IInv, HandlesFit
  <2>3. UNCHANGED <<inputs, chosen>>
    BY <1>2 DEF BusVars
  <2>4. CASE Opens("mouse") = {}
    BY <1>2, <2>4 DEF HandlesFit
  <2>5. CASE Opens("mouse") # {}
    BY <1>2, <2>1, <2>2, <2>3, <2>5 DEF HandlesFit
  <2>6. QED
    BY <2>4, <2>5
<1>5. QED
  BY <1>1, <1>2, <1>3, <1>4, AfterScanKeeps

(* A failed read closes both.                                              *)
LEMMA ReadFailsKeeps == IInv /\ ReadFails => IInv'
<1>1. SUFFICES ASSUME IInv, ReadFails PROVE IInv'
  OBVIOUS
<1>2. /\ phase = "reading" /\ phase' = "failed" /\ handles' = {}
      /\ UNCHANGED <<BusVars, ScanVars, verdict, chosen>>
  BY <1>1 DEF ReadFails
<1>3. PhaseFits' /\ HandlesFit'
  BY <1>1, <1>2 DEF IInv, PhaseFits, HandlesFit, ScanVars
<1>4. QED
  BY <1>1, <1>2, <1>3, AfterScanKeeps

(* A new attempt knows nothing of the last.                                *)
LEMMA TryAgainKeeps == IInv /\ TryAgain => IInv'
<1>1. SUFFICES ASSUME IInv, TryAgain PROVE IInv'
  OBVIOUS
<1>2. /\ phase = "failed" /\ phase' = "idle"
      /\ listed' = {} /\ seen' = {} /\ verdict' = "none" /\ chosen' = {}
      /\ UNCHANGED <<bus, plugs, inputs, todo, handles>>
  BY <1>1 DEF TryAgain, BusVars
<1>3. todo = {} /\ handles = {}
  BY <1>1, <1>2 DEF IInv, PhaseFits, HandlesFit
<1>4. TypeOK'
  BY <1>1, <1>2, <1>3, FS_EmptySet DEF IInv, TypeOK
<1>5. InputsFit' /\ SnapshotFits'
  BY <1>1, <1>2 DEF IInv, InputsFit, SnapshotFits
<1>6. PhaseFits' /\ HandlesFit'
  BY <1>2, <1>3 DEF PhaseFits, HandlesFit
<1>7. QED
  BY <1>4, <1>5, <1>6 DEF IInv

(* Every step keeps the inductive invariant.                               *)
LEMMA StepKeeps == IInv /\ [Next]_vars => IInv'
<1>1. ASSUME IInv, UNCHANGED vars PROVE IInv'
  BY <1>1 DEF vars, BusVars, ScanVars, IInv, TypeOK, InputsFit, SnapshotFits,
              PhaseFits, HandlesFit
<1>2. IInv /\ Attempt => IInv'
  BY BeginKeeps, LookKeeps, SelectKeeps, OpenKeyboardKeeps, OpenMouseKeeps,
     ReadFailsKeeps, TryAgainKeeps DEF Attempt
<1>3. IInv /\ Kernel => IInv'
  BY PlugKeeps, AppearKeeps, UnplugKeeps DEF Kernel
<1>4. QED
  BY <1>1, <1>2, <1>3 DEF Next

(* The inductive invariant holds of every behaviour.                       *)
THEOREM InvHolds == Spec => []IInv
  BY InitHolds, StepKeeps, PTL DEF Spec

(* Ports, inputs and records are well formed, however many there are.      *)
THEOREM TypeCorrect == Spec => []TypeOK
<1>1. IInv => TypeOK
  BY DEF IInv
<1>2. QED
  BY <1>1, InvHolds, PTL

-----------------------------------------------------------------------------
(* What the invariant says of the endpoints.                               *)
LEMMA ReadsOne == IInv => ReadsOneDevice
<1>1. SUFFICES ASSUME IInv PROVE ReadsOneDevice
  OBVIOUS
<1>2. \A i, j \in chosen : i.plug = j.plug
  BY <1>1, ChosenIs DEF IInv, SnapshotFits
<1>3. \A h \in handles, i \in chosen : i \in inputs /\ h[1] = Role(i.face) => h[2] = i
  BY <1>1 DEF IInv, HandlesFit
<1>4. ASSUME phase = "reading", NEW i \in chosen
      PROVE  \E h \in handles : h[1] = Role(i.face)
  <2>1. Role(i.face) \in {"keyboard", "mouse"}
    BY <1>1, ChosenIs
  <2>2. QED
    BY <1>1, <1>4, <2>1 DEF IInv, HandlesFit
<1>5. QED
  BY <1>2, <1>3, <1>4 DEF ReadsOneDevice

(* Keyboard and mouse are one device, plugged in once, and what is open    *)
(* under a chosen input's name is that input as long as it is there,       *)
(* however devices come and go and nodes are numbered anew.                *)
THEOREM AlwaysReadsOneDevice == Spec => []ReadsOneDevice
  BY ReadsOne, InvHolds, PTL

-----------------------------------------------------------------------------
(* No choice between devices.                                              *)

(* Of a device that stayed all through the scan every interface was seen.  *)
LEMMA StayedIsSeen ==
  ASSUME IInv, verdict = "selected", NEW p \in Stayed, NEW part \in DOMAIN bus[p].kind
  PROVE  \E i \in seen : i.port = p /\ i.part = part /\ i.face = bus[p].kind[part]
<1>1. PICK i \in listed \cap inputs : i.port = p /\ i.part = part
  BY DEF Stayed
<1>2. todo = {}
  BY DEF IInv, PhaseFits
<1>3. i \in seen
  BY <1>1, <1>2 DEF IInv, SnapshotFits
<1>4. i.face = bus[p].kind[part]
  BY <1>1 DEF IInv, InputsFit
<1>5. QED
  BY <1>1, <1>3, <1>4

(* When one was selected, no interface of a device that stayed is both a   *)
(* keyboard and a mouse,                                                   *)
LEMMA NoneIsBoth ==
  ASSUME IInv, verdict = "selected", NEW p \in Stayed, NEW part \in DOMAIN bus[p].kind,
         Matches(bus[p].kind[part])
  PROVE  ~(bus[p].kind[part].keyboard /\ bus[p].kind[part].mouse)
<1>1. PICK r \in seen : r.port = p /\ r.face = bus[p].kind[part]
  BY StayedIsSeen
<1> DEFINE g == {x \in seen : Matches(x.face) /\ x.port = r.port}
<1>2. g \in Groups(seen) /\ r \in g
  BY <1>1, GroupOfPort
<1> HIDE DEF g
<1>3. IsFiniteSet(seen) /\ Selection(seen) = "selected" /\ r.face \in Face
  BY FS_Subset DEF IInv, TypeOK, PhaseFits, Input
<1>4. InRole(g, "ambiguous") = {}
  BY <1>2, <1>3, SelectedIs DEF IsAmbiguous
<1>5. Role(r.face) # "ambiguous"
  BY <1>2, <1>4 DEF InRole
<1>6. QED
  BY <1>1, <1>3, <1>5, RoleIs

(* and no two are both keyboards, or both mice.                            *)
LEMMA OneOfARole ==
  ASSUME IInv, verdict = "selected", NEW p \in Stayed,
         NEW i \in DOMAIN bus[p].kind, NEW j \in DOMAIN bus[p].kind,
         Matches(bus[p].kind[i]), Matches(bus[p].kind[j]),
         NEW role \in {"keyboard", "mouse"},
         Role(bus[p].kind[i]) = role, Role(bus[p].kind[j]) = role
  PROVE  i = j
<1>1. PICK r \in seen : r.port = p /\ r.part = i /\ r.face = bus[p].kind[i]
  BY StayedIsSeen
<1>2. PICK s \in seen : s.port = p /\ s.part = j /\ s.face = bus[p].kind[j]
  BY StayedIsSeen
<1> DEFINE g == {x \in seen : Matches(x.face) /\ x.port = r.port}
<1>3. g \in Groups(seen) /\ r \in g /\ s \in g /\ g \subseteq seen
  BY <1>1, <1>2, GroupOfPort
<1> HIDE DEF g
<1>4. IsFiniteSet(seen) /\ Selection(seen) = "selected"
  BY FS_Subset DEF IInv, TypeOK, PhaseFits
<1>5. ~(Cardinality(InRole(g, role)) > 1)
  BY <1>3, <1>4, SelectedIs DEF IsAmbiguous
<1>6. IsFiniteSet(InRole(g, role))
  <2>1. InRole(g, role) \subseteq seen
    BY <1>3 DEF InRole
  <2>2. QED
    BY <1>4, <2>1, FS_Subset
<1>7. r \in InRole(g, role) /\ s \in InRole(g, role)
  BY <1>1, <1>2, <1>3 DEF InRole
<1>8. r = s
  BY <1>5, <1>6, <1>7, AtMostOne
<1>9. QED
  BY <1>1, <1>2, <1>8

(* The interfaces of a plugged device have faces.                          *)
LEMMA PartFace ==
  ASSUME IInv, NEW p \in Ports, NEW part \in DOMAIN bus[p].kind
  PROVE  bus[p].kind[part] \in Face
<1>1. bus[p].kind \in Seq(Face)
  BY DEF IInv, TypeOK
<1>2. QED
  BY <1>1

(* So a device that stayed is not puzzling.                                *)
LEMMA NothingPuzzling ==
  ASSUME IInv, verdict = "selected", NEW p \in Stayed
  PROVE  ~Puzzling(bus[p].kind)
<1> DEFINE kind == bus[p].kind
           mine == {i \in DOMAIN kind : Matches(kind[i])}
<1>1. \A i \in mine : ~(kind[i].keyboard /\ kind[i].mouse)
  BY NoneIsBoth
<1>2. p \in Ports
  BY DEF Stayed
<1>3. \A i \in mine : /\ kind[i].keyboard => Role(kind[i]) = "keyboard"
                      /\ kind[i].mouse => Role(kind[i]) = "mouse"
  BY <1>1, <1>2, PartFace, RoleIs
<1>4. ASSUME NEW i \in mine, NEW j \in mine,
             \/ kind[i].keyboard /\ kind[j].keyboard
             \/ kind[i].mouse /\ kind[j].mouse
      PROVE  i = j
  BY <1>3, <1>4, OneOfARole
<1>5. QED
  BY <1>1, <1>4 DEF Puzzling

(* A keypad that stayed makes an identity of its port.                     *)
LEMMA KeypadIsIdentity ==
  ASSUME IInv, verdict = "selected", NEW p \in Stayed, Keypad(bus[p].kind)
  PROVE  \E id \in Identities(seen) : id # {} /\ \A r \in id : r.port = p
<1> DEFINE kind == bus[p].kind
           mine == {i \in DOMAIN kind : Matches(kind[i])}
<1>1. p \in Ports
  BY DEF Stayed
<1>2. /\ Cardinality({i \in mine : kind[i].keyboard}) = 1
      /\ Cardinality({i \in mine : kind[i].mouse}) = 1
      /\ \A i \in mine : ~(kind[i].keyboard /\ kind[i].mouse)
  BY DEF Keypad
<1>3. PICK k \in mine : kind[k].keyboard
  <2>1. Cardinality({}) # 1
    BY FS_EmptySet
  <2>2. {i \in mine : kind[i].keyboard} # {}
    BY <1>2, <2>1
  <2>3. QED
    BY <2>2
<1>4. PICK m \in mine : kind[m].mouse
  <2>1. Cardinality({}) # 1
    BY FS_EmptySet
  <2>2. {i \in mine : kind[i].mouse} # {}
    BY <1>2, <2>1
  <2>3. QED
    BY <2>2
<1>5. Role(kind[k]) = "keyboard" /\ Role(kind[m]) = "mouse"
  BY <1>1, <1>2, <1>3, <1>4, PartFace, RoleIs
<1>6. PICK r \in seen : r.port = p /\ r.face = kind[k]
  BY StayedIsSeen
<1>7. PICK s \in seen : s.port = p /\ s.face = kind[m]
  BY StayedIsSeen
<1>8. Matches(r.face) /\ Matches(s.face)
  BY <1>6, <1>7
<1> HIDE DEF kind, mine
<1> DEFINE g  == {x \in seen : Matches(x.face) /\ x.port = r.port}
           id == InRole(g, "keyboard") \cup InRole(g, "mouse")
<1>9. g \in Groups(seen) /\ r \in g /\ s \in g
  BY <1>6, <1>7, <1>8, GroupOfPort
<1>10. \A x \in g : x.port = p
  BY <1>6
<1> HIDE DEF g
<1>11. r \in InRole(g, "keyboard") /\ s \in InRole(g, "mouse")
  BY <1>5, <1>6, <1>7, <1>9 DEF InRole
<1>12. IsFiniteSet(seen) /\ Selection(seen) = "selected"
  BY FS_Subset DEF IInv, TypeOK, PhaseFits
<1>13. ~IsAmbiguous(g)
  BY <1>9, <1>12, SelectedIs
<1>14. g \in Complete(seen)
  BY <1>9, <1>11, <1>13 DEF Complete, IsIncomplete
<1>15. id \in Identities(seen)
  BY <1>14 DEF Identities
<1>16. id # {} /\ \A x \in id : x.port = p
  BY <1>10, <1>11 DEF InRole
<1>17. QED
  BY <1>15, <1>16

(* Fail-closed on multiple devices, for any number of ports and devices:   *)
(* while two keypads, or one that is not what a keypad should be, stay     *)
(* plugged in, nothing is selected, whatever else comes and goes.          *)
THEOREM AlwaysNeverGuesses == Spec => []NeverGuesses
<1>1. ASSUME IInv, verdict = "selected", NEW p \in Stayed, NEW q \in Stayed,
             Keypad(bus[p].kind), Keypad(bus[q].kind)
      PROVE  p = q
  <2>1. PICK a \in Identities(seen) : a # {} /\ \A r \in a : r.port = p
    BY <1>1, KeypadIsIdentity
  <2>2. PICK b \in Identities(seen) : b # {} /\ \A r \in b : r.port = q
    BY <1>1, KeypadIsIdentity
  <2>3. IsFiniteSet(seen) /\ Selection(seen) = "selected"
    BY <1>1, FS_Subset DEF IInv, TypeOK, PhaseFits
  <2>4. a = b
    BY <2>3, SelectedIs
  <2>5. QED
    BY <2>1, <2>2, <2>4
<1>2. IInv => NeverGuesses
  BY <1>1, NothingPuzzling DEF NeverGuesses
<1>3. QED
  BY <1>2, InvHolds, PTL

=============================================================================
