-------------------------- MODULE DeviceDiscovery --------------------------
(***************************************************************************)
(* How an attempt to observe finds its keypad (device/discovery.py,        *)
(* linux_udev.py, identity.py) and opens it (input/evdev_adapter.py),      *)
(* while devices are plugged in and out under it.                          *)
(*                                                                         *)
(* The kernel is external: a device is plugged into a port, its event      *)
(* nodes appear one by one, each with the lowest free number, and all of   *)
(* them vanish with it. An attempt lists the inputs, looks at each in      *)
(* turn, groups them by the USB device they hang on, selects, and opens    *)
(* what it selected by the NAMES of the nodes. What the daemon does after  *)
(* a failed attempt is in DaemonRuntime: here it simply tries again.       *)
(***************************************************************************)
EXTENDS Naturals, Sequences, FiniteSets

CONSTANTS
  Ports,      (* where a USB device may be plugged in: the parent syspaths *)
  Kinds,      (* the devices there are: sequences of faces                 *)
  MaxPlugs    (* bound: how often something is plugged in                  *)

(* A face is what udev and sysfs tell of one interface. A descriptor is    *)
(* read from up to three sources: what each of them gives, in the order of *)
(* their priority, Absent when it is missing or cannot be decoded.         *)
Absent == "absent"

Face == [usb : BOOLEAN, ids : Seq({"yyr4", "other", Absent}),
         maker : Seq({"youyou_tec", "youyou_keyb", "other", Absent}),
         product : Seq({"youyou_tec", "youyou_keyb", "other", Absent}),
         interface : {"02", "other"}, keyboard : BOOLEAN, mouse : BOOLEAN]

ASSUME KindsAssumption == Kinds \subseteq Seq(Face)

VARIABLES
  bus,        (* the device in each port: [plug, kind], Empty when none    *)
  plugs,      (* how many devices have been plugged in so far              *)
  inputs,     (* the event nodes there are: [plug, port, part, node, face] *)
  phase,      (* what the attempt is doing                                 *)
  listed,     (* the inputs there were when the scan began                 *)
  todo,       (* those of them the scan has still to look at               *)
  seen,       (* the records of those it found still there                 *)
  verdict,    (* what the selection made of the records                    *)
  chosen,     (* the records of the identity selected                      *)
  handles     (* the open nodes: <<source, input it reads>>                *)

BusVars  == <<bus, plugs, inputs>>
ScanVars == <<listed, todo, seen>>
vars == <<BusVars, ScanVars, phase, verdict, chosen, handles>>

-----------------------------------------------------------------------------
(* What a record says of its interface.                                    *)
FirstReading(readings) ==
  LET known == SelectSeq(readings, LAMBDA r : r # Absent)
  IN  IF known = <<>> THEN Absent ELSE Head(known)

Layouts == {<<"youyou_tec", "youyou_keyb">>, <<"youyou_keyb", "youyou_tec">>}

Matches(face) ==
  /\ face.usb
  /\ FirstReading(face.ids) = "yyr4"
  /\ <<FirstReading(face.maker), FirstReading(face.product)>> \in Layouts
  /\ face.interface = "02"

Role(face) ==
  CASE face.keyboard /\ face.mouse  -> "ambiguous"
    [] face.keyboard /\ ~face.mouse -> "keyboard"
    [] face.mouse /\ ~face.keyboard -> "mouse"
    [] OTHER                        -> "missing"

-----------------------------------------------------------------------------
(* What discover_all and select_single make of the records.                *)
InRole(group, role) == {r \in group : Role(r.face) = role}

IsAmbiguousSlip(group) == InRole(group, "ambiguous") # {}

IsAmbiguous(group) ==
  LET keyboards == InRole(group, "keyboard")
      mice      == InRole(group, "mouse")
  IN  \/ InRole(group, "ambiguous") # {}
      \/ Cardinality(keyboards) > 1 \/ Cardinality(mice) > 1
      \/ \E k \in keyboards, m \in mice : k.node = m.node

IsIncomplete(group) ==
  ~IsAmbiguous(group) /\ (InRole(group, "keyboard") = {} \/ InRole(group, "mouse") = {})

GroupsSlip(records) == {{r \in records : Matches(r.face)}} \ {{}}

Groups(records) ==
  LET matched == {r \in records : Matches(r.face)}
  IN  {{r \in matched : r.port = p} : p \in {r.port : r \in matched}}

Complete(records) == {g \in Groups(records) : ~IsAmbiguous(g) /\ ~IsIncomplete(g)}

Identities(records) ==
  {InRole(g, "keyboard") \cup InRole(g, "mouse") : g \in Complete(records)}

SelectionSlip(records) ==
  IF Cardinality(Groups(records)) > 1 THEN "ambiguous"
  ELSE IF Cardinality(Identities(records)) = 1 THEN "selected"
  ELSE "not_found"

Selection(records) ==
  IF Cardinality(Identities(records)) > 1 \/ \E g \in Groups(records) : IsAmbiguous(g)
  THEN "ambiguous"
  ELSE IF Cardinality(Identities(records)) = 1 THEN "selected"
  ELSE IF Groups(records) # {} THEN "incomplete"
  ELSE "not_found"

-----------------------------------------------------------------------------
(* The kernel.                                                             *)
Empty == [plug |-> 0, kind |-> <<>>]

Plug(p, kind) ==
  /\ bus[p] = Empty
  /\ plugs < MaxPlugs
  /\ plugs' = plugs + 1
  /\ bus' = [bus EXCEPT ![p] = [plug |-> plugs + 1, kind |-> kind]]
  /\ UNCHANGED <<inputs, ScanVars, phase, verdict, chosen, handles>>

LowestFree ==
  LET taken == {i.node : i \in inputs}
  IN  CHOOSE n \in 0..Cardinality(taken) : n \notin taken /\ \A k \in 0..(n - 1) : k \in taken

Present(p) == {i.part : i \in {j \in inputs : j.port = p}}

Appear(p) ==
  /\ \E part \in DOMAIN bus[p].kind \ Present(p) :
       inputs' = inputs \cup {[plug |-> bus[p].plug, port |-> p, part |-> part,
                               node |-> LowestFree, face |-> bus[p].kind[part]]}
  /\ UNCHANGED <<bus, plugs, ScanVars, phase, verdict, chosen, handles>>

Unplug(p) ==
  /\ bus[p] # Empty
  /\ bus' = [bus EXCEPT ![p] = Empty]
  /\ inputs' = {i \in inputs : i.port # p}
  /\ UNCHANGED <<plugs, ScanVars, phase, verdict, chosen, handles>>

-----------------------------------------------------------------------------
(* The attempt.                                                            *)
Init ==
  /\ bus = [p \in Ports |-> Empty]
  /\ plugs = 0
  /\ inputs = {}
  /\ phase = "idle"
  /\ listed = {} /\ todo = {} /\ seen = {}
  /\ verdict = "none"
  /\ chosen = {}
  /\ handles = {}

(* list_devices takes the names of the inputs there are.                   *)
Begin ==
  /\ phase = "idle"
  /\ phase' = "scanning"
  /\ listed' = inputs /\ todo' = inputs
  /\ UNCHANGED <<BusVars, seen, verdict, chosen, handles>>

(* They are looked at in the order of the list. An input that is gone when *)
(* its turn comes, or whose USB device is, is passed over.                 *)
Turn == CHOOSE i \in todo : TRUE

Look ==
  /\ phase = "scanning"
  /\ todo # {}
  /\ todo' = todo \ {Turn}
  /\ seen' = IF Turn \in inputs THEN seen \cup {Turn} ELSE seen
  /\ UNCHANGED <<BusVars, listed, phase, verdict, chosen, handles>>

Select ==
  /\ phase = "scanning"
  /\ todo = {}
  /\ verdict' = Selection(seen)
  /\ IF verdict' = "selected"
       THEN phase' = "opening" /\ chosen' \in Identities(seen)
       ELSE phase' = "failed" /\ chosen' = {}
  /\ UNCHANGED <<BusVars, ScanVars, handles>>

(* The nodes are opened by name: what bears the name by now is opened.     *)
AtNode(node) == {i \in inputs : i.node = node}

Opens(role) ==
  {<<role, i>> : i \in UNION {AtNode(r.node) : r \in InRole(chosen, role)}}

OpenKeyboard ==
  /\ phase = "opening"
  /\ handles' = Opens("keyboard")
  /\ phase' = IF handles' = {} THEN "failed" ELSE "half_open"
  /\ UNCHANGED <<BusVars, ScanVars, verdict, chosen>>

(* When the mouse does not open the adapter is closed again.               *)
OpenMouse ==
  /\ phase = "half_open"
  /\ handles' = IF Opens("mouse") = {} THEN {} ELSE handles \cup Opens("mouse")
  /\ phase' = IF handles' = {} THEN "failed" ELSE "reading"
  /\ UNCHANGED <<BusVars, ScanVars, verdict, chosen>>

(* A read of an input that is gone fails, and that closes the adapter.     *)
ReadFails ==
  /\ phase = "reading"
  /\ \E h \in handles : h[2] \notin inputs
  /\ phase' = "failed"
  /\ handles' = {}
  /\ UNCHANGED <<BusVars, ScanVars, verdict, chosen>>

(* Every failure of discovery and of the input is recoverable: the session *)
(* is over, and the next one has a pipeline of its own.                    *)
TryAgain ==
  /\ phase = "failed"
  /\ phase' = "idle"
  /\ listed' = {} /\ seen' = {} /\ verdict' = "none" /\ chosen' = {}
  /\ UNCHANGED <<BusVars, todo, handles>>

Attempt == Begin \/ Look \/ Select \/ OpenKeyboard \/ OpenMouse
             \/ ReadFails \/ TryAgain

Kernel == \E p \in Ports : (\E kind \in Kinds : Plug(p, kind)) \/ Appear(p) \/ Unplug(p)

Next == Attempt \/ Kernel

(* The session loop keeps trying, and a plugged device becomes visible.    *)
Fairness == WF_vars(Attempt) /\ \A p \in Ports : WF_vars(Appear(p))

Spec == Init /\ [][Next]_vars /\ Fairness

-----------------------------------------------------------------------------
(* The devices themselves, as docs/device-discovery.md describes them.     *)
Keypad(kind) ==
  LET mine == {i \in DOMAIN kind : Matches(kind[i])}
  IN  /\ Cardinality({i \in mine : kind[i].keyboard}) = 1
      /\ Cardinality({i \in mine : kind[i].mouse}) = 1
      /\ \A i \in mine : ~(kind[i].keyboard /\ kind[i].mouse)

Puzzling(kind) ==
  LET mine == {i \in DOMAIN kind : Matches(kind[i])}
  IN  \/ \E i \in mine : kind[i].keyboard /\ kind[i].mouse
      \/ \E i, j \in mine : i # j /\ kind[i].keyboard /\ kind[j].keyboard
      \/ \E i, j \in mine : i # j /\ kind[i].mouse /\ kind[j].mouse

(* The ports whose device was there, whole, all through the scan.          *)
Stayed == {p \in Ports : bus[p] # Empty /\ \A part \in DOMAIN bus[p].kind :
                           \E i \in listed \cap inputs : i.port = p /\ i.part = part}

(* Fail-closed on multiple devices (docs/device-discovery.md:28): while    *)
(* two keypads, or one that is not what a keypad should be, stay plugged   *)
(* in, nothing is selected, whatever else is plugged in or out meanwhile.  *)
NeverGuesses ==
  verdict = "selected"
    => /\ \A p \in Stayed : ~Puzzling(bus[p].kind)
       /\ \A p, q \in Stayed : Keypad(bus[p].kind) /\ Keypad(bus[q].kind) => p = q

(* The endpoints share one physical device (docs/device-discovery.md:20):  *)
(* as long as a selected input is there, its node is open for its own      *)
(* source, and keyboard and mouse were one device, plugged in once.        *)
ReadsOneDevice ==
  /\ \A i, j \in chosen : i.plug = j.plug
  /\ \A h \in handles, i \in chosen :
       i \in inputs /\ h[1] = Role(i.face) => h[2] = i
  /\ phase = "reading" => \A i \in chosen : \E h \in handles : h[1] = Role(i.face)

(* One keypad among devices that are none is found in the end, however     *)
(* many attempts failed before, and read until it goes.                    *)
OnlyOne ==
  \E p \in Ports : /\ bus[p] # Empty /\ Keypad(bus[p].kind)
                   /\ \A q \in Ports \ {p} : ~Puzzling(bus[q].kind) /\ ~Keypad(bus[q].kind)

FindsIt == <>[]OnlyOne => <>[](phase = "reading")
=============================================================================
