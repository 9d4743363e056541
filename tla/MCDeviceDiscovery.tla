------------------------ MODULE MCDeviceDiscovery --------------------------
(* A keypad as the tests describe it (canonical in sysfs, and reversed in  *)
(* the udev fallbacks of one that sysfs does not describe), one whose      *)
(* mouse is on another interface, one with two keyboards, one interface    *)
(* that is both, and a keyboard that has the names but not the ids.        *)
EXTENDS DeviceDiscovery

Interface(sources, role, number) ==
  [usb |-> TRUE, ids |-> sources.ids, maker |-> sources.maker, product |-> sources.product,
   interface |-> number, keyboard |-> role \in {"keyboard", "both"},
   mouse |-> role \in {"mouse", "both"}]

Canonical == [ids |-> <<"yyr4", "yyr4">>, maker |-> <<"youyou_tec", "other", "other">>,
              product |-> <<"youyou_keyb", "other", "other">>]
Fallback  == [ids |-> <<Absent, "yyr4">>, maker |-> <<Absent, "youyou_keyb", "other">>,
              product |-> <<Absent, Absent, "youyou_tec">>]
Stranger  == [Canonical EXCEPT !.ids = <<"other", "yyr4">>]

MCKinds ==
  { <<Interface(Canonical, "keyboard", "02"), Interface(Canonical, "mouse", "02")>>,
    <<Interface(Fallback, "mouse", "02"), Interface(Fallback, "keyboard", "02")>>,
    <<Interface(Canonical, "keyboard", "02"), Interface(Canonical, "keyboard", "02"),
      Interface(Canonical, "mouse", "02")>>,
    <<Interface(Canonical, "keyboard", "02"), Interface(Canonical, "mouse", "other")>>,
    <<Interface(Canonical, "both", "02")>>,
    <<Interface(Stranger, "keyboard", "02")>> }
=============================================================================
