--------------------------- MODULE MCConfigDraft ----------------------------
(* Instance of the draft for TLC: three profile names and three layers,   *)
(* so that renames can chain and swap, one control, and one action of     *)
(* each kind that matters.                                                 *)
EXTENDS ConfigDraft

CONSTANTS p, q, r, k, none

Plain == [kind |-> "command", target |-> none]

MCActions ==
  {Plain} \cup {[kind |-> "set_profile", target |-> x] : x \in Profiles}
          \cup {[kind |-> "set_layer", target |-> l] : l \in Layers}

Mapped(a) == [x \in {k} |-> a]

(* One profile that switches to another, one that switches layers.         *)
MCFiles ==
  {[default |-> p, initial |-> 0, profiles |->
      [x \in {p, q} |->
         IF x = p THEN [l \in {0} |-> Mapped([kind |-> "set_profile", target |-> q])]
                  ELSE [l \in {0, 1} |-> Mapped(IF l = 0 THEN [kind |-> "set_layer", target |-> 1]
                                                          ELSE Plain)]]],
   [default |-> p, initial |-> 1, profiles |->
      [x \in {p} |-> [l \in {0, 1} |-> IF l = 0 THEN Mapped(Plain) ELSE Unmapped]]]}
=============================================================================
