--------------------------- MODULE TransportParser ---------------------------
(***************************************************************************)
(* transport/parser.py: raw key events of the keyboard interface become    *)
(* control events. A button is an F key, an encoder position is an F key   *)
(* in the window a Shift press opens; the firmware releases Shift before   *)
(* the F key, so the control that goes up is the one that went down, not   *)
(* the one the keys spell at that moment.                                  *)
(*                                                                         *)
(* feed() and reset() return the events they emit; "out" is what the last  *)
(* call returned, as a set: at most one event, or the releases of a reset, *)
(* which differ in their controls only. Counters are left out.             *)
(***************************************************************************)
EXTENDS Integers, Functions

CONSTANTS
  Codes,     (* key codes that begin with KEY_F                            *)
  Shift,     (* KEY_LEFTSHIFT                                              *)
  Other,     (* any other key                                              *)
  Controls,  (* PhysicalControls                                           *)
  Codebook,  (* <<code, shifted>> -> control                               *)
  Timeout,   (* modifier_timeout_ms, in the unit of the timestamps         *)
  MaxTime    (* bound on the timestamps of a checked behaviour             *)

(* Codebook.__init__ refuses duplicates.                                   *)
ASSUME CodebookAssumption ==
  /\ Shift \notin Codes /\ Other \notin Codes /\ Shift # Other
  /\ DOMAIN Codebook \subseteq Codes \X BOOLEAN
  /\ \A x \in DOMAIN Codebook : Codebook[x] \in Controls
  /\ \A x, y \in DOMAIN Codebook : Codebook[x] = Codebook[y] => x = y
  /\ Timeout \in Nat \ {0} /\ MaxTime \in Nat

VARIABLES
  shift,    (* _shift_active                                               *)
  shiftAt,  (* _shift_timestamp_ns                                         *)
  active,   (* _active_f_keys: the codes held and what they stand for      *)
  lastTs,   (* _last_timestamp_ns                                          *)
  out,      (* the control events the last call returned                   *)
  down,     (* what a receiver believes is down (the model's own)          *)
  quiet     (* no F key was held since Shift was last pressed (likewise)   *)

parserVars == <<shift, shiftAt, active, lastTs, out, down, quiet>>

Raw == [code : Codes \cup {Shift, Other}, value : 0 .. 2, ts : Nat]
ControlEvent == [control : Controls, phase : {"down", "up"}, ts : Nat, synthetic : BOOLEAN]

ParserInit ==
  /\ shift = FALSE /\ shiftAt = 0
  /\ active = <<>>
  /\ lastTs = 0
  /\ out = {} /\ down = {} /\ quiet = FALSE

NoneHeld == DOMAIN active = {}

(* An operator whose name ends in "Slip" is never used: it is the one      *)
(* after it with a plausible bug, which a named property must catch.       *)
ShiftHoldsSlip(t)    == shift
ControlReleasedSlip(e) ==
  IF <<e.code, shift>> \in DOMAIN Codebook THEN Codebook[<<e.code, shift>>] ELSE active[e.code]
KeptByResetSlip      == active

(* advance_time(): a Shift that no F key has followed in time is dropped,  *)
(* unless some F key is held.                                              *)
ShiftHolds(t) == shift /\ (NoneHeld => t - shiftAt <= Timeout)

ControlReleased(e) == active[e.code]
KeptByReset        == <<>>

(* What a receiver believes is down once it got the events too.            *)
Heard(believed, es) ==
  (believed \ {e.control : e \in {x \in es : x.phase = "up"}})
    \cup {e.control : e \in {x \in es : x.phase = "down"}}

Emit(es) == out' = es /\ down' = Heard(down, es)

Emission(c, phase, t, syn) ==
  [control |-> c, phase |-> phase, ts |-> t, synthetic |-> syn]

-----------------------------------------------------------------------------
(* feed(): an event from before the last one is rejected.                  *)
Regressed(e) ==
  /\ e.ts < lastTs
  /\ Emit({})
  /\ UNCHANGED <<shift, shiftAt, active, lastTs, quiet>>

Accepted(e) == e.ts >= lastTs /\ lastTs' = e.ts

(* Auto-repeat, and keys that are neither Shift nor an F key.              *)
Uninteresting(e) ==
  /\ Accepted(e)
  /\ e.value = 2 \/ e.code = Other
  /\ shift' = ShiftHolds(e.ts)
  /\ Emit({})
  /\ UNCHANGED <<shiftAt, active, quiet>>

ShiftPressed(e) ==
  /\ Accepted(e)
  /\ e.code = Shift /\ e.value = 1
  /\ shift' = TRUE
  /\ shiftAt' = e.ts
  /\ quiet' = NoneHeld
  /\ Emit({})
  /\ UNCHANGED active

ShiftReleased(e) ==
  /\ Accepted(e)
  /\ e.code = Shift /\ e.value = 0
  /\ shift' = FALSE
  /\ Emit({})
  /\ UNCHANGED <<shiftAt, active, quiet>>

(* A key that is already held, or that the codebook does not have, is an   *)
(* error and changes nothing else.                                         *)
KeyDown(e) ==
  LET chord == <<e.code, ShiftHolds(e.ts)>>
  IN  /\ Accepted(e)
      /\ e.code \in Codes /\ e.value = 1
      /\ shift' = ShiftHolds(e.ts)
      /\ IF e.code \in DOMAIN active \/ chord \notin DOMAIN Codebook
         THEN Emit({}) /\ UNCHANGED <<active, quiet>>
         ELSE /\ active' = [k \in DOMAIN active \cup {e.code} |->
                              IF k = e.code THEN Codebook[chord] ELSE active[k]]
              /\ quiet' = FALSE
              /\ Emit({Emission(Codebook[chord], "down", e.ts, FALSE)})
      /\ UNCHANGED shiftAt

KeyUp(e) ==
  /\ Accepted(e)
  /\ e.code \in Codes /\ e.value = 0
  /\ shift' = ShiftHolds(e.ts)
  /\ IF e.code \in DOMAIN active
     THEN /\ active' = Restrict(active, DOMAIN active \ {e.code})
          /\ Emit({Emission(ControlReleased(e), "up", e.ts, FALSE)})
     ELSE Emit({}) /\ UNCHANGED active
  /\ UNCHANGED <<shiftAt, quiet>>

Feed(e) ==
  \/ Regressed(e) \/ Uninteresting(e)
  \/ ShiftPressed(e) \/ ShiftReleased(e)
  \/ KeyDown(e) \/ KeyUp(e)

(* reset(): forget Shift, release every control that is down.              *)
Reset(t) ==
  /\ shift' = FALSE
  /\ shiftAt' = 0
  /\ lastTs' = IF t > lastTs THEN t ELSE lastTs
  /\ Emit({Emission(c, "up", t, TRUE) : c \in Range(active)})
  /\ active' = KeptByReset
  /\ UNCHANGED quiet

-----------------------------------------------------------------------------
Step ==
  \/ \E e \in Raw : Feed(e)
  \/ \E t \in Nat : Reset(t)

(* The specification, without and with the bound that TLC needs.           *)
ParserSpec == ParserInit /\ [][Step]_parserVars

BoundedRaw == [code : Codes \cup {Shift, Other}, value : 0 .. 2, ts : 0 .. MaxTime]
BoundedStep ==
  \/ \E e \in BoundedRaw :
       \/ Regressed(e) \/ Uninteresting(e)
       \/ ShiftPressed(e) \/ ShiftReleased(e)
       \/ KeyDown(e) \/ KeyUp(e)
  \/ \E t \in 0 .. MaxTime : Reset(t)
BoundedSpec == ParserInit /\ [][BoundedStep]_parserVars

-----------------------------------------------------------------------------
(* The parser's state is well formed: among others, what a key is held as  *)
(* is one of the two controls that share the key, and Shift was not        *)
(* pressed in the future.                                                  *)
ParserTypeOK ==
  /\ shift \in BOOLEAN /\ quiet \in BOOLEAN
  /\ shiftAt \in Nat /\ lastTs \in Nat /\ shiftAt <= lastTs
  /\ DOMAIN active \subseteq Codes
  /\ \A k \in DOMAIN active :
       \E s \in BOOLEAN : <<k, s>> \in DOMAIN Codebook /\ active[k] = Codebook[<<k, s>>]
  /\ out \subseteq ControlEvent
  /\ down \subseteq Controls

(* What a receiver of the events believes is down is exactly what is held, *)
(* whatever Shift did in between, after rejected and repeated events too:  *)
(* no control stays stuck and none is lost.                                *)
HeldIsDown == down = Range(active)

(* Per control, DOWN and UP alternate: an event never repeats what the     *)
(* receiver already knows, and only a press makes a control go down.       *)
Alternates ==
  [][\A e \in out' :
       IF e.phase = "down"
       THEN e.control \notin down /\ ~e.synthetic
       ELSE e.control \in down]_parserVars

(* A Shift that was followed by no F key within the time-out makes no      *)
(* encoder event any more (the modifier time-out of                        *)
(* docs/transport-profile.md), as long as no other key is held meanwhile.  *)
LateShiftIsForgotten ==
  [][\A e \in out' :
       (/\ e.phase = "down" /\ quiet
        /\ \E k \in Codes : <<k, TRUE>> \in DOMAIN Codebook
                             /\ Codebook[<<k, TRUE>>] = e.control)
         => e.ts - shiftAt <= Timeout]_parserVars
=============================================================================
