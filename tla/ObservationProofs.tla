-------------------------- MODULE ObservationProofs --------------------------
(***************************************************************************)
(* The properties of TransportParser, proved for every codebook that the   *)
(* code's constructor accepts, every time-out and every sequence of keys,  *)
(* and those of Observation, which runs the parser, proved for every set   *)
(* of interfaces and every bound on its inputs and its clock.              *)
(***************************************************************************)
EXTENDS Observation, SequenceTheorems, TLAPS

(* The parser's inductive invariant. That the controls held are pairwise   *)
(* different follows from the first part; the last part ties "quiet",      *)
(* which the time-out property reads, to what is held.                     *)
ParserInv == ParserTypeOK /\ HeldIsDown /\ (quiet => NoneHeld)

-----------------------------------------------------------------------------
(* A control has one key and one modifier: Codebook refuses duplicates.    *)
LEMMA OneChord ==
  ASSUME NEW k, NEW s, NEW l, NEW t,
         <<k, s>> \in DOMAIN Codebook, <<l, t>> \in DOMAIN Codebook,
         Codebook[<<k, s>>] = Codebook[<<l, t>>]
  PROVE  k = l /\ s = t
<1>1. <<k, s>> = <<l, t>>
  BY CodebookAssumption
<1>2. QED
  BY <1>1

(* What a held key stands for is a control, and no other key's.            *)
LEMMA HeldDiffer ==
  ASSUME ParserTypeOK,
         NEW k \in DOMAIN active, NEW l \in DOMAIN active, active[k] = active[l]
  PROVE  k = l
<1>1. PICK s \in BOOLEAN :
        <<k, s>> \in DOMAIN Codebook /\ active[k] = Codebook[<<k, s>>]
  BY DEF ParserTypeOK
<1>2. PICK t \in BOOLEAN :
        <<l, t>> \in DOMAIN Codebook /\ active[l] = Codebook[<<l, t>>]
  BY DEF ParserTypeOK
<1>3. QED
  BY <1>1, <1>2, OneChord

(* What a held key stands for is one of the pad's controls.                *)
LEMMA HeldIsControl ==
  ASSUME ParserTypeOK, NEW k \in DOMAIN active
  PROVE  active[k] \in Controls
  BY CodebookAssumption DEF ParserTypeOK

(* A key that goes down stands for a control that no held key stands for.  *)
LEMMA FreshControl ==
  ASSUME ParserTypeOK, NEW k, NEW s,
         <<k, s>> \in DOMAIN Codebook, k \notin DOMAIN active
  PROVE  Codebook[<<k, s>>] \notin Range(active)
<1>1. SUFFICES ASSUME NEW l \in DOMAIN active, active[l] = Codebook[<<k, s>>]
               PROVE  FALSE
  BY DEF Range
<1>2. PICK t \in BOOLEAN :
        <<l, t>> \in DOMAIN Codebook /\ active[l] = Codebook[<<l, t>>]
  BY <1>1 DEF ParserTypeOK
<1>3. k = l
  BY <1>1, <1>2, OneChord
<1>4. QED
  BY <1>1, <1>3

(* A receiver that gets no event believes what it believed.                *)
LEMMA HeardNothing ==
  ASSUME NEW believed
  PROVE  Heard(believed, {}) = believed
  BY DEF Heard

(* After a press it believes one more control to be down.                  *)
LEMMA HeardPress ==
  ASSUME NEW believed, NEW c, NEW t, NEW syn
  PROVE  Heard(believed, {Emission(c, "down", t, syn)}) = believed \cup {c}
<1> DEFINE e == Emission(c, "down", t, syn)
<1>1. e.control = c /\ e.phase = "down"
  BY DEF Emission
<1> HIDE DEF e
<1>2. {x \in {e} : x.phase = "up"} = {} /\ {x \in {e} : x.phase = "down"} = {e}
  BY <1>1
<1>3. Heard(believed, {e}) = (believed \ {}) \cup {e.control}
  BY <1>2 DEF Heard
<1>4. QED
  BY <1>1, <1>3 DEF e

(* After releases it believes their controls to be up.                     *)
LEMMA HeardReleases ==
  ASSUME NEW believed, NEW es, \A x \in es : x.phase = "up"
  PROVE  Heard(believed, es) = believed \ {x.control : x \in es}
<1>1. {x \in es : x.phase = "up"} = es /\ {x \in es : x.phase = "down"} = {}
  OBVIOUS
<1>2. QED
  BY <1>1 DEF Heard

(* The same of a single release.                                           *)
LEMMA HeardRelease ==
  ASSUME NEW believed, NEW c, NEW t, NEW syn
  PROVE  Heard(believed, {Emission(c, "up", t, syn)}) = believed \ {c}
<1> DEFINE e == Emission(c, "up", t, syn)
<1>1. e.control = c /\ e.phase = "up"
  BY DEF Emission
<1> HIDE DEF e
<1>2. Heard(believed, {e}) = believed \ {x.control : x \in {e}}
  BY <1>1, HeardReleases
<1>3. {x.control : x \in {e}} = {c}
  BY <1>1
<1>4. QED
  BY <1>2, <1>3 DEF e

(* Events of controls are control events.                                  *)
LEMMA EmissionType ==
  ASSUME NEW c \in Controls, NEW phase \in {"down", "up"}, NEW t \in Nat,
         NEW syn \in BOOLEAN
  PROVE  Emission(c, phase, t, syn) \in ControlEvent
  BY DEF Emission, ControlEvent

-----------------------------------------------------------------------------
(* A new parser satisfies the inductive invariant.                         *)
LEMMA ParserInitHolds == ParserInit => ParserInv
<1>1. SUFFICES ASSUME ParserInit PROVE ParserInv
  OBVIOUS
<1>2. DOMAIN active = {}
  BY <1>1 DEF ParserInit
<1>3. ParserTypeOK
  <2>1. /\ shift = FALSE /\ quiet = FALSE /\ shiftAt = 0 /\ lastTs = 0
        /\ out = {} /\ down = {}
    BY <1>1 DEF ParserInit
  <2>2. shift \in BOOLEAN /\ quiet \in BOOLEAN
    BY <2>1
  <2>3. shiftAt \in Nat /\ lastTs \in Nat /\ shiftAt <= lastTs
    BY <2>1
  <2>4. out \subseteq ControlEvent /\ down \subseteq Controls
    BY <2>1
  <2>5. DOMAIN active \subseteq Codes
    BY <1>2
  <2>6. QED
    BY <1>2, <2>2, <2>3, <2>4, <2>5 DEF ParserTypeOK
<1>4. HeldIsDown /\ NoneHeld
  BY <1>1, <1>2 DEF ParserInit, HeldIsDown, NoneHeld, Range
<1>5. QED
  BY <1>3, <1>4 DEF ParserInv

(* A step that emits nothing and leaves the held keys alone.               *)
LEMMA SilentStep ==
  ASSUME ParserInv, Emit({}), UNCHANGED active,
         shift' \in BOOLEAN, quiet' \in BOOLEAN, quiet' => NoneHeld,
         shiftAt' \in Nat, lastTs' \in Nat, shiftAt' <= lastTs'
  PROVE  ParserInv'
<1>1. down' = down /\ out' = {}
  BY HeardNothing DEF Emit
<1>2. ParserTypeOK'
  BY <1>1 DEF ParserInv, ParserTypeOK
<1>3. HeldIsDown'
  BY <1>1 DEF ParserInv, HeldIsDown, Range
<1>4. (quiet => NoneHeld)'
  BY DEF NoneHeld
<1>5. QED
  BY <1>2, <1>3, <1>4 DEF ParserInv

(* feed() preserves it, on each of its six ways through.                   *)
LEMMA ParserFeedKeeps ==
  ASSUME ParserInv, NEW e \in Raw, Feed(e)
  PROVE  ParserInv'
<1> USE DEF ParserInv
<1>0. /\ shift \in BOOLEAN /\ quiet \in BOOLEAN /\ shiftAt \in Nat
      /\ lastTs \in Nat /\ shiftAt <= lastTs /\ e.ts \in Nat
      /\ e.code \in Codes \cup {Shift, Other}
  BY DEF ParserTypeOK, Raw
<1>1. ShiftHolds(e.ts) \in BOOLEAN
  BY <1>0 DEF ShiftHolds
<1>2. CASE Regressed(e)
  BY <1>0, <1>2, SilentStep DEF Regressed
<1>3. CASE Uninteresting(e)
  BY <1>0, <1>1, <1>3, SilentStep DEF Uninteresting, Accepted
<1>4. CASE ShiftPressed(e)
  <2>1. NoneHeld \in BOOLEAN
    BY DEF NoneHeld
  <2>2. QED
    BY <1>0, <1>4, <2>1, SilentStep DEF ShiftPressed, Accepted
<1>5. CASE ShiftReleased(e)
  <2>1. /\ shift' = FALSE /\ quiet' = quiet /\ shiftAt' = shiftAt
        /\ lastTs' = e.ts /\ e.ts >= lastTs
        /\ Emit({}) /\ active' = active
    BY <1>5 DEF ShiftReleased, Accepted
  <2>2. quiet' => NoneHeld
    BY <2>1
  <2>3. shiftAt' \in Nat /\ lastTs' \in Nat /\ shiftAt' <= lastTs'
    BY <1>0, <2>1
  <2>4. QED
    BY <1>0, <2>1, <2>2, <2>3, SilentStep
<1>6. CASE KeyDown(e)
  <2> DEFINE chord == <<e.code, ShiftHolds(e.ts)>>
             c     == Codebook[chord]
  <2>1. CASE e.code \in DOMAIN active \/ chord \notin DOMAIN Codebook
    BY <1>0, <1>1, <1>6, <2>1, SilentStep DEF KeyDown, Accepted
  <2>2. CASE ~(e.code \in DOMAIN active \/ chord \notin DOMAIN Codebook)
    <3>1. /\ lastTs' = e.ts /\ e.ts >= lastTs /\ e.code \in Codes
          /\ shift' = ShiftHolds(e.ts) /\ shiftAt' = shiftAt /\ quiet' = FALSE
          /\ active' = [k \in DOMAIN active \cup {e.code} |->
                          IF k = e.code THEN c ELSE active[k]]
          /\ Emit({Emission(c, "down", e.ts, FALSE)})
      BY <1>6, <2>2 DEF KeyDown, Accepted
    <3>2. c \in Controls
      BY <2>2, CodebookAssumption
    <3> HIDE DEF c
    <3>3. down' = down \cup {c} /\ out' = {Emission(c, "down", e.ts, FALSE)}
      BY <3>1, HeardPress DEF Emit
    <3>4. out' \subseteq ControlEvent
      BY <1>0, <3>2, <3>3, EmissionType
    <3>5. ASSUME NEW k \in DOMAIN active'
          PROVE  \E s \in BOOLEAN :
                   <<k, s>> \in DOMAIN Codebook /\ active'[k] = Codebook[<<k, s>>]
      BY <1>1, <2>2, <3>1, <3>5 DEF ParserTypeOK, c
    <3>6. ParserTypeOK'
      <4>1. shiftAt' \in Nat /\ lastTs' \in Nat /\ shiftAt' <= lastTs'
        BY <1>0, <3>1
      <4>2. shift' \in BOOLEAN /\ quiet' \in BOOLEAN
        BY <1>1, <3>1
      <4>3. DOMAIN active' \subseteq Codes /\ down' \subseteq Controls
        BY <3>1, <3>2, <3>3 DEF ParserTypeOK
      <4>4. QED
        BY <3>4, <3>5, <4>1, <4>2, <4>3 DEF ParserTypeOK
    <3>7. Range(active') = Range(active) \cup {c}
      BY <2>2, <3>1 DEF Range
    <3>8. HeldIsDown'
      BY <3>3, <3>7 DEF HeldIsDown
    <3>9. QED
      BY <3>1, <3>6, <3>8
  <2>3. QED
    BY <2>1, <2>2
<1>7. CASE KeyUp(e)
  <2>1. CASE e.code \notin DOMAIN active
    BY <1>0, <1>1, <1>7, <2>1, SilentStep DEF KeyUp, Accepted
  <2>2. CASE e.code \in DOMAIN active
    <3> DEFINE c == active[e.code]
    <3>1. /\ lastTs' = e.ts /\ e.ts >= lastTs
          /\ shift' = ShiftHolds(e.ts) /\ shiftAt' = shiftAt /\ quiet' = quiet
          /\ active' = [k \in DOMAIN active \ {e.code} |-> active[k]]
          /\ Emit({Emission(c, "up", e.ts, FALSE)})
      BY <1>7, <2>2 DEF KeyUp, Accepted, ControlReleased, Restrict
    <3>2. c \in Controls
      BY <2>2, HeldIsControl
    <3>3. ASSUME NEW k \in DOMAIN active, k # e.code
          PROVE  active[k] # c
      BY <2>2, <3>3, HeldDiffer
    <3> HIDE DEF c
    <3>4. down' = down \ {c} /\ out' = {Emission(c, "up", e.ts, FALSE)}
      BY <3>1, HeardRelease DEF Emit
    <3>5. out' \subseteq ControlEvent
      BY <1>0, <3>2, <3>4, EmissionType
    <3>6. ParserTypeOK'
      <4>1. shiftAt' \in Nat /\ lastTs' \in Nat /\ shiftAt' <= lastTs'
        BY <1>0, <3>1
      <4>2. shift' \in BOOLEAN /\ quiet' \in BOOLEAN
        BY <1>0, <1>1, <3>1
      <4>3. DOMAIN active' \subseteq Codes /\ down' \subseteq Controls
        BY <3>1, <3>4 DEF ParserTypeOK
      <4>4. \A k \in DOMAIN active' :
              \E s \in BOOLEAN :
                <<k, s>> \in DOMAIN Codebook /\ active'[k] = Codebook[<<k, s>>]
        BY <3>1 DEF ParserTypeOK
      <4>5. QED
        BY <3>5, <4>1, <4>2, <4>3, <4>4 DEF ParserTypeOK
    <3>7. Range(active') = Range(active) \ {c}
      BY <2>2, <3>1, <3>3 DEF Range, c
    <3>8. HeldIsDown'
      BY <3>4, <3>7 DEF HeldIsDown
    <3>9. (quiet => NoneHeld)'
      BY <2>2, <3>1 DEF NoneHeld
    <3>10. QED
      BY <3>6, <3>8, <3>9
  <2>3. QED
    BY <2>1, <2>2
<1>8. QED
  BY <1>2, <1>3, <1>4, <1>5, <1>6, <1>7 DEF Feed

(* reset() preserves it.                                                   *)
LEMMA ParserResetKeeps ==
  ASSUME ParserInv, NEW t \in Nat, Reset(t)
  PROVE  ParserInv'
<1> DEFINE events == {Emission(c, "up", t, TRUE) : c \in Range(active)}
<1>1. /\ shift' = FALSE /\ shiftAt' = 0 /\ quiet' = quiet
      /\ lastTs' = IF t > lastTs THEN t ELSE lastTs
      /\ Emit(events) /\ active' = <<>>
  BY DEF Reset, KeptByReset
<1>2. events \subseteq ControlEvent
  BY HeldIsControl, EmissionType DEF Range, ParserInv
<1>3. \A c \in Range(active) :
        /\ Emission(c, "up", t, TRUE).control = c
        /\ Emission(c, "up", t, TRUE).phase = "up"
  BY DEF Emission
<1>4. \A x \in events : x.phase = "up"
  BY <1>3
<1>5. {x.control : x \in events} = Range(active)
  BY <1>3
<1> HIDE DEF events
<1>6. down' = {} /\ out' = events
  BY <1>1, <1>4, <1>5, HeardReleases DEF Emit, ParserInv, HeldIsDown
<1>7. DOMAIN active' = {}
  BY <1>1
<1>8. ParserTypeOK'
  <2>1. shiftAt' \in Nat /\ lastTs' \in Nat /\ shiftAt' <= lastTs'
    BY <1>1 DEF ParserInv, ParserTypeOK
  <2>2. shift' \in BOOLEAN /\ quiet' \in BOOLEAN
    BY <1>1 DEF ParserInv, ParserTypeOK
  <2>3. QED
    BY <1>2, <1>6, <1>7, <2>1, <2>2 DEF ParserTypeOK
<1>9. HeldIsDown' /\ NoneHeld'
  BY <1>6, <1>7 DEF HeldIsDown, NoneHeld, Range
<1>10. QED
  BY <1>8, <1>9 DEF ParserInv

(* So does every step.                                                     *)
LEMMA ParserStepKeeps == ParserInv /\ [Step]_parserVars => ParserInv'
<1>1. ASSUME ParserInv, UNCHANGED parserVars PROVE ParserInv'
  BY <1>1 DEF ParserInv, parserVars, ParserTypeOK, HeldIsDown, NoneHeld, Range
<1>2. QED
  BY <1>1, ParserFeedKeeps, ParserResetKeeps DEF Step

(* The inductive invariant holds of every behaviour of the parser.         *)
THEOREM ParserInvHolds == ParserSpec => []ParserInv
  BY ParserInitHolds, ParserStepKeeps, PTL DEF ParserSpec

(* The parser's state is well formed, for every codebook.                  *)
THEOREM ParserTypeCorrect == ParserSpec => []ParserTypeOK
<1>1. ParserInv => ParserTypeOK
  BY DEF ParserInv
<1>2. QED
  BY <1>1, ParserInvHolds, PTL

(* What a receiver believes is down is what is held: no control is stuck   *)
(* or lost, whatever Shift does between a key's press and its release.     *)
THEOREM HeldIsAlwaysDown == ParserSpec => []HeldIsDown
<1>1. ParserInv => HeldIsDown
  BY DEF ParserInv
<1>2. QED
  BY <1>1, ParserInvHolds, PTL

-----------------------------------------------------------------------------
(* Only a press makes a control go down, and it is the one control that    *)
(* its key and the Shift of that moment stand for.                         *)
LEMMA PressOfStep ==
  ASSUME ParserInv, Step, NEW e \in out', e.phase = "down"
  PROVE  \E r \in Raw :
           /\ KeyDown(r)
           /\ r.code \notin DOMAIN active
           /\ <<r.code, ShiftHolds(r.ts)>> \in DOMAIN Codebook
           /\ e = Emission(Codebook[<<r.code, ShiftHolds(r.ts)>>], "down", r.ts, FALSE)
<1>1. CASE \E t \in Nat : Reset(t)
  <2>1. PICK t \in Nat : out' = {Emission(c, "up", t, TRUE) : c \in Range(active)}
    BY <1>1 DEF Reset, Emit
  <2>2. QED
    BY <2>1 DEF Emission
<1>2. CASE \E r \in Raw : Feed(r)
  <2>1. PICK r \in Raw : Feed(r)
    BY <1>2
  <2>2. out' # {}
    OBVIOUS
  <2>3. ~Regressed(r) /\ ~Uninteresting(r) /\ ~ShiftPressed(r) /\ ~ShiftReleased(r)
    BY <2>2 DEF Regressed, Uninteresting, ShiftPressed, ShiftReleased, Emit
  <2>4. ASSUME KeyUp(r) PROVE FALSE
    <3>1. out' = {Emission(ControlReleased(r), "up", r.ts, FALSE)}
      BY <2>2, <2>4 DEF KeyUp, Emit
    <3>2. QED
      BY <3>1 DEF Emission
  <2>5. KeyDown(r)
    BY <2>1, <2>3, <2>4 DEF Feed
  <2>6. /\ r.code \notin DOMAIN active
        /\ <<r.code, ShiftHolds(r.ts)>> \in DOMAIN Codebook
        /\ out' = {Emission(Codebook[<<r.code, ShiftHolds(r.ts)>>], "down", r.ts, FALSE)}
    BY <2>2, <2>5 DEF KeyDown, Emit
  <2>7. QED
    BY <2>5, <2>6
<1>3. QED
  BY <1>1, <1>2 DEF Step

(* A control that goes up was believed down.                               *)
LEMMA ReleaseOfStep ==
  ASSUME ParserInv, Step, NEW e \in out', e.phase # "down"
  PROVE  e.control \in down
<1>0. down = Range(active)
  BY DEF ParserInv, HeldIsDown
<1>1. CASE \E t \in Nat : Reset(t)
  <2>1. PICK t \in Nat : out' = {Emission(c, "up", t, TRUE) : c \in Range(active)}
    BY <1>1 DEF Reset, Emit
  <2>2. PICK c \in Range(active) : e = Emission(c, "up", t, TRUE)
    BY <2>1
  <2>3. QED
    BY <1>0, <2>2 DEF Emission
<1>2. CASE \E r \in Raw : Feed(r)
  <2>1. PICK r \in Raw : Feed(r)
    BY <1>2
  <2>2. out' # {}
    OBVIOUS
  <2>3. ~Regressed(r) /\ ~Uninteresting(r) /\ ~ShiftPressed(r) /\ ~ShiftReleased(r)
    BY <2>2 DEF Regressed, Uninteresting, ShiftPressed, ShiftReleased, Emit
  <2>4. ASSUME KeyDown(r) PROVE FALSE
    <3>1. out' = {Emission(Codebook[<<r.code, ShiftHolds(r.ts)>>], "down", r.ts, FALSE)}
      BY <2>2, <2>4 DEF KeyDown, Emit
    <3>2. QED
      BY <3>1 DEF Emission
  <2>5. KeyUp(r)
    BY <2>1, <2>3, <2>4 DEF Feed
  <2>6. /\ r.code \in DOMAIN active
        /\ out' = {Emission(active[r.code], "up", r.ts, FALSE)}
    BY <2>2, <2>5 DEF KeyUp, Emit, ControlReleased
  <2>7. e.control = active[r.code]
    BY <2>6 DEF Emission
  <2>8. QED
    BY <1>0, <2>6, <2>7 DEF Range
<1>3. QED
  BY <1>1, <1>2 DEF Step

(* Per control, DOWN and UP alternate, for every codebook.                 *)
THEOREM AlwaysAlternates == ParserSpec => Alternates
<1>1. ASSUME ParserInv, Step, NEW e \in out', e.phase = "down"
      PROVE  e.control \notin down /\ ~e.synthetic
  <2>1. PICK r \in Raw :
          /\ r.code \notin DOMAIN active
          /\ <<r.code, ShiftHolds(r.ts)>> \in DOMAIN Codebook
          /\ e = Emission(Codebook[<<r.code, ShiftHolds(r.ts)>>], "down", r.ts, FALSE)
    BY <1>1, PressOfStep
  <2>2. e.control = Codebook[<<r.code, ShiftHolds(r.ts)>>] /\ e.synthetic = FALSE
    BY <2>1 DEF Emission
  <2>3. e.control \notin Range(active)
    BY <1>1, <2>1, <2>2, FreshControl DEF ParserInv
  <2>4. QED
    BY <1>1, <2>2, <2>3 DEF ParserInv, HeldIsDown
<1>2. ParserInv /\ [Step]_parserVars =>
        [\A e \in out' : IF e.phase = "down"
                         THEN e.control \notin down /\ ~e.synthetic
                         ELSE e.control \in down]_parserVars
  BY <1>1, ReleaseOfStep
<1>3. QED
  BY <1>2, ParserInvHolds, PTL DEF ParserSpec, Alternates

(* An encoder event needs its Shift within the time-out, as long as no     *)
(* other key was held since the press.                                     *)
THEOREM LateShiftAlwaysForgotten == ParserSpec => LateShiftIsForgotten
<1>1. ASSUME ParserInv, Step, NEW e \in out', e.phase = "down", quiet,
             NEW k \in Codes, <<k, TRUE>> \in DOMAIN Codebook,
             Codebook[<<k, TRUE>>] = e.control
      PROVE  e.ts - shiftAt <= Timeout
  <2>1. PICK r \in Raw :
          /\ <<r.code, ShiftHolds(r.ts)>> \in DOMAIN Codebook
          /\ e = Emission(Codebook[<<r.code, ShiftHolds(r.ts)>>], "down", r.ts, FALSE)
    BY <1>1, PressOfStep
  <2>2. e.control = Codebook[<<r.code, ShiftHolds(r.ts)>>] /\ e.ts = r.ts
    BY <2>1 DEF Emission
  <2>3. ShiftHolds(r.ts) = TRUE
    BY <1>1, <2>1, <2>2, OneChord
  <2>4. NoneHeld
    BY <1>1 DEF ParserInv
  <2>5. QED
    BY <2>2, <2>3, <2>4 DEF ShiftHolds
<1>2. ParserInv /\ [Step]_parserVars =>
        [\A e \in out' :
           (/\ e.phase = "down" /\ quiet
            /\ \E k \in Codes : <<k, TRUE>> \in DOMAIN Codebook
                                 /\ Codebook[<<k, TRUE>>] = e.control)
             => e.ts - shiftAt <= Timeout]_parserVars
  BY <1>1
<1>3. QED
  BY <1>2, ParserInvHolds, PTL DEF ParserSpec, LateShiftIsForgotten

-----------------------------------------------------------------------------
(* The session around the parser.                                          *)

(* What a reader task may put into the merge queue.                        *)
MergedItem ==
  [from : Interfaces, kind : {"key", "noise", "end", "error"},
   code : Codes \cup {Shift, Other}, value : 0 .. 2]

ReaderStates == {"none", "created", "reading", "stopping", "never", "done"}

SessionTypeOK ==
  /\ merged \in Seq(MergedItem)
  /\ readers \in [Interfaces -> ReaderStates]
  /\ stamp \in Nat /\ seenTs \in Nat

(* No device is open, and no reader reads or is about to.                  *)
Released ==
  /\ handles = {}
  /\ \A i \in Interfaces : readers[i] \notin {"created", "reading"}

(* Devices and readers come with the generator's first step and go with    *)
(* the adapter's close(); an observation that is over has called it.       *)
Lifecycle ==
  /\ gen = "new" => /\ pipe \in {"created", "closed"} /\ ~closed /\ handles = {}
                    /\ \A i \in Interfaces : readers[i] = "none"
  /\ closed => Released
  /\ gen = "over" => pipe = "closed" /\ Released

(* How an observation will end is settled when its first release is        *)
(* yielded, or with its last step.                                         *)
OutcomeSettled ==
  /\ gen \in {"new", "reading", "asking", "paused", "releasing", "left", "over"}
  /\ gen \in {"new", "reading", "asking", "paused"} => outcome = "none"
  /\ gen = "releasing" => outcome \in {"input", "close_failed"}
  /\ gen = "over" => outcome \in {"discovery", "state", "input", "close_failed",
                                  "cancelled", "abandoned"}

(* Releases are owed only between a reset, after which the parser holds    *)
(* nothing, and the end; each bears the time after the last input's, so    *)
(* two of them differ in their controls.                                   *)
ReleasesOwed ==
  /\ gen \notin {"releasing", "left"} => pending = {}
  /\ gen \in {"new", "releasing"} => NoneHeld
  /\ gen = "new" => seen = {}
  /\ \A e \in pending : e = Emission(e.control, "up", stamp + 1, TRUE)

(* Until the releases, the consumer has no event from after the last input.*)
NotAhead ==
  /\ seenTs <= stamp + 1
  /\ gen \in {"new", "reading", "asking", "paused"} => seenTs <= stamp

IInv ==
  /\ ParserInv /\ SessionTypeOK
  /\ Lifecycle /\ OutcomeSettled
  /\ ReleasesOwed /\ SeenIsHeld /\ ReleasedWhenOver /\ NotAhead

-----------------------------------------------------------------------------
(* What the steps share.                                                   *)

(* Every step of the session is one of these.                              *)
Steps ==
  \/ ReadersStart
  \/ \E i \in Interfaces, item \in MergedItem : ReaderDelivers(i, item)
  \/ \E i \in Interfaces, last \in Seq(MergedItem) :
       readers[i] \in {"reading", "stopping"} /\ ReaderEnds(i, last)
  \/ Starting \/ Generator \/ Consumer \/ UNCHANGED vars

(* An item of a reader is one of the items the merge queue takes.          *)
LEMMA ItemTypes ==
  /\ \A i \in Interfaces, c \in Codes \cup {Shift}, v \in 0 .. 2 : Key(i, c, v) \in MergedItem
  /\ \A i \in Interfaces, k \in {"noise", "end", "error"} : Item(i, k) \in MergedItem
  /\ \A i \in Interfaces : Sentinel(i) \in Seq(MergedItem)
<1>1. \A i \in Interfaces, c \in Codes \cup {Shift}, v \in 0 .. 2 : Key(i, c, v) \in MergedItem
  BY DEF Key, MergedItem
<1>2. \A i \in Interfaces, k \in {"noise", "end", "error"} : Item(i, k) \in MergedItem
  BY DEF Item, MergedItem
<1>3. QED
  BY <1>1, <1>2 DEF Sentinel

(* The steps of Next, the readers' with the items they put in the queue    *)
(* typed.                                                                  *)
LEMMA NextSteps == Next => Steps
<1>1. ASSUME NEW i \in Interfaces, ReaderFinishes(i) \/ ReaderStops(i)
      PROVE  Steps
  <2>1. <<>> \in Seq(MergedItem)
    OBVIOUS
  <2>2. QED
    BY <1>1, <2>1 DEF Steps, ReaderFinishes, ReaderStops
<1>2. ASSUME NEW i \in Interfaces, ReaderFails(i)
      PROVE  Steps
  <2>1. <<Item(i, "error")>> \in Seq(MergedItem)
    BY ItemTypes
  <2>2. QED
    BY <1>2, <2>1 DEF Steps, ReaderFails
<1>3. Readers => Steps
  BY <1>1, <1>2, ItemTypes DEF Readers, Steps
<1>4. QED
  BY <1>3 DEF Next, Steps, Terminated

(* close() of the adapter leaves nothing open.                             *)
LEMMA ClosingReleases ==
  ASSUME IInv, CloseAdapter
  PROVE  Released' /\ readers' \in [Interfaces -> ReaderStates]
<1>1. CASE closed
  BY <1>1 DEF CloseAdapter, IInv, Lifecycle, SessionTypeOK, Released
<1>2. CASE ~closed
  <2>1. /\ handles' = {}
        /\ readers' = [i \in Interfaces |->
                         CASE readers[i] = "created" -> "never"
                           [] readers[i] = "reading" -> "stopping"
                           [] OTHER -> readers[i]]
    BY <1>2 DEF CloseAdapter, Teardown
  <2>2. ASSUME NEW i \in Interfaces
        PROVE  readers'[i] \in ReaderStates \ {"created", "reading"}
    <3>1. readers[i] \in ReaderStates
      BY DEF IInv, SessionTypeOK
    <3>2. QED
      BY <2>1, <3>1 DEF ReaderStates
  <2>3. readers' \in [Interfaces -> ReaderStates]
    BY <2>1, <2>2
  <2>4. QED
    BY <2>1, <2>2, <2>3 DEF Released
<1>3. QED
  BY <1>1, <1>2

(* An observation that ends keeps the invariant, if it ends in one of the  *)
(* ways there are and has released what it owed.                           *)
LEMMA OverKeeps ==
  ASSUME IInv, ParserInv', NEW how, Over(how),
         how \in {"discovery", "state", "input", "close_failed", "cancelled", "abandoned"},
         how \in {"input", "close_failed"} => seen = {},
         merged' \in Seq(MergedItem), UNCHANGED <<stamp, seen, seenTs>>
  PROVE  IInv'
<1>1. gen' = "over" /\ outcome' = how /\ pipe' = "closed" /\ pending' = {} /\ CloseAdapter
  BY DEF Over, FinalPipe
<1>2. Released' /\ readers' \in [Interfaces -> ReaderStates]
  BY <1>1, ClosingReleases
<1>3. SessionTypeOK'
  BY <1>2 DEF IInv, SessionTypeOK
<1>4. Lifecycle' /\ OutcomeSettled'
  BY <1>1, <1>2 DEF Lifecycle, OutcomeSettled
<1>5. ReleasesOwed' /\ SeenIsHeld' /\ ReleasedWhenOver'
  BY <1>1 DEF ReleasesOwed, SeenIsHeld, ReleasedWhenOver
<1>6. NotAhead'
  BY <1>1 DEF IInv, NotAhead
<1>7. QED
  BY <1>3, <1>4, <1>5, <1>6 DEF IInv

(* So does one that yields a release or, with none left, ends.             *)
LEMMA ReleasingKeeps ==
  ASSUME IInv, ParserInv', NoneHeld',
         NEW how \in {"input", "close_failed"}, NEW events, Releasing(how, events),
         \A e \in events : e = Emission(e.control, "up", stamp + 1, TRUE),
         seen = {e.control : e \in events},
         gen \in {"reading", "asking", "paused", "releasing"},
         merged' \in Seq(MergedItem), stamp' = stamp
  PROVE  IInv'
<1>1. CASE events = {}
  <2>1. Over(how) /\ UNCHANGED <<seen, seenTs>>
    BY <1>1 DEF Releasing, Owed
  <2>2. seen = {}
    BY <1>1
  <2>3. QED
    BY <2>1, <2>2, OverKeeps
<1>2. CASE events # {}
  <2>1. PICK e \in events :
          pending' = events \ {e} /\ seen' = Heard(seen, {e}) /\ seenTs' = e.ts
    BY <1>2 DEF Releasing, Owed
  <2>2. /\ gen' = "releasing" /\ outcome' = how /\ pipe' = pipe
        /\ CloseAdapter \/ UNCHANGED <<closed, handles, readers>>
    BY <1>2 DEF Releasing, Owed
  <2>3. e = Emission(e.control, "up", stamp + 1, TRUE)
    BY <2>1
  <2>4. seen' = seen \ {e.control} /\ seenTs' = stamp + 1
    <3>1. Heard(seen, {Emission(e.control, "up", stamp + 1, TRUE)}) = seen \ {e.control}
      BY HeardRelease
    <3>2. Emission(e.control, "up", stamp + 1, TRUE).ts = stamp + 1
      BY DEF Emission
    <3>3. QED
      BY <2>1, <2>3, <3>1, <3>2
  <2>5. Range(active') = {}
    BY DEF NoneHeld, Range
  <2>6. seen' = {x.control : x \in pending'}
    <3>1. \A x \in events : x.control = e.control => x = e
      BY <2>1
    <3>2. QED
      BY <2>1, <2>4, <3>1
  <2>7. SeenIsHeld'
    BY <2>5, <2>6 DEF SeenIsHeld
  <2>8. stamp \in Nat
    BY DEF IInv, SessionTypeOK
  <2>9. SessionTypeOK' /\ Lifecycle'
    <3>1. CASE CloseAdapter
      <4>1. Released' /\ readers' \in [Interfaces -> ReaderStates]
        BY <3>1, ClosingReleases
      <4>2. SessionTypeOK'
        BY <2>4, <2>8, <4>1 DEF SessionTypeOK
      <4>3. QED
        BY <2>2, <4>1, <4>2 DEF Lifecycle
    <3>2. CASE UNCHANGED <<closed, handles, readers>>
      <4>1. SessionTypeOK'
        BY <2>4, <2>8, <3>2 DEF IInv, SessionTypeOK
      <4>2. QED
        BY <2>2, <3>2, <4>1 DEF IInv, Lifecycle, Released
    <3>3. QED
      BY <2>2, <3>1, <3>2
  <2>10. OutcomeSettled' /\ ReleasedWhenOver'
    BY <2>2 DEF OutcomeSettled, ReleasedWhenOver
  <2>11. ReleasesOwed'
    BY <2>1, <2>2 DEF ReleasesOwed
  <2>12. NotAhead'
    BY <2>2, <2>4, <2>8 DEF NotAhead
  <2>13. QED
    BY <2>7, <2>9, <2>10, <2>11, <2>12 DEF IInv
<1>3. QED
  BY <1>1, <1>2

(* A reset owes the consumer a release of each control it saw go down.     *)
LEMMA ResetOwes ==
  ASSUME IInv, Reset(ResetTs)
  PROVE  /\ ParserInv' /\ NoneHeld'
         /\ \A e \in out' : e = Emission(e.control, "up", stamp + 1, TRUE)
         /\ gen \in {"reading", "asking", "paused"} => seen = {e.control : e \in out'}
<1>1. stamp + 1 \in Nat /\ ResetTs = stamp + 1
  BY DEF IInv, SessionTypeOK, ResetTs
<1>2. ParserInv'
  BY <1>1, ParserResetKeeps DEF IInv
<1>3. /\ out' = {Emission(c, "up", stamp + 1, TRUE) : c \in Range(active)}
      /\ active' = <<>>
  BY <1>1 DEF Reset, Emit, KeptByReset
<1>4. \A c : Emission(c, "up", stamp + 1, TRUE).control = c
  BY DEF Emission
<1>5. \A e \in out' : e = Emission(e.control, "up", stamp + 1, TRUE)
  BY <1>3, <1>4
<1>6. {e.control : e \in out'} = Range(active)
  BY <1>3, <1>4
<1>7. gen \in {"reading", "asking", "paused"} => seen = Range(active)
  BY DEF IInv, SeenIsHeld, ReleasesOwed
<1>8. NoneHeld'
  BY <1>3 DEF NoneHeld
<1>9. QED
  BY <1>2, <1>5, <1>6, <1>7, <1>8

-----------------------------------------------------------------------------
(* The steps, one after the other.                                         *)

(* A new session satisfies the inductive invariant.                        *)
LEMMA InitHolds == Init => IInv
<1>1. SUFFICES ASSUME Init PROVE IInv
  OBVIOUS
<1>2. ParserInv /\ NoneHeld
  <2>1. active = <<>>
    BY <1>1 DEF Init, ParserInit
  <2>2. QED
    BY <1>1, <2>1, ParserInitHolds DEF Init, NoneHeld
<1>3. SessionTypeOK
  BY <1>1 DEF Init, SessionTypeOK, ReaderStates
<1>4. Lifecycle /\ OutcomeSettled /\ ReleasedWhenOver
  BY <1>1 DEF Init, Lifecycle, OutcomeSettled, ReleasedWhenOver
<1>5. Range(active) = {}
  BY <1>2 DEF NoneHeld, Range
<1>6. ReleasesOwed /\ SeenIsHeld
  BY <1>1, <1>2, <1>5 DEF Init, ReleasesOwed, SeenIsHeld
<1>7. NotAhead
  BY <1>1 DEF Init, NotAhead
<1>8. QED
  BY <1>2, <1>3, <1>4, <1>6, <1>7 DEF IInv

(* A step that leaves the parser and what the consumer got alone, and      *)
(* neither starts nor ends the observation.                                *)
LEMMA QuietStepKeeps ==
  ASSUME IInv, UNCHANGED <<parserVars, outcome, pending, stamp, seen, seenTs>>,
         merged' \in Seq(MergedItem), readers' \in [Interfaces -> ReaderStates],
         \/ gen' = gen
         \/ gen \in {"new", "reading", "asking", "paused"} /\ gen' \in {"reading", "asking"}
         \/ gen \in {"paused", "releasing"} /\ gen' = "left",
         Lifecycle'
  PROVE  IInv'
<1>1. ParserInv' /\ (NoneHeld' <=> NoneHeld) /\ Range(active') = Range(active)
  BY ParserStepKeeps DEF IInv, parserVars, NoneHeld
<1>2. SessionTypeOK'
  BY DEF IInv, SessionTypeOK
<1>3. OutcomeSettled' /\ ReleasedWhenOver'
  BY DEF IInv, OutcomeSettled, ReleasedWhenOver
<1>4. ReleasesOwed'
  BY <1>1 DEF IInv, ReleasesOwed
<1>5. SeenIsHeld'
  BY <1>1 DEF IInv, SeenIsHeld, ReleasesOwed, NoneHeld, Range
<1>6. NotAhead'
  BY DEF IInv, NotAhead
<1>7. QED
  BY <1>1, <1>2, <1>3, <1>4, <1>5, <1>6 DEF IInv

(* Reader tasks: none starts to read once the adapter is closed.           *)
LEMMA ReadersStartKeeps == IInv /\ ReadersStart => IInv'
<1>1. SUFFICES ASSUME IInv, ReadersStart PROVE IInv'
  OBVIOUS
<1>2. ~Released /\ gen # "new"
  BY <1>1 DEF ReadersStart, Released, IInv, Lifecycle
<1>3. Lifecycle'
  BY <1>1, <1>2 DEF ReadersStart, IInv, Lifecycle
<1>4. merged' \in Seq(MergedItem) /\ readers' \in [Interfaces -> ReaderStates]
  BY <1>1 DEF ReadersStart, IInv, SessionTypeOK, ReaderStates
<1>5. QED
  BY <1>1, <1>3, <1>4, QuietStepKeeps DEF ReadersStart

(* A reader puts an event into the queue.                                  *)
LEMMA ReaderDeliversKeeps ==
  ASSUME IInv, NEW i \in Interfaces, NEW item \in MergedItem, ReaderDelivers(i, item)
  PROVE  IInv'
<1>1. merged' \in Seq(MergedItem) /\ readers' \in [Interfaces -> ReaderStates]
  BY DEF ReaderDelivers, IInv, SessionTypeOK
<1>2. Lifecycle'
  BY DEF ReaderDelivers, IInv, Lifecycle, Released
<1>3. QED
  BY <1>1, <1>2, QuietStepKeeps DEF ReaderDelivers

(* A reader ends, with an error or without.                                *)
LEMMA ReaderEndsKeeps ==
  ASSUME IInv, NEW i \in Interfaces, NEW last \in Seq(MergedItem),
         readers[i] \in {"reading", "stopping"}, ReaderEnds(i, last)
  PROVE  IInv'
<1>1. merged' \in Seq(MergedItem)
  <2>1. merged \in Seq(MergedItem) /\ Sentinel(i) \in Seq(MergedItem)
    BY ItemTypes DEF IInv, SessionTypeOK
  <2>2. merged \o last \in Seq(MergedItem)
    BY <2>1
  <2>3. (merged \o last) \o Sentinel(i) \in Seq(MergedItem)
    BY <2>1, <2>2
  <2>4. QED
    BY <2>3 DEF ReaderEnds
<1>2. /\ readers' \in [Interfaces -> ReaderStates]
      /\ \A j \in Interfaces : readers'[j] = IF j = i THEN "done" ELSE readers[j]
  BY DEF ReaderEnds, IInv, SessionTypeOK, ReaderStates
<1>3. Lifecycle'
  BY <1>2 DEF ReaderEnds, IInv, Lifecycle, Released
<1>4. QED
  BY <1>1, <1>2, <1>3, QuietStepKeeps DEF ReaderEnds

(* The first step of the generator.                                        *)
LEMMA StartingKeeps == IInv /\ Starting => IInv'
<1>1. SUFFICES ASSUME IInv, Starting PROVE IInv'
  OBVIOUS
<1>2. /\ gen = "new" /\ ~closed /\ handles = {} /\ pending = {} /\ seen = {}
      /\ \A i \in Interfaces : readers[i] = "none"
  BY <1>1 DEF Starting, DiscoveryFails, ObserveTooLate, OpenFails, Opens,
              IInv, Lifecycle, ReleasesOwed
<1>3. ASSUME UNCHANGED <<parserVars, pending, adapterVars, stamp, seen, seenTs>>,
             gen' = "over", outcome' \in {"discovery", "state"}, pipe' = "closed"
      PROVE  IInv'
  <2>1. ParserInv'
    BY <1>1, <1>3, ParserStepKeeps DEF IInv
  <2>2. SessionTypeOK'
    BY <1>1, <1>3 DEF IInv, SessionTypeOK, adapterVars
  <2>3. Lifecycle' /\ OutcomeSettled'
    BY <1>2, <1>3 DEF Lifecycle, OutcomeSettled, Released, adapterVars
  <2>4. ReleasesOwed' /\ SeenIsHeld' /\ ReleasedWhenOver'
    BY <1>2, <1>3 DEF ReleasesOwed, SeenIsHeld, ReleasedWhenOver
  <2>5. NotAhead'
    BY <1>1, <1>3 DEF IInv, NotAhead
  <2>6. QED
    BY <2>1, <2>2, <2>3, <2>4, <2>5 DEF IInv
<1>4. CASE DiscoveryFails
  BY <1>3, <1>4 DEF DiscoveryFails
<1>5. CASE ObserveTooLate
  BY <1>3, <1>5 DEF ObserveTooLate
<1>6. CASE OpenFails
  <2>1. ParserInv'
    BY <1>1, <1>6, ResetOwes DEF OpenFails
  <2>2. merged' \in Seq(MergedItem)
    BY <1>1, <1>6 DEF OpenFails, IInv, SessionTypeOK
  <2>3. QED
    BY <1>1, <1>2, <1>6, <2>1, <2>2, OverKeeps DEF OpenFails
<1>7. CASE Opens
  <2>1. merged' \in Seq(MergedItem) /\ readers' \in [Interfaces -> ReaderStates]
    BY <1>1, <1>7 DEF Opens, IInv, SessionTypeOK, ReaderStates
  <2>2. Lifecycle'
    BY <1>2, <1>7 DEF Opens, Lifecycle
  <2>3. QED
    BY <1>1, <1>2, <1>7, <2>1, <2>2, QuietStepKeeps DEF Opens
<1>8. QED
  BY <1>1, <1>4, <1>5, <1>6, <1>7 DEF Starting

(* The generator at work. Taking an item leaves a queue of items.          *)
LEMMA TakeTypes ==
  ASSUME IInv, NEW kind, Take(kind)
  PROVE  Head(merged) \in MergedItem /\ merged' \in Seq(MergedItem) /\ gen = "reading"
<1>1. merged \in Seq(MergedItem) /\ merged # <<>>
  BY DEF IInv, SessionTypeOK, Take
<1>2. Head(merged) \in MergedItem /\ Tail(merged) \in Seq(MergedItem)
  BY <1>1, HeadTailProperties
<1>3. QED
  BY <1>2 DEF Take

(* Items that never reach the parser.                                      *)
LEMMA PassingTakeKeeps == IInv /\ (TakeSentinel \/ TakeNoise) => IInv'
<1>1. SUFFICES ASSUME IInv, TakeSentinel \/ TakeNoise PROVE IInv'
  OBVIOUS
<1>2. merged' \in Seq(MergedItem) /\ gen = "reading"
  BY <1>1, TakeTypes DEF TakeSentinel, TakeNoise
<1>3. readers' \in [Interfaces -> ReaderStates]
  BY <1>1 DEF TakeSentinel, TakeNoise, IInv, SessionTypeOK
<1>4. Lifecycle'
  BY <1>1, <1>2 DEF TakeSentinel, TakeNoise, IInv, Lifecycle, Released
<1>5. QED
  BY <1>1, <1>2, <1>3, <1>4, QuietStepKeeps DEF TakeSentinel, TakeNoise

(* Timestamps of the adapter strictly increase.                            *)
LEMMA StampGrows ==
  ASSUME SessionTypeOK, NEW now \in Nat
  PROVE  Stamped(now) \in Nat /\ stamp < Stamped(now)
BY DEF SessionTypeOK, Stamped

(* A key event that reaches the parser is one it can be fed.               *)
LEMMA KeyFeeds ==
  ASSUME IInv, NEW now \in 0 .. MaxTime, TakeKey(now)
  PROVE  \/ UNCHANGED parserVars
         \/ \E e \in Raw : e.ts = Stamped(now) /\ Feed(e)
<1> DEFINE e == [code |-> Head(merged).code, value |-> Head(merged).value,
                 ts |-> Stamped(now)]
<1>1. Head(merged) \in MergedItem
  BY TakeTypes DEF TakeKey
<1>2. now \in Nat
  OBVIOUS
<1>3. Stamped(now) \in Nat
  BY <1>2, StampGrows DEF IInv
<1>4. e \in Raw /\ e.ts = Stamped(now)
  BY <1>1, <1>3 DEF MergedItem, Raw
<1>5. Feed(e) \/ UNCHANGED parserVars
  BY DEF TakeKey
<1>6. QED
  BY <1>4, <1>5

(* A key event: what the consumer believes follows what the parser holds.  *)
LEMMA TakeKeyKeeps ==
  ASSUME IInv, NEW now \in 0 .. MaxTime, TakeKey(now)
  PROVE  IInv'
<1> DEFINE it == Head(merged)
           ts == Stamped(now)
<1>1. /\ gen = "reading" /\ merged' \in Seq(MergedItem) /\ stamp' = ts
      /\ UNCHANGED <<pipe, outcome, pending, closed, handles, readers>>
  BY TakeTypes DEF TakeKey
<1>2. ts \in Nat /\ stamp \in Nat /\ stamp < ts
  <2>1. now \in Nat
    OBVIOUS
  <2>2. QED
    BY <2>1, StampGrows DEF IInv, SessionTypeOK
<1>3. \/ gen' = "paused" /\ seen' = Heard(seen, out') /\ seenTs' = ts /\ it.from = Keyboard
      \/ gen' = "asking" /\ UNCHANGED <<seen, seenTs>> /\ ~(it.from = Keyboard /\ out' # {})
  BY DEF TakeKey
<1>4. pending = {} /\ seen = Range(active) /\ seen = down
  BY <1>1 DEF IInv, ReleasesOwed, SeenIsHeld, ParserInv, HeldIsDown
<1>5. ParserInv'
  BY KeyFeeds, ParserFeedKeeps, ParserStepKeeps DEF IInv
<1>6. down' = Range(active')
  BY <1>5 DEF ParserInv, HeldIsDown
<1>7. ASSUME NEW e \in Raw, Feed(e)
      PROVE  down' = Heard(down, out')
  BY <1>7 DEF Feed, Regressed, Uninteresting, ShiftPressed, ShiftReleased, KeyDown,
              KeyUp, Emit
<1>8. seen' = Range(active')
  <2>1. CASE it.from = Keyboard
    <3>1. down' = Heard(down, out')
      <4>1. Feed([code |-> it.code, value |-> it.value, ts |-> ts])
        BY <2>1 DEF TakeKey
      <4>2. [code |-> it.code, value |-> it.value, ts |-> ts] \in Raw
        BY <1>2, TakeTypes DEF TakeKey, MergedItem, Raw
      <4>3. QED
        BY <1>7, <4>1, <4>2
    <3>2. out' = {} => Heard(seen, out') = seen
      BY HeardNothing
    <3>3. seen' = Heard(seen, out')
      BY <1>3, <2>1, <3>2
    <3>4. QED
      BY <1>4, <1>6, <3>1, <3>3
  <2>2. CASE it.from # Keyboard
    <3>1. UNCHANGED active
      BY <2>2 DEF TakeKey, parserVars
    <3>2. QED
      BY <1>3, <1>4, <2>2, <3>1 DEF Range
  <2>3. QED
    BY <2>1, <2>2
<1> HIDE DEF it, ts
<1>9. SessionTypeOK'
  BY <1>1, <1>2, <1>3 DEF IInv, SessionTypeOK
<1>10. Lifecycle' /\ OutcomeSettled' /\ ReleasedWhenOver'
  BY <1>1, <1>3 DEF IInv, Lifecycle, OutcomeSettled, ReleasedWhenOver, Released
<1>11. ReleasesOwed' /\ SeenIsHeld'
  BY <1>1, <1>3, <1>4, <1>8 DEF ReleasesOwed, SeenIsHeld
<1>12. NotAhead'
  BY <1>1, <1>2, <1>3 DEF IInv, NotAhead, SessionTypeOK
<1>13. QED
  BY <1>5, <1>9, <1>10, <1>11, <1>12 DEF IInv

(* An input error: reset, and the first release or the end.                *)
LEMMA TakeErrorKeeps == IInv /\ TakeError => IInv'
<1>1. SUFFICES ASSUME IInv, TakeError PROVE IInv'
  OBVIOUS
<1>2. merged' \in Seq(MergedItem) /\ gen = "reading"
  BY <1>1, TakeTypes DEF TakeError
<1>3. QED
  BY <1>1, <1>2, ResetOwes, ReleasingKeeps DEF TakeError

(* The consumer asks on: back to the queue, or the input has ended.        *)
LEMMA AsksKeeps == IInv /\ Asks => IInv'
<1>1. SUFFICES ASSUME IInv, Asks PROVE IInv'
  OBVIOUS
<1>2. /\ gen \in {"asking", "paused"} /\ merged' \in Seq(MergedItem)
      /\ UNCHANGED <<merged, running, stamp, inputs>>
  BY <1>1 DEF Asks, IInv, SessionTypeOK
<1>3. CASE ~closed /\ running > 0
  <2>1. gen' = "reading" /\ UNCHANGED <<parserVars, pipe, outcome, pending, closed, handles,
                                        readers, seen, seenTs>>
    BY <1>1, <1>3 DEF Asks
  <2>2. Lifecycle' /\ readers' \in [Interfaces -> ReaderStates]
    BY <1>1, <1>2, <2>1 DEF IInv, SessionTypeOK, Lifecycle, Released
  <2>3. QED
    BY <1>1, <1>2, <2>1, <2>2, QuietStepKeeps
<1>4. CASE ~(~closed /\ running > 0)
  <2>1. Reset(ResetTs) /\ Releasing("close_failed", out')
    BY <1>1, <1>4 DEF Asks
  <2>2. QED
    BY <1>1, <1>2, <2>1, ResetOwes, ReleasingKeeps
<1>5. QED
  BY <1>3, <1>4

(* The consumer asks for the next release.                                 *)
LEMMA AsksForReleaseKeeps == IInv /\ AsksForRelease => IInv'
<1>1. SUFFICES ASSUME IInv, AsksForRelease PROVE IInv'
  OBVIOUS
<1>2. /\ gen = "releasing" /\ Releasing(outcome, pending)
      /\ UNCHANGED <<parserVars, merged, running, stamp, inputs>>
  BY <1>1 DEF AsksForRelease
<1>3. outcome \in {"input", "close_failed"} /\ NoneHeld
  BY <1>1, <1>2 DEF IInv, OutcomeSettled, ReleasesOwed
<1>4. ParserInv' /\ NoneHeld'
  BY <1>1, <1>2, <1>3, ParserStepKeeps DEF IInv, NoneHeld, parserVars
<1>5. seen = {e.control : e \in pending}
  BY <1>1, <1>2, <1>3 DEF IInv, SeenIsHeld, NoneHeld, Range
<1>6. \A e \in pending : e = Emission(e.control, "up", stamp + 1, TRUE)
  BY <1>1 DEF IInv, ReleasesOwed
<1>7. merged' \in Seq(MergedItem)
  BY <1>1, <1>2 DEF IInv, SessionTypeOK
<1>8. QED
  BY <1>1, <1>2, <1>3, <1>4, <1>5, <1>6, <1>7, ReleasingKeeps

(* Cancelled or abandoned, it ends without the releases.                   *)
LEMMA DropsKeeps ==
  ASSUME IInv, NEW how \in {"cancelled", "abandoned"}, Drops(how)
  PROVE  IInv'
<1>1. ParserInv'
  BY ParserResetKeeps DEF IInv, Drops
<1>2. merged' \in Seq(MergedItem)
  BY DEF Drops, IInv, SessionTypeOK
<1>3. QED
  BY <1>1, <1>2, OverKeeps DEF Drops

(* The consumer, the task that closes the session and the event loop.      *)
LEMMA ConsumerKeeps == IInv /\ Consumer => IInv'
<1>1. SUFFICES ASSUME IInv, Consumer PROVE IInv'
  OBVIOUS
<1>2. CASE Cancel \/ Finalise
  BY <1>1, <1>2, DropsKeeps DEF Cancel, Finalise
<1>3. CASE Leave
  <2>1. merged' \in Seq(MergedItem) /\ readers' \in [Interfaces -> ReaderStates]
    BY <1>1, <1>3 DEF Leave, adapterVars, IInv, SessionTypeOK
  <2>2. Lifecycle'
    BY <1>1, <1>3 DEF Leave, adapterVars, IInv, Lifecycle, Released
  <2>3. QED
    BY <1>1, <1>3, <2>1, <2>2, QuietStepKeeps DEF Leave
<1>4. CASE Close
  <2>1. /\ pipe \in {"created", "running"} /\ merged' \in Seq(MergedItem)
        /\ UNCHANGED <<parserVars, gen, outcome, pending, merged, running, stamp,
                       seen, seenTs, inputs>>
    BY <1>1, <1>4 DEF Close, IInv, SessionTypeOK
  <2>2. gen # "over"
    BY <1>1, <2>1 DEF IInv, Lifecycle
  <2>3. CASE pipe = "created"
    <3>1. pipe' = "closed" /\ UNCHANGED <<closed, handles, readers>>
      BY <1>4, <2>3 DEF Close
    <3>2. Lifecycle' /\ readers' \in [Interfaces -> ReaderStates]
      BY <1>1, <2>1, <2>2, <3>1 DEF IInv, SessionTypeOK, Lifecycle, Released
    <3>3. QED
      BY <1>1, <2>1, <3>2, QuietStepKeeps
  <2>4. CASE pipe = "running"
    <3>1. pipe' = "closing" /\ CloseAdapter
      BY <1>4, <2>4 DEF Close
    <3>2. Released' /\ readers' \in [Interfaces -> ReaderStates]
      BY <1>1, <3>1, ClosingReleases
    <3>3. gen # "new"
      BY <1>1, <2>4 DEF IInv, Lifecycle
    <3>4. Lifecycle'
      BY <2>1, <2>2, <3>2, <3>3 DEF Lifecycle
    <3>5. QED
      BY <1>1, <2>1, <3>2, <3>4, QuietStepKeeps
  <2>5. QED
    BY <2>1, <2>3, <2>4
<1>5. QED
  BY <1>1, <1>2, <1>3, <1>4 DEF Consumer

(* A step that changes nothing.                                            *)
LEMMA StillKeeps == IInv /\ UNCHANGED vars => IInv'
<1>1. SUFFICES ASSUME IInv, UNCHANGED vars PROVE IInv'
  OBVIOUS
<1>2. merged' \in Seq(MergedItem) /\ readers' \in [Interfaces -> ReaderStates]
  BY <1>1 DEF vars, adapterVars, IInv, SessionTypeOK
<1>3. Lifecycle'
  BY <1>1 DEF vars, adapterVars, IInv, Lifecycle, Released
<1>4. QED
  BY <1>1, <1>2, <1>3, QuietStepKeeps DEF vars

(* Every step keeps the inductive invariant.                               *)
LEMMA StepKeeps == IInv /\ [Next]_vars => IInv'
<1>1. SUFFICES ASSUME IInv, Steps PROVE IInv'
  BY NextSteps, StillKeeps
<1>2. CASE Generator
  BY <1>1, <1>2, PassingTakeKeeps, TakeErrorKeeps, TakeKeyKeeps, AsksKeeps,
     AsksForReleaseKeeps DEF Generator
<1>3. QED
  BY <1>1, <1>2, ReadersStartKeeps, ReaderDeliversKeeps, ReaderEndsKeeps, StartingKeeps,
     ConsumerKeeps, StillKeeps DEF Steps

(* The inductive invariant holds of every behaviour of the session.        *)
THEOREM InvHolds == Spec => []IInv
  BY InitHolds, StepKeeps, PTL DEF Spec

(* An observation that is over has left no device open and no reader       *)
(* running, however many interfaces there are and however it ended.        *)
THEOREM AlwaysEndsClean == Spec => []EndsClean
<1>1. IInv => EndsClean
  BY DEF IInv, Lifecycle, Released, EndsClean
<1>2. QED
  BY <1>1, InvHolds, PTL

(* Before an input error or the end of the input is reported, the consumer *)
(* has been given the release of every control it saw go down.             *)
THEOREM AlwaysReleasedWhenOver == Spec => []ReleasedWhenOver
<1>1. IInv => ReleasedWhenOver
  BY DEF IInv
<1>2. QED
  BY <1>1, InvHolds, PTL

(* What the consumer was told is down is what the parser holds or what is  *)
(* about to be released.                                                   *)
THEOREM SeenIsAlwaysHeld == Spec => []SeenIsHeld
<1>1. IInv => SeenIsHeld
  BY DEF IInv
<1>2. QED
  BY <1>1, InvHolds, PTL

-----------------------------------------------------------------------------
(* What the consumer gets is not from before what it got last.             *)

(* A release bears the time after the last input's.                        *)
LEMMA ReleasingInOrder ==
  ASSUME IInv, NEW how, NEW events, Releasing(how, events),
         \A e \in events : e = Emission(e.control, "up", stamp + 1, TRUE)
  PROVE  seenTs' >= seenTs
<1>1. stamp \in Nat /\ seenTs \in Nat /\ seenTs <= stamp + 1
  BY DEF IInv, SessionTypeOK, NotAhead
<1>2. CASE events = {}
  BY <1>1, <1>2 DEF Releasing, Owed
<1>3. CASE events # {}
  <2>1. PICK e \in events : seenTs' = e.ts
    BY <1>3 DEF Releasing, Owed
  <2>2. Emission(e.control, "up", stamp + 1, TRUE).ts = stamp + 1
    BY DEF Emission
  <2>3. seenTs' = stamp + 1
    BY <2>1, <2>2
  <2>4. QED
    BY <1>1, <2>3
<1>4. QED
  BY <1>2, <1>3

(* The consumer's timestamps never decrease, synthetic releases included,  *)
(* whatever the clock of the adapter says.                                 *)
THEOREM AlwaysInTimeOrder == Spec => InTimeOrder
<1>1. ASSUME IInv, Next
      PROVE  seenTs' >= seenTs
  <2>1. stamp \in Nat /\ seenTs \in Nat
    BY <1>1 DEF IInv, SessionTypeOK
  <2>2. ASSUME NEW now \in 0 .. MaxTime, TakeKey(now)
        PROVE  seenTs' >= seenTs
    <3>1. gen = "reading" /\ seenTs <= stamp
      BY <1>1, <2>2, TakeTypes DEF TakeKey, IInv, NotAhead
    <3>2. now \in Nat
      OBVIOUS
    <3>3. Stamped(now) \in Nat /\ stamp < Stamped(now)
      BY <1>1, <3>2, StampGrows DEF IInv
    <3>4. seenTs' = Stamped(now) \/ seenTs' = seenTs
      BY <2>2 DEF TakeKey
    <3>5. QED
      BY <2>1, <3>1, <3>3, <3>4
  <2>3. CASE TakeError
    BY <1>1, <2>3, ResetOwes, ReleasingInOrder DEF TakeError
  <2>4. CASE Asks
    <3>1. CASE seenTs' = seenTs
      BY <2>1, <3>1
    <3>2. CASE seenTs' # seenTs
      BY <1>1, <2>4, <3>2, ResetOwes, ReleasingInOrder DEF Asks
    <3>3. QED
      BY <3>1, <3>2
  <2>5. CASE AsksForRelease
    <3>1. \A e \in pending : e = Emission(e.control, "up", stamp + 1, TRUE)
      BY <1>1 DEF IInv, ReleasesOwed
    <3>2. QED
      BY <1>1, <2>5, <3>1, ReleasingInOrder DEF AsksForRelease
  <2>6. ASSUME UNCHANGED seenTs PROVE seenTs' >= seenTs
    BY <2>1, <2>6
  <2>7. CASE Starting
    BY <2>6, <2>7 DEF Starting, DiscoveryFails, ObserveTooLate, OpenFails, Opens
  <2>8. CASE Consumer
    BY <2>6, <2>8 DEF Consumer, Cancel, Leave, Finalise, Close, Drops
  <2>9. CASE TakeSentinel \/ TakeNoise
    BY <2>6, <2>9 DEF TakeSentinel, TakeNoise
  <2>10. CASE ReadersStart
    BY <2>6, <2>10 DEF ReadersStart
  <2>11. ASSUME NEW i \in Interfaces, NEW item, ReaderDelivers(i, item)
         PROVE  seenTs' >= seenTs
    BY <2>6, <2>11 DEF ReaderDelivers
  <2>12. ASSUME NEW i \in Interfaces, NEW last, ReaderEnds(i, last)
         PROVE  seenTs' >= seenTs
    BY <2>6, <2>12 DEF ReaderEnds
  <2>13. CASE UNCHANGED vars
    BY <2>6, <2>13 DEF vars
  <2>14. CASE Generator
    BY <2>2, <2>3, <2>4, <2>5, <2>9, <2>14 DEF Generator
  <2>15. QED
    BY <1>1, <2>7, <2>8, <2>10, <2>11, <2>12, <2>13, <2>14, NextSteps DEF Steps
<1>2. IInv /\ [Next]_vars => [seenTs' >= seenTs]_vars
  BY <1>1
<1>3. QED
  BY <1>2, InvHolds, PTL DEF Spec, InTimeOrder

-----------------------------------------------------------------------------
(* A session's step is a step of its parser, or none.                      *)
LEMMA StepOfParser == IInv /\ [Next]_vars => [Step]_parserVars
<1>1. SUFFICES ASSUME IInv, Steps PROVE [Step]_parserVars
  BY NextSteps DEF Steps
<1>2. stamp + 1 \in Nat /\ 0 \in Nat /\ ResetTs = stamp + 1
  BY <1>1 DEF IInv, SessionTypeOK, ResetTs
<1>3. Reset(ResetTs) \/ Reset(0) => Step
  BY <1>2 DEF Step
<1>4. CASE Starting
  BY <1>3, <1>4 DEF Starting, DiscoveryFails, ObserveTooLate, OpenFails, Opens
<1>5. CASE Consumer
  BY <1>3, <1>5 DEF Consumer, Cancel, Leave, Finalise, Close, Drops
<1>6. CASE Generator
  <2>1. ASSUME NEW now \in 0 .. MaxTime, TakeKey(now)
        PROVE  [Step]_parserVars
    BY <1>1, <2>1, KeyFeeds DEF Step
  <2>2. CASE TakeSentinel \/ TakeNoise \/ TakeError \/ Asks \/ AsksForRelease
    BY <1>3, <2>2 DEF TakeSentinel, TakeNoise, TakeError, Asks, AsksForRelease
  <2>3. QED
    BY <1>6, <2>1, <2>2 DEF Generator
<1>7. CASE UNCHANGED vars
  BY <1>7 DEF vars
<1>8. QED
  BY <1>1, <1>4, <1>5, <1>6, <1>7 DEF Steps, ReadersStart, ReaderDelivers, ReaderEnds

(* The session implements its parser: it feeds it nothing but key events   *)
(* that feed() accepts as such, and what is proved of the parser alone,    *)
(* that DOWN and UP alternate and that a late Shift is forgotten, holds    *)
(* inside every session.                                                   *)
THEOREM ParserImplemented ==
  Spec => ParserSpec /\ []HeldIsDown /\ Alternates /\ LateShiftIsForgotten
<1>1. Init => ParserInit
  BY DEF Init
<1>2. Spec => ParserSpec
  BY <1>1, StepOfParser, InvHolds, PTL DEF Spec, ParserSpec
<1>3. QED
  BY <1>2, HeldIsAlwaysDown, AlwaysAlternates, LateShiftAlwaysForgotten

-----------------------------------------------------------------------------
(* The session implements the contract the daemon relies on: what of the   *)
(* session the contract sees.                                              *)
Session ==
  CASE gen = "over" -> Ending
    [] gen = "left" -> "ended"
    [] OTHER        -> "observing"
Stream == IF pipe \in {"created", "running"} THEN "open" ELSE "closed"

(* The contract's formulas in these terms.                                 *)
LEMMA ContractView ==
  /\ Contract!Init <=> Session = "observing" /\ Stream = "open"
  /\ UNCHANGED <<Session, Stream>> => UNCHANGED Contract!vars
  /\ Contract!Next <=>
       \/ /\ Session = "observing" /\ Session' \in {"recoverable", "fatal", "cancelled"}
          /\ Stream' = "closed"
       \/ Session = "observing" /\ Session' = "ended" /\ UNCHANGED Stream
       \/ Stream = "open" /\ Stream' = "closed" /\ UNCHANGED Session
  BY DEF Contract!Init, Contract!vars, Contract!Next, Contract!Ends, Contract!Cancelled,
         Contract!Left, Contract!Closed, Session, Stream

(* While it is not over, it is observing or was left.                      *)
LEMMA Observing ==
  /\ gen \notin {"left", "over"} => Session = "observing"
  /\ gen = "left" => Session = "ended"
  BY DEF Session

(* How the contract sees an observation that just ended.                   *)
LEMMA EndedIn ==
  ASSUME gen' = "over"
  PROVE  /\ outcome' \in {"discovery", "input"} => Session' = "recoverable"
         /\ outcome' \in {"state", "close_failed"} => Session' = "fatal"
         /\ outcome' = "cancelled" => Session' = "cancelled"
         /\ outcome' = "abandoned" => Session' = "ended"
  BY DEF Session, Ending

(* Yielding a release is no step of the contract, ending after the last    *)
(* one is its Ends.                                                        *)
LEMMA ReleasingIsContract ==
  ASSUME IInv, NEW how \in {"input", "close_failed"}, NEW events, Releasing(how, events),
         gen \notin {"left", "over"}
  PROVE  [Contract!Next]_Contract!vars
<1>1. Session = "observing"
  BY Observing
<1>2. CASE events = {}
  <2>1. gen' = "over" /\ outcome' = how /\ pipe' = "closed"
    BY <1>2 DEF Releasing, Owed, Over, FinalPipe
  <2>2. Session' \in {"recoverable", "fatal"} /\ Stream' = "closed"
    BY <2>1, EndedIn DEF Stream
  <2>3. QED
    BY <1>1, <2>2, ContractView
<1>3. CASE events # {}
  <2>1. gen' = "releasing" /\ pipe' = pipe
    BY <1>3 DEF Releasing, Owed
  <2>2. Session' = Session /\ Stream' = Stream
    BY <1>1, <2>1 DEF Session, Stream
  <2>3. QED
    BY <2>2, ContractView
<1>4. QED
  BY <1>2, <1>3

(* Every step of the session is a step of the contract, or none.           *)
LEMMA StepOfContract == IInv /\ [Next]_vars => [Contract!Next]_Contract!vars
<1>1. SUFFICES ASSUME IInv, Steps PROVE [Contract!Next]_Contract!vars
  BY NextSteps DEF Steps
<1>2. ASSUME UNCHANGED <<Session, Stream>> PROVE [Contract!Next]_Contract!vars
  BY <1>2, ContractView
<1>3. ASSUME gen \notin {"left", "over"}, gen' \notin {"left", "over"}, UNCHANGED pipe
      PROVE  [Contract!Next]_Contract!vars
  BY <1>2, <1>3 DEF Session, Stream
<1>4. ASSUME UNCHANGED <<gen, outcome, pipe>> PROVE [Contract!Next]_Contract!vars
  BY <1>2, <1>4 DEF Session, Stream, Ending
<1>5. CASE Starting
  <2>1. gen = "new" /\ Session = "observing"
    BY <1>5, Observing DEF Starting, DiscoveryFails, ObserveTooLate, OpenFails, Opens
  <2>2. CASE DiscoveryFails \/ ObserveTooLate \/ OpenFails
    <3>1. gen' = "over" /\ outcome' \in {"discovery", "state", "input"} /\ pipe' = "closed"
      BY <2>2 DEF DiscoveryFails, ObserveTooLate, OpenFails, Over, FinalPipe
    <3>2. Session' \in {"recoverable", "fatal"} /\ Stream' = "closed"
      BY <3>1, EndedIn DEF Stream
    <3>3. QED
      BY <2>1, <3>2, ContractView
  <2>3. CASE Opens
    <3>1. Session' = "observing"
      BY <2>3 DEF Opens, Session
    <3>2. Stream' = Stream
      BY <2>3 DEF Opens, Stream
    <3>3. QED
      BY <1>2, <2>1, <3>1, <3>2
  <2>4. QED
    BY <1>5, <2>2, <2>3 DEF Starting
<1>6. CASE Generator
  <2>1. CASE TakeSentinel \/ TakeNoise \/ \E now \in 0 .. MaxTime : TakeKey(now)
    BY <1>3, <2>1 DEF TakeSentinel, TakeNoise, TakeKey, Take
  <2>2. CASE TakeError
    BY <1>1, <2>2, ReleasingIsContract DEF TakeError, Take
  <2>3. CASE Asks
    <3>1. gen \in {"asking", "paused"}
      BY <2>3 DEF Asks
    <3>2. CASE ~closed /\ running > 0
      BY <1>3, <2>3, <3>1, <3>2 DEF Asks
    <3>3. CASE ~(~closed /\ running > 0)
      BY <1>1, <2>3, <3>1, <3>3, ReleasingIsContract DEF Asks
    <3>4. QED
      BY <3>2, <3>3
  <2>4. CASE AsksForRelease
    <3>1. gen = "releasing" /\ outcome \in {"input", "close_failed"}
      BY <1>1, <2>4 DEF AsksForRelease, IInv, OutcomeSettled
    <3>2. QED
      BY <1>1, <2>4, <3>1, ReleasingIsContract DEF AsksForRelease
  <2>5. QED
    BY <1>6, <2>1, <2>2, <2>3, <2>4 DEF Generator
<1>7. CASE Consumer
  <2>1. CASE Cancel
    <3>1. gen' = "over" /\ outcome' = "cancelled" /\ pipe' = "closed" /\ gen = "reading"
      BY <2>1 DEF Cancel, Drops, Over, FinalPipe
    <3>2. Session' = "cancelled" /\ Stream' = "closed" /\ Session = "observing"
      BY <3>1, EndedIn, Observing DEF Stream
    <3>3. QED
      BY <3>2, ContractView
  <2>2. CASE Leave
    <3>1. Session' = "ended" /\ Session = "observing"
      BY <2>2, Observing DEF Leave, Session
    <3>2. Stream' = Stream
      BY <2>2 DEF Leave, Stream
    <3>3. QED
      BY <3>1, <3>2, ContractView
  <2>3. CASE Finalise
    <3>1. gen' = "over" /\ outcome' = "abandoned" /\ pipe' = "closed" /\ gen = "left"
      BY <2>3 DEF Finalise, Drops, Over, FinalPipe
    <3>2. Session' = Session /\ Stream' = "closed" /\ Stream \in {"open", "closed"}
      BY <3>1, EndedIn, Observing DEF Stream
    <3>3. QED
      BY <3>2, ContractView
  <2>4. CASE Close
    <3>1. Stream = "open" /\ Stream' = "closed"
      BY <2>4 DEF Close, Stream
    <3>2. Session' = Session
      BY <2>4 DEF Close, Session, Ending
    <3>3. QED
      BY <3>1, <3>2, ContractView
  <2>5. QED
    BY <1>7, <2>1, <2>2, <2>3, <2>4 DEF Consumer
<1>8. CASE UNCHANGED vars
  BY <1>4, <1>8 DEF vars
<1>9. QED
  BY <1>1, <1>4, <1>5, <1>6, <1>7, <1>8 DEF Steps, ReadersStart, ReaderDelivers, ReaderEnds

(* The real session implements what the daemon's model assumes of one: an  *)
(* observation ends recoverably, fatally or cancelled only with its stream *)
(* closed, and only a session that was left keeps it open.                 *)
THEOREM ContractImplemented == Spec => ImplementsContract
<1>1. Init => Contract!Init
  BY ContractView DEF Init, Session, Stream
<1>2. QED
  BY <1>1, StepOfContract, InvHolds, PTL DEF Spec, ImplementsContract, Contract!Spec
=============================================================================
