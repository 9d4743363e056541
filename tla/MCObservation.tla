---------------------------- MODULE MCObservation ----------------------------
(* A small instance of Observation: both interfaces, one F key with its    *)
(* button and its encoder position.                                        *)
EXTENDS Observation, TLC

CONSTANTS F13, A1, AL

MCCodebook == <<F13, FALSE>> :> A1 @@ <<F13, TRUE>> :> AL
=============================================================================
