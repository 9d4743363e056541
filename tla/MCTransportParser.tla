-------------------------- MODULE MCTransportParser --------------------------
(* A small instance of TransportParser: two keys with a button and an      *)
(* encoder position each, as KEY_F13 and KEY_F14 have in the code's        *)
(* codebook, and one F key outside of it.                                  *)
EXTENDS TransportParser, TLC

CONSTANTS F13, F14, F1, A1, A2, AL, AP

MCCodebook ==
  <<F13, FALSE>> :> A1 @@ <<F14, FALSE>> :> A2
    @@ <<F13, TRUE>> :> AL @@ <<F14, TRUE>> :> AP
=============================================================================
