--------------------------- MODULE SessionContract ---------------------------
(***************************************************************************)
(* What the daemon assumes of an input session from its start to its end:  *)
(* how observing may end, and when the session's stream is open. The       *)
(* consumer's actions of DaemonRuntime are these steps, with the daemon's  *)
(* bookkeeping added; Observation, the real session, implements them.      *)
(***************************************************************************)
VARIABLES
  session,   (* how observing goes on or ended                             *)
  stream     (* would close() still find a stream to close?                *)

vars == <<session, stream>>

Init == session = "observing" /\ stream = "open"

(* The observation ends with an error of its own, its stream closed.       *)
Ends(how) ==
  /\ session = "observing"
  /\ how \in {"recoverable", "fatal"}
  /\ session' = how
  /\ stream' = "closed"

(* The consumer is cancelled while it waits for input.                     *)
Cancelled ==
  /\ session = "observing"
  /\ session' = "cancelled"
  /\ stream' = "closed"

(* The consumer stops asking after an event it was given.                  *)
Left == session = "observing" /\ session' = "ended" /\ UNCHANGED stream

(* close(), or the finalisation of a generator that was left.              *)
Closed == stream = "open" /\ stream' = "closed" /\ UNCHANGED session

Next ==
  \/ \E how \in {"recoverable", "fatal"} : Ends(how)
  \/ Cancelled \/ Left \/ Closed

Spec == Init /\ [][Next]_vars
=============================================================================
