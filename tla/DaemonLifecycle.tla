--------------------------- MODULE DaemonLifecycle ---------------------------
(***************************************************************************)
(* What an observer of "yyr4ctl status" may rely on: the states a daemon   *)
(* goes through (daemon/models.py, DaemonState) and the stop request.      *)
(* STARTING lasts for part of one step of run() and is never seen; nothing *)
(* in the code enters RELOADING.                                           *)
(***************************************************************************)
VARIABLES
  state,   (* DaemonRuntime.state                   *)
  stop     (* has a stop been requested?            *)

vars == <<state, stop>>

Live  == {"CONNECTING", "RUNNING", "RECONNECTING"}
Final == {"STOPPED", "FAILED"}

Init == state = "CREATED" /\ stop = FALSE

(* run() loads the configuration, or gives up.                             *)
Begin == state = "CREATED" /\ state' \in {"CONNECTING", "FAILED"} /\ UNCHANGED stop

(* The device delivers the first event of a session.                       *)
Connected == state \in Live /\ state' = "RUNNING" /\ UNCHANGED stop

(* A session was lost: only a daemon not asked to stop tries another one.  *)
Lost == state \in Live /\ ~stop /\ state' = "RECONNECTING" /\ UNCHANGED stop

Break == state \in Live /\ state' = "FAILED" /\ UNCHANGED stop

(* Stopping needs a request, and is the only way to STOPPED.               *)
Stopping == state \in Live /\ stop /\ state' = "STOPPING" /\ UNCHANGED stop
Stopped  == state = "STOPPING" /\ state' = "STOPPED" /\ UNCHANGED stop

RequestStop == state # "CREATED" /\ ~stop /\ stop' = TRUE /\ UNCHANGED state

Next == Begin \/ Connected \/ Lost \/ Break \/ Stopping \/ Stopped \/ RequestStop

(* A requested stop is carried out.                                        *)
Fairness == WF_vars(Stopping) /\ WF_vars(Stopped)

Spec     == Init /\ [][Next]_vars
FairSpec == Spec /\ Fairness
=============================================================================
