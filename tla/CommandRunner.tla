---------------------------- MODULE CommandRunner ----------------------------
(***************************************************************************)
(* execution/command.py: run() starts a child process, waits for it under  *)
(* a time-out, and terminates and then kills one that takes too long or    *)
(* whose caller is cancelled.                                              *)
(*                                                                         *)
(* The child and asyncio's subprocess transport are the environment. On    *)
(* Python 3.11 a wait() that was begun before the exit status was known    *)
(* ends only when both output pipes are at their end too. A pipe is not    *)
(* read any further once the code has stopped reading at its limit and     *)
(* asyncio's buffer is full, and it does not end while another process     *)
(* holds it open. This module has no specification of its own: its actions *)
(* are taken by ActionEngine, or by the environment.                       *)
(***************************************************************************)
EXTENDS Naturals

CONSTANTS
  AllowCommands,   (* CommandExecutionPolicy.allow_commands                *)
  Commands,        (* command names that actions may have                  *)
  Desktop          (* xdotool                                              *)

VARIABLES
  pc,        (* where run() is suspended                                   *)
  outcome,   (* how the last run() ended                                   *)
  child,     (* the process run() started                                  *)
  status,    (* its exit status                                            *)
  stubborn,  (* it ignores SIGTERM                                         *)
  clogged,   (* its output is no longer read                               *)
  shared,    (* another process holds its pipes                            *)
  known,     (* the transport knows the exit status (returncode)           *)
  wait       (* the proc.wait() that run() awaits                          *)

childVars  == <<child, status, stubborn, clogged, shared>>
runnerVars == <<pc, outcome, childVars, known, wait>>

RunnerInit ==
  /\ pc = "idle" /\ outcome = "none"
  /\ child = "none" /\ status = "none"
  /\ stubborn = FALSE /\ clogged = FALSE /\ shared = FALSE
  /\ known = FALSE /\ wait = "none"

RunnerTypeOK ==
  /\ pc \in {"idle", "waiting", "grace", "reaping", "cgrace", "creaping", "harvest"}
  /\ outcome \in {"none", "rejected", "not_started", "zero", "nonzero",
                  "timed_out", "cancelled"}
  /\ child \in {"none", "running", "exited"}
  /\ status \in {"none", "zero", "nonzero", "signal"}
  /\ {stubborn, clogged, shared, known} \subseteq BOOLEAN
  /\ wait \in {"none", "pending", "done"}
  /\ (pc # "idle") => child # "none"

(* Mutated forms, never used; a named property must catch each.            *)
ReapedSlip == TRUE
FinalSlip  == "zero"

-----------------------------------------------------------------------------
(* The environment: the child, and the transport that watches it.          *)

ChildExits ==
  /\ child = "running"
  /\ child' = "exited"
  /\ status' \in {"zero", "nonzero"}
  /\ UNCHANGED <<pc, outcome, stubborn, clogged, shared, known, wait>>

(* More output than the limit and the buffers hold.                        *)
ChildClogs ==
  /\ child = "running" /\ pc # "idle"
  /\ clogged' = TRUE
  /\ UNCHANGED <<pc, outcome, child, status, stubborn, shared, known, wait>>

(* The child starts a process that inherits its output, or that one ends.  *)
ChildShares ==
  /\ shared \/ (child = "running" /\ pc # "idle")
  /\ shared' = ~shared
  /\ UNCHANGED <<pc, outcome, child, status, stubborn, clogged, known, wait>>

ExitReported ==
  /\ child = "exited" /\ ~known
  /\ known' = TRUE
  /\ UNCHANGED <<pc, outcome, childVars, wait>>

(* Both pipes are at their end: the transport is finished, and wait() ends.*)
TransportFinishes ==
  /\ known /\ ~clogged /\ ~shared
  /\ wait = "pending"
  /\ wait' = "done"
  /\ UNCHANGED <<pc, outcome, childVars, known>>

-----------------------------------------------------------------------------
(* run()                                                                   *)

(* is_allowed()                                                            *)
Allowed(command) == command \in AllowCommands

BegunWait == IF known THEN "done" ELSE "pending"

(* run() is over, and nobody waits for the child any more.                 *)
Ends(how) ==
  /\ pc' = "idle"
  /\ outcome' = how
  /\ wait' = "none"

Rejected(command) ==
  /\ ~Allowed(command)
  /\ Ends("rejected")
  /\ UNCHANGED <<childVars, known>>

NotStarted(command) ==
  /\ Allowed(command)
  /\ Ends("not_started")
  /\ UNCHANGED <<childVars, known>>

Started(command) ==
  /\ Allowed(command)
  /\ pc' = "waiting"
  /\ outcome' = "none"
  /\ child' = "running" /\ status' = "none"
  /\ stubborn' \in BOOLEAN
  /\ clogged' = FALSE /\ shared' = FALSE /\ known' = FALSE
  /\ wait' = "pending"

Run(command) ==
  /\ pc = "idle"
  /\ Rejected(command) \/ NotStarted(command) \/ Started(command)

(* SIGTERM and SIGKILL; a child that is gone is left in peace.             *)
Terminate ==
  IF child = "running" /\ ~stubborn
  THEN child' = "exited" /\ status' = "signal"
  ELSE UNCHANGED <<child, status>>

Kill ==
  IF child = "running"
  THEN child' = "exited" /\ status' = "signal"
  ELSE UNCHANGED <<child, status>>

WaitReturns ==
  /\ pc = "waiting" /\ wait = "done"
  /\ pc' = "harvest"
  /\ UNCHANGED <<outcome, childVars, known, wait>>

(* The time-out: terminate, and a second wait of the grace period.         *)
TimesOut ==
  /\ pc = "waiting" /\ wait = "pending"
  /\ Terminate
  /\ pc' = "grace"
  /\ wait' = BegunWait
  /\ UNCHANGED <<outcome, stubborn, clogged, shared, known>>

GraceExpires ==
  /\ pc \in {"grace", "cgrace"} /\ wait = "pending"
  /\ Kill
  /\ pc' = IF pc = "grace" THEN "reaping" ELSE "creaping"
  /\ wait' = BegunWait
  /\ UNCHANGED <<outcome, stubborn, clogged, shared, known>>

Reaped == wait = "done"

TimeoutRaised ==
  /\ pc \in {"grace", "reaping"} /\ Reaped
  /\ Ends("timed_out")
  /\ UNCHANGED <<childVars, known>>

CancelRaised ==
  /\ pc \in {"cgrace", "creaping"} /\ Reaped
  /\ Ends("cancelled")
  /\ UNCHANGED <<childVars, known>>

(* The output is complete; the exit code decides.                          *)
Final == IF status = "zero" THEN "zero" ELSE "nonzero"

Harvested ==
  /\ pc = "harvest"
  /\ Ends(Final)
  /\ UNCHANGED <<childVars, known>>

(* Cancelled while it waits: terminate, and a grace period likewise. A     *)
(* wait_for whose inner wait has just ended returns instead.               *)
CancelledWaiting ==
  /\ pc = "waiting"
  /\ IF wait = "done"
     THEN UNCHANGED <<pc, outcome, child, status, wait>> \/
          (Ends("cancelled") /\ UNCHANGED <<child, status>>)
     ELSE /\ Terminate
          /\ pc' = "cgrace" /\ wait' = BegunWait
          /\ UNCHANGED outcome
  /\ UNCHANGED <<stubborn, clogged, shared, known>>

(* Cancelled in a grace period or while it reaps: nothing catches it, and  *)
(* no kill follows.                                                        *)
CancelledEnding ==
  /\ pc \in {"grace", "reaping", "cgrace", "creaping", "harvest"}
  /\ \/ Ends("cancelled")
     \/ pc = "grace" /\ wait = "done" /\ UNCHANGED <<pc, outcome, wait>>
  /\ UNCHANGED <<childVars, known>>

Cancelled == CancelledWaiting \/ CancelledEnding

(* After the kill nothing bounds the wait: it hangs on output nobody reads.*)
Hangs ==
  /\ pc \in {"reaping", "creaping"}
  /\ known /\ clogged /\ wait = "pending"

RunnerStep ==
  \/ WaitReturns \/ TimesOut \/ GraceExpires
  \/ TimeoutRaised \/ CancelRaised \/ Harvested

Environment ==
  \/ ChildExits \/ ChildClogs \/ ChildShares
  \/ ExitReported \/ TransportFinishes
=============================================================================
