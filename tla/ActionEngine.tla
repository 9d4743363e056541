----------------------------- MODULE ActionEngine -----------------------------
(***************************************************************************)
(* execution/engine.py with the desktop back end and the command runner:   *)
(* the steps of a plan are executed one after the other, the first that    *)
(* does not succeed makes the rest SKIPPED, and a cancellation abandons    *)
(* the plan. The executor of the daemon hands it one plan after the other. *)
(***************************************************************************)
EXTENDS CommandRunner, Sequences

CONSTANTS
  Plans,       (* what macros flatten to: sequences of steps               *)
  MaxPlans,    (* bound on the plans executed                              *)
  MaxCancels   (* bound on the cancellations                               *)

(* A step is a command, or one of these kinds. "control" is a layer or     *)
(* profile change, which may be refused.                                   *)
Kinds == {"hotkey", "instant", "delay", "control"}
Steps == [kind : Kinds] \cup [kind : {"command"}, command : Commands]

(* ExecutionStatus. A step that is executed ends in one of the first four. *)
Executed == {"SUCCESS", "FAILED", "TIMED_OUT", "BACKEND_UNAVAILABLE"}
Statuses == Executed \cup {"SKIPPED"}

ASSUME ActionEngineAssumption ==
  /\ \A p \in Plans : p \in Seq(Steps)
  /\ MaxPlans \in Nat /\ MaxCancels \in Nat

VARIABLES
  engine,    (* where execute() is                                         *)
  plan,      (* the plan, and                                              *)
  results,   (* the statuses of the steps so far                           *)
  cancels,   (* cancellations delivered (the model's)                      *)
  plans      (* plans begun (likewise)                                     *)

engineVars == <<engine, plan, results>>
ghostVars  == <<cancels, plans>>
vars       == <<runnerVars, engineVars, ghostVars>>

Init ==
  /\ RunnerInit
  /\ engine = "idle" /\ plan = <<>> /\ results = <<>>
  /\ cancels = 0 /\ plans = 0

TypeOK ==
  /\ RunnerTypeOK
  /\ engine \in {"idle", "next", "delaying", "running", "cancelled"}
  /\ plan \in Plans \cup {<<>>}
  /\ results \in Seq(Statuses) /\ Len(results) <= Len(plan)
  /\ cancels \in 0 .. MaxCancels /\ plans \in 0 .. MaxPlans
  /\ engine \in {"next", "delaying", "running"} => Len(results) < Len(plan)

(* Mutated forms.                                                          *)
RemainingSlip(s) == <<>>

-----------------------------------------------------------------------------
Step == plan[Len(results) + 1]

(* The steps after one that did not succeed.                               *)
Remaining(s) ==
  IF s = "SUCCESS" THEN <<>>
  ELSE [n \in 1 .. Len(plan) - Len(results) - 1 |-> "SKIPPED"]

StepOver(s) ==
  /\ results' = Append(results, s) \o Remaining(s)
  /\ engine' = IF Len(results') < Len(plan) THEN "next" ELSE "idle"
  /\ UNCHANGED plan

(* How a command ends, and the same for a key press, whose errors are all  *)
(* DesktopInputErrors.                                                     *)
StatusOf(how) ==
  CASE how = "zero"      -> "SUCCESS"
    [] how = "timed_out" -> "TIMED_OUT"
    [] OTHER             -> "FAILED"

DesktopStatusOf(how) == IF how = "zero" THEN "SUCCESS" ELSE "FAILED"

StatusHere(how) == IF Step.kind = "hotkey" THEN DesktopStatusOf(how) ELSE StatusOf(how)

-----------------------------------------------------------------------------
Execute(p) ==
  /\ engine = "idle" /\ plans < MaxPlans
  /\ plans' = plans + 1
  /\ plan' = p
  /\ results' = <<>>
  /\ engine' = IF p = <<>> THEN "idle" ELSE "next"
  /\ UNCHANGED <<runnerVars, cancels>>

InstantStep ==
  /\ engine = "next" /\ Step.kind = "instant"
  /\ StepOver("SUCCESS")
  /\ UNCHANGED <<runnerVars, ghostVars>>

ControlStep ==
  /\ engine = "next" /\ Step.kind = "control"
  /\ \E s \in {"SUCCESS", "FAILED"} : StepOver(s)
  /\ UNCHANGED <<runnerVars, ghostVars>>

DesktopUnavailable ==
  /\ engine = "next" /\ Step.kind = "hotkey"
  /\ StepOver("BACKEND_UNAVAILABLE")
  /\ UNCHANGED <<runnerVars, ghostVars>>

DelayBegins ==
  /\ engine = "next" /\ Step.kind = "delay"
  /\ engine' = "delaying"
  /\ UNCHANGED <<runnerVars, plan, results, ghostVars>>

DelayEnds ==
  /\ engine = "delaying"
  /\ StepOver("SUCCESS")
  /\ UNCHANGED <<runnerVars, ghostVars>>

(* A command, or xdotool for a key press.                                  *)
CommandStep ==
  /\ engine = "next" /\ Step.kind \in {"command", "hotkey"}
  /\ Run(IF Step.kind = "hotkey" THEN Desktop ELSE Step.command)
  /\ IF pc' = "idle" THEN StepOver(StatusHere(outcome'))
     ELSE engine' = "running" /\ UNCHANGED <<plan, results>>
  /\ UNCHANGED ghostVars

CommandGoesOn ==
  /\ engine = "running"
  /\ RunnerStep
  /\ IF pc' # "idle" THEN UNCHANGED engineVars
     ELSE IF outcome' = "cancelled" THEN engine' = "cancelled" /\ UNCHANGED <<plan, results>>
     ELSE StepOver(StatusHere(outcome'))
  /\ UNCHANGED ghostVars

(* A cancellation of the executor, at any of the engine's suspensions.     *)
CancelBetween ==
  /\ engine \in {"next", "delaying"} /\ cancels < MaxCancels
  /\ cancels' = cancels + 1
  /\ engine' = "cancelled"
  /\ UNCHANGED <<runnerVars, plan, results, plans>>

CancelCommand ==
  /\ engine = "running" /\ cancels < MaxCancels
  /\ cancels' = cancels + 1
  /\ Cancelled
  /\ engine' = IF pc' = "idle" THEN "cancelled" ELSE engine
  /\ UNCHANGED <<plan, results, plans>>

-----------------------------------------------------------------------------
EngineStep ==
  \/ InstantStep \/ ControlStep \/ DesktopUnavailable
  \/ DelayBegins \/ DelayEnds
  \/ CommandStep \/ CommandGoesOn

Cancel == CancelBetween \/ CancelCommand

World == Environment /\ UNCHANGED <<engineVars, ghostVars>>

Terminated ==
  /\ engine = "cancelled" \/ (engine = "idle" /\ plans = MaxPlans) \/ Hangs
  /\ UNCHANGED vars

Next ==
  \/ \E p \in Plans : Execute(p)
  \/ EngineStep \/ Cancel \/ World \/ Terminated

(* Time-outs fire, delays end, ready callbacks run and exits are reported. *)
(* Nothing is assumed of the child, nor of who holds its pipes.            *)
Fairness ==
  /\ WF_vars(EngineStep)
  /\ WF_vars(ExitReported /\ UNCHANGED <<engineVars, ghostVars>>)
  /\ WF_vars(TransportFinishes /\ UNCHANGED <<engineVars, ghostVars>>)

Spec     == Init /\ [][Next]_vars
FairSpec == Spec /\ Fairness

-----------------------------------------------------------------------------
(* The results of a plan are successes, then at most one other status, and *)
(* then only SKIPPED; a plan that is over has a result for every step.     *)
StopsOnFailure ==
  /\ \A j \in DOMAIN results :
       results[j] = "SKIPPED" <=> \E i \in 1 .. j - 1 : results[i] # "SUCCESS"
  /\ engine = "idle" => Len(results) = Len(plan)

(* A command or key press that is reported as SUCCESS has run to its end   *)
(* and exited with 0: not rejected, not killed, not cut short.             *)
SuccessIsReal ==
  [][ \A i \in DOMAIN results' \ DOMAIN results :
        (results'[i] = "SUCCESS" /\ plan[i].kind \in {"command", "hotkey"})
        => child' = "exited" /\ status' = "zero" ]_vars

(* Whatever a time-out, an exit and a cancellation do to each other, a     *)
(* child outlives run() only if it ignores SIGTERM and run() was cancelled.*)
LeavesOnlyStubborn ==
  (pc = "idle" /\ child = "running") => (stubborn /\ outcome = "cancelled")

(* A plan comes to its end, unless a command's output is not read to its   *)
(* end or another process holds it.                                        *)
PlanEnds ==
  (engine \in {"next", "delaying", "running"})
    ~> (engine \in {"idle", "cancelled"} \/ clogged \/ shared)
=============================================================================
