-------------------------- MODULE ActionEngineProofs --------------------------
(* What ActionEngine guarantees of the processes it starts, for every      *)
(* policy, every set of plans and any number of plans and cancellations.   *)
EXTENDS ActionEngine, SequenceTheorems, TLAPS

(* LeavesOnlyStubborn alone is not inductive. It needs what each position  *)
(* of run() knows of the child, and that nothing follows a child left      *)
(* alive: its executor has been cancelled.                                 *)
ChildKnown ==
  /\ (known \/ wait = "done") => child = "exited"
  /\ (pc \in {"grace", "cgrace"} /\ child = "running") => stubborn
  /\ pc \in {"reaping", "creaping", "harvest"} => child = "exited"
  /\ pc # "idle" => child \in {"running", "exited"}

LeftIsLast ==
  (pc = "idle" /\ child = "running")
    => (stubborn /\ outcome = "cancelled" /\ engine = "cancelled")

IInv == ChildKnown /\ LeftIsLast

-----------------------------------------------------------------------------
(* The inductive invariant holds at first and is kept by the environment,  *)
(* the command runner, a cancellation and every step of the engine.        *)
LEMMA InitHolds == Init => IInv
BY DEF Init, RunnerInit, IInv, ChildKnown, LeftIsLast

LEMMA WorldKeeps == IInv /\ World => IInv'
<1> SUFFICES ASSUME IInv, Environment, UNCHANGED engine PROVE IInv'
  BY DEF World, engineVars
<1>1. CASE ChildExits
  BY <1>1 DEF ChildExits, IInv, ChildKnown, LeftIsLast
<1>2. CASE ChildClogs
  BY <1>2 DEF ChildClogs, IInv, ChildKnown, LeftIsLast
<1>3. CASE ChildShares
  BY <1>3 DEF ChildShares, IInv, ChildKnown, LeftIsLast
<1>4. CASE ExitReported
  BY <1>4 DEF ExitReported, childVars, IInv, ChildKnown, LeftIsLast
<1>5. CASE TransportFinishes
  BY <1>5 DEF TransportFinishes, childVars, IInv, ChildKnown, LeftIsLast
<1> QED BY <1>1, <1>2, <1>3, <1>4, <1>5 DEF Environment

LEMMA RunnerKeeps == IInv /\ CommandGoesOn => IInv'
<1> SUFFICES ASSUME IInv, CommandGoesOn PROVE IInv'
  OBVIOUS
<1> USE DEF IInv, ChildKnown, LeftIsLast
<1>1. CASE WaitReturns
  BY <1>1 DEF WaitReturns, childVars
<1>2. CASE TimesOut
  BY <1>2 DEF TimesOut, Terminate, BegunWait
<1>3. CASE GraceExpires
  BY <1>3 DEF GraceExpires, Kill, BegunWait
<1>4. CASE TimeoutRaised
  BY <1>4 DEF TimeoutRaised, Reaped, Ends, childVars
<1>5. CASE CancelRaised
  BY <1>5 DEF CancelRaised, Reaped, Ends, childVars
<1>6. CASE Harvested
  BY <1>6 DEF Harvested, Ends, childVars
<1> QED BY <1>1, <1>2, <1>3, <1>4, <1>5, <1>6 DEF CommandGoesOn, RunnerStep

LEMMA CancelKeeps == IInv /\ Cancel => IInv'
<1> SUFFICES ASSUME IInv, Cancel PROVE IInv'
  OBVIOUS
<1> USE DEF IInv, ChildKnown, LeftIsLast
<1>1. CASE CancelBetween
  BY <1>1 DEF CancelBetween, runnerVars, childVars
<1>2. CASE CancelCommand /\ CancelledWaiting
  BY <1>2 DEF CancelCommand, CancelledWaiting, Ends, Terminate, BegunWait
<1>3. CASE CancelCommand /\ CancelledEnding
  BY <1>3 DEF CancelCommand, CancelledEnding, Ends, childVars
<1> QED BY <1>1, <1>2, <1>3 DEF Cancel, CancelCommand, Cancelled

(* A command is started only where no child is left.                       *)
LEMMA StartKeeps == IInv /\ CommandStep => IInv'
<1> SUFFICES ASSUME IInv, CommandStep PROVE IInv'
  OBVIOUS
<1> USE DEF IInv, ChildKnown, LeftIsLast
<1>1. PICK c : Rejected(c) \/ NotStarted(c) \/ Started(c)
  BY DEF CommandStep, Run
<1>2. pc = "idle" /\ child # "running"
  BY DEF CommandStep, Run
<1>3. CASE Rejected(c) \/ NotStarted(c)
  BY <1>2, <1>3 DEF Rejected, NotStarted, Ends, childVars
<1>4. CASE Started(c)
  BY <1>4 DEF Started
<1> QED BY <1>1, <1>3, <1>4

LEMMA OtherStepsKeep ==
  ASSUME IInv,
         (\E p \in Plans : Execute(p)) \/ InstantStep \/ ControlStep
           \/ DesktopUnavailable \/ DelayBegins \/ DelayEnds \/ UNCHANGED vars
  PROVE  IInv'
<1>1. UNCHANGED runnerVars /\ (engine = "cancelled" => engine' = "cancelled")
  BY DEF Execute, InstantStep, ControlStep, DesktopUnavailable, DelayBegins,
         DelayEnds, vars, engineVars
<1> QED BY <1>1 DEF runnerVars, childVars, IInv, ChildKnown, LeftIsLast

LEMMA NextKeeps == IInv /\ [Next]_vars => IInv'
BY WorldKeeps, RunnerKeeps, CancelKeeps, StartKeeps, OtherStepsKeep
   DEF Next, EngineStep, Terminated

-----------------------------------------------------------------------------
(* Every position of run() knows what has become of its child.             *)
THEOREM InvHolds == Spec => []IInv
BY InitHolds, NextKeeps, PTL DEF Spec

(* However an exit, a time-out and cancellations interleave, the only      *)
(* child that outlives run() is one that ignores SIGTERM and whose caller  *)
(* was cancelled (execution/command.py, run()).                            *)
THEOREM AlwaysLeavesOnlyStubborn == Spec => []LeavesOnlyStubborn
<1>1. IInv => LeavesOnlyStubborn
  BY DEF IInv, LeftIsLast, LeavesOnlyStubborn
<1> QED BY <1>1, InvHolds, PTL

-----------------------------------------------------------------------------
(* The results of a plan. While a plan goes on, every step so far has      *)
(* succeeded and one is left.                                              *)
Going == engine \in {"next", "delaying", "running"}

ResultsOK ==
  /\ plan \in Seq(Steps) /\ results \in Seq(Statuses)
  /\ Len(results) <= Len(plan)
  /\ Going => /\ Len(results) < Len(plan)
              /\ \A i \in DOMAIN results : results[i] = "SUCCESS"

RInv == ResultsOK /\ StopsOnFailure

(* What StepOver makes of the results: the next one, and the rest SKIPPED. *)
LEMMA StepOverResults ==
  ASSUME RInv, Going, NEW s \in Executed, StepOver(s)
  PROVE  /\ results' \in Seq(Statuses)
         /\ Len(results') = IF s = "SUCCESS" THEN Len(results) + 1 ELSE Len(plan)
         /\ \A i \in 1 .. Len(results) : results'[i] = "SUCCESS"
         /\ results'[Len(results) + 1] = s
         /\ \A i \in Len(results) + 2 .. Len(results') : results'[i] = "SKIPPED"
<1> DEFINE head == Append(results, s)
           rest == Remaining(s)
<1>1. /\ head \in Seq(Statuses) /\ Len(head) = Len(results) + 1
      /\ \A i \in 1 .. Len(results) : head[i] = "SUCCESS"
      /\ head[Len(results) + 1] = s
  BY DEF RInv, ResultsOK, Statuses
<1>2. /\ rest \in Seq(Statuses)
      /\ Len(rest) = IF s = "SUCCESS" THEN 0 ELSE Len(plan) - Len(results) - 1
      /\ \A i \in 1 .. Len(rest) : rest[i] = "SKIPPED"
  <2>1. CASE s = "SUCCESS"
    BY <2>1 DEF Remaining
  <2>2. CASE s # "SUCCESS"
    <3>1. Len(plan) - Len(results) - 1 \in Nat
      BY DEF RInv, ResultsOK
    <3> QED BY <2>2, <3>1 DEF Remaining, Statuses
  <2> QED BY <2>1, <2>2
<1>3. results' = head \o rest
  BY DEF StepOver
<1> HIDE DEF head, rest
<1>4. /\ results' \in Seq(Statuses) /\ Len(results') = Len(head) + Len(rest)
      /\ \A i \in 1 .. Len(results') :
           results'[i] = IF i <= Len(head) THEN head[i] ELSE rest[i - Len(head)]
  <2>1. head \in Seq(Statuses) /\ rest \in Seq(Statuses)
    BY <1>1, <1>2
  <2> QED BY <1>3, <2>1, ConcatProperties
<1>5. Len(results) \in Nat /\ Len(plan) \in Nat /\ Len(rest) \in Nat
  BY <1>2 DEF RInv, ResultsOK
<1>6. \A i \in Len(results) + 2 .. Len(results') : results'[i] = "SKIPPED"
  <2> TAKE i \in Len(results) + 2 .. Len(results')
  <2>1. i \in 1 .. Len(results') /\ ~(i <= Len(head)) /\ i - Len(head) \in 1 .. Len(rest)
    BY <1>1, <1>4, <1>5
  <2> QED BY <1>2, <1>4, <2>1
<1>7. Len(results') = IF s = "SUCCESS" THEN Len(results) + 1 ELSE Len(plan)
  <2>1. /\ Len(results') = Len(head) + Len(rest) /\ Len(head) = Len(results) + 1
        /\ Len(rest) = IF s = "SUCCESS" THEN 0 ELSE Len(plan) - Len(results) - 1
    BY <1>1, <1>2, <1>4
  <2>2. CASE s = "SUCCESS"
    BY <1>5, <2>1, <2>2
  <2>3. CASE s # "SUCCESS"
    BY <1>5, <2>1, <2>3
  <2> QED BY <2>2, <2>3
<1>8. \A i \in 1 .. Len(results) : results'[i] = "SUCCESS"
  BY <1>1, <1>4, <1>5
<1>9. results'[Len(results) + 1] = s
  BY <1>1, <1>4, <1>5
<1> QED BY <1>4, <1>6, <1>7, <1>8, <1>9

LEMMA StepOverKeeps ==
  ASSUME RInv, Going, NEW s \in Executed, StepOver(s)
  PROVE  RInv'
<1> DEFINE n == Len(results)
           m == Len(results')
<1>1. /\ plan' = plan /\ plan \in Seq(Steps) /\ n \in Nat /\ Len(plan) \in Nat
      /\ n < Len(plan)
  BY DEF StepOver, RInv, ResultsOK
<1>2. engine' = IF m < Len(plan) THEN "next" ELSE "idle"
  BY DEF StepOver
<1>3. /\ results' \in Seq(Statuses)
      /\ m = IF s = "SUCCESS" THEN n + 1 ELSE Len(plan)
      /\ \A i \in 1 .. n : results'[i] = "SUCCESS"
      /\ results'[n + 1] = s
      /\ \A i \in n + 2 .. m : results'[i] = "SKIPPED"
  BY StepOverResults
<1>4. s # "SKIPPED" /\ DOMAIN results' = 1 .. m
  BY <1>3 DEF Executed
<1> HIDE DEF n, m
<1>5. CASE s = "SUCCESS"
  <2>1. \A i \in 1 .. m : results'[i] = "SUCCESS"
    BY <1>1, <1>3, <1>5
  <2>2. m <= Len(plan) /\ (m < Len(plan) \/ m = Len(plan))
    BY <1>1, <1>3, <1>5
  <2>3. \A j \in 1 .. m : results'[j] # "SKIPPED" /\ ~\E i \in 1 .. j - 1 : results'[i] # "SUCCESS"
    BY <1>1, <1>3, <1>5, <2>1
  <2>4. StopsOnFailure'
    BY <1>1, <1>2, <1>4, <2>2, <2>3 DEF StopsOnFailure, n, m
  <2> QED BY <1>1, <1>2, <1>3, <1>4, <2>1, <2>2, <2>4 DEF RInv, ResultsOK, Going, m
<1>6. CASE s # "SUCCESS"
  <2>1. m = Len(plan)
    BY <1>3, <1>6
  <2>2. ASSUME NEW j \in 1 .. m
        PROVE  results'[j] = "SKIPPED" <=> \E i \in 1 .. j - 1 : results'[i] # "SUCCESS"
    <3>1. CASE j <= n + 1
      <4>1. \A i \in 1 .. j - 1 : results'[i] = "SUCCESS"
        BY <1>1, <1>3, <2>1, <3>1
      <4>2. j \in 1 .. n \/ j = n + 1
        BY <1>1, <2>1, <3>1
      <4>3. results'[j] # "SKIPPED"
        BY <1>3, <1>4, <4>2
      <4> QED BY <4>1, <4>3
    <3>2. CASE j > n + 1
      <4>1. j \in n + 2 .. m /\ n + 1 \in 1 .. j - 1
        BY <1>1, <2>1, <3>2
      <4>2. results'[j] = "SKIPPED" /\ results'[n + 1] # "SUCCESS"
        BY <1>3, <1>6, <4>1
      <4> QED BY <4>1, <4>2
    <3> QED BY <1>1, <2>1, <3>1, <3>2
  <2>3. StopsOnFailure'
    BY <1>1, <1>4, <2>1, <2>2 DEF StopsOnFailure, m
  <2> QED BY <1>1, <1>2, <1>3, <2>1, <2>3 DEF RInv, ResultsOK, Going, m
<1> QED BY <1>5, <1>6

LEMMA StatusHereExecuted == \A how : StatusHere(how) \in Executed
BY DEF StatusHere, DesktopStatusOf, StatusOf, Executed

(* Every step of the engine ends a step, begins a plan, or leaves the      *)
(* results alone.                                                          *)
LEMMA ResultsStep ==
  ASSUME RInv, [Next]_vars
  PROVE  \/ Going /\ \E s \in Executed : StepOver(s)
         \/ \E p \in Plans : Execute(p)
         \/ UNCHANGED <<plan, results>> /\ (engine' = "idle" => engine = "idle") /\ (Going' => Going)
<1> USE DEF Going
<1>1. CASE InstantStep \/ ControlStep \/ DesktopUnavailable \/ DelayEnds
  BY <1>1 DEF InstantStep, ControlStep, DesktopUnavailable, DelayEnds, Executed
<1>2. CASE DelayBegins \/ Cancel \/ World \/ UNCHANGED vars
  BY <1>2 DEF DelayBegins, Cancel, CancelBetween, CancelCommand, World, engineVars, vars
<1>3. CASE CommandStep
  BY <1>3, StatusHereExecuted DEF CommandStep
<1>4. CASE CommandGoesOn
  BY <1>4, StatusHereExecuted DEF CommandGoesOn, engineVars
<1> QED BY <1>1, <1>2, <1>3, <1>4 DEF Next, EngineStep, Terminated

LEMMA ResultsKept == RInv /\ [Next]_vars => RInv'
<1> SUFFICES ASSUME RInv, [Next]_vars PROVE RInv'
  OBVIOUS
<1>1. CASE Going /\ \E s \in Executed : StepOver(s)
  BY <1>1, StepOverKeeps
<1>2. ASSUME NEW p \in Plans, Execute(p) PROVE RInv'
  <2>1. p \in Seq(Steps)
    BY ActionEngineAssumption
  <2>2. plan' = p /\ results' = <<>> /\ engine' = IF p = <<>> THEN "idle" ELSE "next"
    BY <1>2 DEF Execute
  <2>3. p # <<>> => Len(p) > 0
    BY <2>1
  <2> QED BY <2>1, <2>2, <2>3 DEF RInv, ResultsOK, StopsOnFailure, Going, Statuses
<1>3. CASE UNCHANGED <<plan, results>> /\ (engine' = "idle" => engine = "idle") /\ (Going' => Going)
  BY <1>3 DEF RInv, ResultsOK, StopsOnFailure
<1> QED BY <1>1, <1>2, <1>3, ResultsStep

(* For every plan, a step that does not succeed is the last one executed,  *)
(* and a plan that is over has a result for every step                     *)
(* (execution/engine.py, execute()).                                       *)
THEOREM AlwaysStopsOnFailure == Spec => []StopsOnFailure
<1>1. Init => RInv
  BY DEF Init, RInv, ResultsOK, StopsOnFailure, Going
<1>2. RInv => StopsOnFailure
  BY DEF RInv
<1> QED BY <1>1, <1>2, ResultsKept, PTL DEF Spec

-----------------------------------------------------------------------------
(* What is reported as a success.                                          *)
DelayIsDelay == engine = "delaying" => Step.kind = "delay"

LEMMA DelayKept == DelayIsDelay /\ [Next]_vars => DelayIsDelay'
<1> SUFFICES ASSUME DelayIsDelay, [Next]_vars, engine' = "delaying" PROVE Step'.kind = "delay"
  BY DEF DelayIsDelay
<1>1. /\ UNCHANGED <<plan, results>>
      /\ engine = "delaying" \/ (engine = "next" /\ Step.kind = "delay")
  BY DEF Next, EngineStep, Terminated, Execute, InstantStep, ControlStep,
         DesktopUnavailable, DelayBegins, DelayEnds, CommandStep, CommandGoesOn, StepOver,
         Cancel, CancelBetween, CancelCommand, World, engineVars, vars
<1> QED BY <1>1 DEF DelayIsDelay, Step

(* Of the results that a step adds, only the first can be a success.       *)
LEMMA OnlySuccess ==
  ASSUME RInv, Going, NEW s \in Executed, StepOver(s),
         NEW i \in DOMAIN results' \ DOMAIN results, results'[i] = "SUCCESS"
  PROVE  s = "SUCCESS" /\ plan[i] = Step
<1> DEFINE n == Len(results)
<1>1. /\ results' \in Seq(Statuses) /\ results \in Seq(Statuses) /\ n \in Nat
      /\ results'[n + 1] = s
      /\ \A j \in n + 2 .. Len(results') : results'[j] = "SKIPPED"
  BY StepOverResults DEF RInv, ResultsOK
<1>2. i \in 1 .. Len(results') /\ i \notin 1 .. n
  BY <1>1
<1> HIDE DEF n
<1>3. i = n + 1
  <2>1. i \notin n + 2 .. Len(results')
    BY <1>1
  <2>2. Len(results') \in Nat
    BY <1>1
  <2> QED BY <1>1, <1>2, <2>1, <2>2
<1> QED BY <1>1, <1>3 DEF Step, n

LEMMA SuccessStep ==
  ASSUME IInv, RInv, DelayIsDelay, [Next]_vars, NEW i \in DOMAIN results' \ DOMAIN results,
         results'[i] = "SUCCESS", plan[i].kind \in {"command", "hotkey"}
  PROVE  child' = "exited" /\ status' = "zero"
<1>1. ASSUME NEW s \in Executed, StepOver(s), Going
      PROVE  s = "SUCCESS" /\ Step.kind \in {"command", "hotkey"}
  <2>1. s = "SUCCESS" /\ plan[i] = Step
    BY <1>1, OnlySuccess
  <2> QED BY <2>1
<1>2. \A how : StatusHere(how) = "SUCCESS" => how = "zero"
  BY DEF StatusHere, DesktopStatusOf, StatusOf
<1>3. CASE InstantStep \/ ControlStep \/ DelayEnds \/ DesktopUnavailable
  <2>1. Step.kind \notin {"command", "hotkey"} \/ StepOver("BACKEND_UNAVAILABLE")
    BY <1>3 DEF InstantStep, ControlStep, DelayEnds, DesktopUnavailable, DelayIsDelay
  <2>2. Going /\ \E s \in Executed : StepOver(s)
    BY <1>3 DEF InstantStep, ControlStep, DelayEnds, DesktopUnavailable, Executed, Going
  <2> QED BY <1>1, <2>1, <2>2 DEF Executed
<1>4. CASE CommandStep
  <2>1. PICK c : Rejected(c) \/ NotStarted(c) \/ Started(c)
    BY <1>4 DEF CommandStep, Run
  <2>2. pc' = "idle"
    BY <1>4 DEF CommandStep
  <2>3. outcome' # "zero" /\ StepOver(StatusHere(outcome')) /\ Going
    BY <1>4, <2>1, <2>2 DEF CommandStep, Rejected, NotStarted, Started, Ends, Going
  <2> QED BY <1>1, <1>2, <2>3, StatusHereExecuted
<1>5. CASE CommandGoesOn
  <2>1. StepOver(StatusHere(outcome')) /\ pc' = "idle" /\ Going
    BY <1>5 DEF CommandGoesOn, engineVars, Going
  <2>2. outcome' = "zero"
    BY <1>1, <1>2, <2>1, StatusHereExecuted
  <2>3. Harvested
    BY <1>5, <2>1, <2>2 DEF CommandGoesOn, RunnerStep, WaitReturns, TimesOut, GraceExpires,
       TimeoutRaised, CancelRaised, Ends
  <2> QED BY <2>2, <2>3 DEF Harvested, Ends, Final, childVars, IInv, ChildKnown
<1>6. ASSUME NEW p \in Plans, Execute(p) PROVE FALSE
  BY <1>6 DEF Execute
<1>7. ASSUME DelayBegins \/ Cancel \/ World \/ UNCHANGED vars PROVE FALSE
  BY <1>7 DEF DelayBegins, Cancel, CancelBetween, CancelCommand, World, engineVars, vars
<1> QED BY <1>3, <1>4, <1>5, <1>6, <1>7 DEF Next, EngineStep, Terminated

(* For every policy and every plan, a command or a key press is reported   *)
(* as SUCCESS only when its process has exited by itself, with 0           *)
(* (CommandRunner.run, ExecutionEngine.execute).                           *)
THEOREM SuccessIsAlwaysReal == Spec => SuccessIsReal
<1>1. Init => IInv /\ RInv /\ DelayIsDelay
  BY InitHolds DEF Init, RInv, ResultsOK, StopsOnFailure, Going, DelayIsDelay
<1>2. IInv /\ RInv /\ DelayIsDelay /\ [Next]_vars => (IInv /\ RInv /\ DelayIsDelay)'
  BY NextKeeps, ResultsKept, DelayKept
<1>3. IInv /\ RInv /\ DelayIsDelay /\ [Next]_vars =>
        [ \A i \in DOMAIN results' \ DOMAIN results :
            (results'[i] = "SUCCESS" /\ plan[i].kind \in {"command", "hotkey"})
            => child' = "exited" /\ status' = "zero" ]_vars
  BY SuccessStep
<1> QED BY <1>1, <1>2, <1>3, PTL DEF Spec, SuccessIsReal

-----------------------------------------------------------------------------
(* Types. Those of the results are part of RInv.                           *)
LEMMA RunnerTypeKept == RunnerTypeOK /\ (Environment \/ RunnerStep \/ Cancelled \/ \E c : Run(c))
                          => RunnerTypeOK'
<1> SUFFICES ASSUME RunnerTypeOK,
                    Environment \/ RunnerStep \/ Cancelled \/ \E c : Run(c)
             PROVE  RunnerTypeOK'
  OBVIOUS
<1> USE DEF RunnerTypeOK, childVars
<1>1. CASE Environment
  BY <1>1 DEF Environment, ChildExits, ChildClogs, ChildShares, ExitReported,
              TransportFinishes
<1>2. CASE RunnerStep
  <2>1. CASE TimesOut \/ GraceExpires
    BY <2>1 DEF TimesOut, GraceExpires, Terminate, Kill, BegunWait
  <2>2. CASE WaitReturns \/ TimeoutRaised \/ CancelRaised \/ Harvested
    BY <2>2 DEF WaitReturns, TimeoutRaised, CancelRaised, Harvested, Ends, Final
  <2> QED BY <1>2, <2>1, <2>2 DEF RunnerStep
<1>3. CASE Cancelled
  BY <1>3 DEF Cancelled, CancelledWaiting, CancelledEnding, Ends, Terminate, BegunWait
<1>4. CASE \E c : Run(c)
  BY <1>4 DEF Run, Rejected, NotStarted, Started, Ends
<1> QED BY <1>1, <1>2, <1>3, <1>4

LEMMA CountsKept ==
  ASSUME cancels \in 0 .. MaxCancels, plans \in 0 .. MaxPlans, [Next]_vars
  PROVE  cancels' \in 0 .. MaxCancels /\ plans' \in 0 .. MaxPlans
<1>1. \/ UNCHANGED <<cancels, plans>>
      \/ plans < MaxPlans /\ plans' = plans + 1 /\ UNCHANGED cancels
      \/ cancels < MaxCancels /\ cancels' = cancels + 1 /\ UNCHANGED plans
  BY DEF Next, EngineStep, Terminated, Execute, InstantStep, ControlStep,
         DesktopUnavailable, DelayBegins, DelayEnds, CommandStep, CommandGoesOn,
         Cancel, CancelBetween, CancelCommand, World, ghostVars, vars
<1> QED BY <1>1, ActionEngineAssumption

(* The engine and the runner it calls keep their shapes for every policy   *)
(* and set of plans; in particular a plan never has more results than      *)
(* steps, and goes on only while a step is left (execution/engine.py).     *)
THEOREM TypeCorrect == Spec => []TypeOK
<1> DEFINE EngineOK == engine \in {"idle", "next", "delaying", "running", "cancelled"}
           Inv == TypeOK /\ RInv
<1>1. Init => Inv
  <2> SUFFICES ASSUME Init PROVE TypeOK /\ RInv
    OBVIOUS
  <2>1. RunnerTypeOK
    BY DEF Init, RunnerInit, RunnerTypeOK
  <2>2. RInv
    BY DEF Init, RInv, ResultsOK, StopsOnFailure, Going
  <2>3. engine = "idle" /\ plan = <<>> /\ cancels \in 0 .. MaxCancels /\ plans \in 0 .. MaxPlans
    BY ActionEngineAssumption DEF Init
  <2> QED BY <2>1, <2>2, <2>3 DEF TypeOK, RInv, ResultsOK
<1>2. Inv /\ [Next]_vars => Inv'
  <2> SUFFICES ASSUME TypeOK, RInv, [Next]_vars PROVE TypeOK' /\ RInv'
    OBVIOUS
  <2>1. RInv'
    BY ResultsKept
  <2>2. RunnerTypeOK'
    <3>1. \/ UNCHANGED runnerVars
          \/ Environment \/ RunnerStep \/ Cancelled \/ \E c : Run(c)
      BY DEF Next, EngineStep, Terminated, Execute, InstantStep, ControlStep,
             DesktopUnavailable, DelayBegins, DelayEnds, CommandStep, CommandGoesOn,
             Cancel, CancelBetween, CancelCommand, World, vars
    <3>2. CASE UNCHANGED runnerVars
      BY <3>2 DEF TypeOK, RunnerTypeOK, runnerVars, childVars
    <3> QED BY <3>1, <3>2, RunnerTypeKept DEF TypeOK
  <2>3. EngineOK'
    BY DEF TypeOK, Next, EngineStep, Terminated, Execute, InstantStep, ControlStep,
           DesktopUnavailable, DelayBegins, DelayEnds, CommandStep, CommandGoesOn, StepOver,
           Cancel, CancelBetween, CancelCommand, World, engineVars, vars
  <2>4. plan' \in Plans \cup {<<>>}
    BY ResultsStep DEF TypeOK, Execute, StepOver
  <2>5. cancels' \in 0 .. MaxCancels /\ plans' \in 0 .. MaxPlans
    BY CountsKept DEF TypeOK
  <2> QED BY <2>1, <2>2, <2>3, <2>4, <2>5 DEF TypeOK, RInv, ResultsOK, Going
<1>3. Inv => TypeOK
  OBVIOUS
<1> QED BY <1>1, <1>2, <1>3, PTL DEF Spec
=============================================================================
