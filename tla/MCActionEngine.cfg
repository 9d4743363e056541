SPECIFICATION FairSpec
CONSTANTS
  mpc = mpc
  other = other
  xdotool = xdotool
  AllowCommands = {mpc, xdotool}
  Commands <- MCCommands
  Desktop = xdotool
  Plans <- MCPlans
  MaxPlans = 2
  MaxCancels = 2
INVARIANTS StopsOnFailure LeavesOnlyStubborn
PROPERTIES SuccessIsReal PlanEnds
