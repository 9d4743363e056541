---------------------------- MODULE MCActionEngine ----------------------------
(* An instance of ActionEngine: one command the policy allows and one it   *)
(* does not, and plans in which each kind of step is first, last or both.  *)
EXTENDS ActionEngine

CONSTANTS mpc, other, xdotool

command(c) == [kind |-> "command", command |-> c]
step(k)    == [kind |-> k]

MCCommands == {mpc, other}
MCPlans ==
  { <<command(mpc), step("delay"), command(mpc)>>,
    <<step("hotkey"), command(mpc), step("instant")>>,
    <<step("control"), command(other), step("hotkey")>>,
    <<step("instant")>> }
=============================================================================
