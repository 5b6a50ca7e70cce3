------------------------------ MODULE SafetyGate ------------------------------
(***************************************************************************)
(* SafetyGate::admit and VelocityLimitPolicy::admit, the policy that comes *)
(* with the repository.  A policy is the limits it was made with, a gate   *)
(* the set of its policies.  Numbers compare as in Doubles.                *)
(*                                                                         *)
(* PolicyAdmitsSlack is a faulty variant of PolicyAdmits, with the margin  *)
(* of VelocityLimitPolicy::monitor; no action uses it.                     *)
(***************************************************************************)
EXTENDS RobotProfile

\* What the orchestrator asks for, in hundredths; a manipulation asks for no
\* velocity of the base.
Requested(kind) ==
  IF kind = "navigate" THEN [linear |-> 50, angular |-> 30] ELSE [linear |-> 0, angular |-> 0]

PolicyAdmitsSlack(limits, cmd) ==
  /\ ~Leq(limits.linear, 0) /\ ~Leq(limits.angular, 0)
  /\ limits.linear # NaN => 10 * Magnitude(cmd.linear) <= 11 * limits.linear
  /\ limits.angular # NaN => 10 * Magnitude(cmd.angular) <= 11 * limits.angular

PolicyAdmits(limits, cmd) ==
  /\ ~Leq(limits.linear, 0) /\ ~Leq(limits.angular, 0)
  /\ ~Less(limits.linear, Magnitude(cmd.linear))
  /\ ~Less(limits.angular, Magnitude(cmd.angular))

\* The gate denies by default; state is the RobotState the orchestrator has
\* captured before the first step.
GateAdmits(policies, cmd, state) ==
  /\ policies # {}
  /\ state.state_known
  /\ ~state.estop_active
  /\ \A limits \in policies : PolicyAdmits(limits, cmd)

===============================================================================
