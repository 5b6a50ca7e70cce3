---------------------------- MODULE CapabilityPort ----------------------------
(***************************************************************************)
(* What INavigationPort and IManipulationPort promise the orchestrator of  *)
(* one goal, whichever adapter is behind them.  A call starts a goal and   *)
(* then either cancels it or waits for it.  start() that succeeds has been *)
(* given the goal's id by the capability; start() that fails has started   *)
(* nothing; start() that times out may yet have started something.  wait() *)
(* tells the end of the goal, or times out and leaves it running.          *)
(***************************************************************************)

CONSTANT PortCall   \* the calls of the ports, one goal each

VARIABLES
  phase,    \* where the call is
  motion,   \* what the capability makes of its goal
  status    \* the Status it has returned

portVars == <<phase, motion, status>>

Ended == {"succeeded", "failed", "canceled"}

PortInit ==
  /\ phase = [c \in PortCall |-> "idle"]
  /\ motion = [c \in PortCall |-> "none"]
  /\ status = [c \in PortCall |-> "none"]

BeginStart(c) ==
  /\ phase[c] = "idle"
  /\ phase' = [phase EXCEPT ![c] = "starting"]
  /\ UNCHANGED <<motion, status>>

\* The capability takes the goal, after a time-out of start() perhaps.
TakeGoal(c) ==
  /\ motion[c] = "none"
  /\ phase[c] = "starting" \/ status[c] = "Timeout"
  /\ motion' = [motion EXCEPT ![c] = "running"]
  /\ UNCHANGED <<phase, status>>

StartSucceeds(c) ==
  /\ phase[c] = "starting" /\ motion[c] # "none"
  /\ phase' = [phase EXCEPT ![c] = "started"]
  /\ UNCHANGED <<motion, status>>

StartFails(c) ==
  /\ phase[c] = "starting"
  /\ phase' = [phase EXCEPT ![c] = "done"]
  /\ \/ status' = [status EXCEPT ![c] = "Timeout"]
     \/ motion[c] = "none" /\ status' = [status EXCEPT ![c] = "Failed"]
  /\ UNCHANGED motion

\* The caller cancels and does not wait for what becomes of the goal.
CancelGoal(c) ==
  /\ phase[c] = "started"
  /\ phase' = [phase EXCEPT ![c] = "done"]
  /\ status' = [status EXCEPT ![c] = "Canceled"]
  /\ UNCHANGED motion

BeginWait(c) ==
  /\ phase[c] = "started"
  /\ phase' = [phase EXCEPT ![c] = "waiting"]
  /\ UNCHANGED <<motion, status>>

GoalEnds(c) ==
  /\ motion[c] = "running"
  /\ \E end \in Ended : motion' = [motion EXCEPT ![c] = end]
  /\ UNCHANGED <<phase, status>>

\* Ok is the answer to a goal that has succeeded, and to no other.
WaitReturns(c) ==
  /\ phase[c] = "waiting"
  /\ phase' = [phase EXCEPT ![c] = "done"]
  /\ \/ status' = [status EXCEPT ![c] = "Timeout"]
     \/ motion[c] = "succeeded" /\ status' = [status EXCEPT ![c] = "Ok"]
     \/ motion[c] = "canceled"  /\ status' = [status EXCEPT ![c] = "Canceled"]
     \/ motion[c] = "failed"    /\ status' = [status EXCEPT ![c] = "Failed"]
  /\ UNCHANGED motion

PortNext ==
  \E c \in PortCall :
    \/ BeginStart(c) \/ TakeGoal(c) \/ StartSucceeds(c) \/ StartFails(c)
    \/ CancelGoal(c) \/ BeginWait(c) \/ GoalEnds(c) \/ WaitReturns(c)

PortSpec == PortInit /\ [][PortNext]_portVars

===============================================================================
