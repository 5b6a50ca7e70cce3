---------------------------- MODULE ExecuteContract ---------------------------
(***************************************************************************)
(* What TaskOrchestrator::execute promises its caller, and what it does    *)
(* not: the interface the node of /task/execute is built on.  A call works *)
(* for a while, publishing progress, and then returns once.  It answers    *)
(* Canceled only if the flag is up at the moment it polls it or if some    *)
(* other client canceled the backend's goal.  A call that was canceled or  *)
(* that gave up waiting may leave a goal behind, and with it a feedback    *)
(* callback that still refers to the frame of the call.                    *)
(***************************************************************************)

CONSTANT Task   \* the calls of execute()

VARIABLES
  phase,             \* "idle", "working" or "returned", for each call
  status,            \* the Status returned
  left_behind,       \* may a feedback still reach the frame that has gone?
  outside_cancel,    \* was the step canceled by another client?
  cancel_requested,  \* the caller's flag
  state              \* what the progress callback last published

execVars == <<phase, status, left_behind, outside_cancel>>
contractVars == <<execVars, cancel_requested, state>>

StepState     == {"NAVIGATING", "MANIPULATING"}
ProgressState == {"PLANNING", "DONE"} \cup StepState

ContractInit ==
  /\ phase = [t \in Task |-> "idle"]
  /\ status = [t \in Task |-> "none"]
  /\ left_behind = [t \in Task |-> FALSE]
  /\ outside_cancel = [t \in Task |-> FALSE]
  /\ cancel_requested = FALSE
  /\ state = "IDLE"

-------------------------------------------------------------------------------
Call(t) ==
  /\ phase[t] = "idle"
  /\ phase' = [phase EXCEPT ![t] = "working"]
  /\ UNCHANGED <<status, left_behind, outside_cancel, cancel_requested, state>>

\* The progress callback, from the calling thread or from a port's feedback.
Publish(t) ==
  /\ phase[t] = "working"
  /\ state' \in ProgressState \ {"DONE"}
  /\ UNCHANGED <<execVars, cancel_requested>>

Answer(t, s) ==
  /\ phase[t] = "working"
  /\ phase' = [phase EXCEPT ![t] = "returned"]
  /\ status' = [status EXCEPT ![t] = s]
  /\ UNCHANGED cancel_requested

ReturnOk(t) ==
  /\ Answer(t, "Ok")
  /\ state' = "DONE"
  /\ UNCHANGED <<left_behind, outside_cancel>>

\* A poll that finds the flag up, before a step or right after its start().
ReturnCanceled(t) ==
  /\ Answer(t, "Canceled")
  /\ cancel_requested
  /\ left_behind' \in { left_behind, [left_behind EXCEPT ![t] = TRUE] }
  /\ UNCHANGED <<outside_cancel, state>>

\* wait() reports a goal that another client of the server canceled.
ReturnOutsideCancel(t) ==
  /\ Answer(t, "Canceled")
  /\ outside_cancel' = [outside_cancel EXCEPT ![t] = TRUE]
  /\ UNCHANGED <<left_behind, state>>

\* Any other failure; a time-out leaves the goal behind.
ReturnFailed(t) ==
  /\ Answer(t, "Failed")
  /\ left_behind' \in { left_behind, [left_behind EXCEPT ![t] = TRUE] }
  /\ UNCHANGED <<outside_cancel, state>>

Returns(t) == \/ ReturnOk(t) \/ ReturnCanceled(t)
              \/ ReturnOutsideCancel(t) \/ ReturnFailed(t)

\* A goal left behind sends a feedback into the dead frame, or ends.
LateFeedback(t) ==
  /\ left_behind[t]
  /\ state' \in StepState
  /\ UNCHANGED <<execVars, cancel_requested>>

LeftGoalEnds(t) ==
  /\ left_behind[t]
  /\ left_behind' = [left_behind EXCEPT ![t] = FALSE]
  /\ UNCHANGED <<phase, status, outside_cancel, cancel_requested, state>>

\* The caller may move the flag at any moment, in both directions.
CallerSetsFlag ==
  /\ cancel_requested' \in BOOLEAN
  /\ UNCHANGED <<execVars, state>>

ContractNext ==
  \/ \E t \in Task : \/ Call(t) \/ Publish(t) \/ Returns(t)
                     \/ LateFeedback(t) \/ LeftGoalEnds(t)
  \/ CallerSetsFlag

\* A call that has begun returns.
ContractFairness == \A t \in Task : WF_contractVars(Returns(t))

ContractSpec == ContractInit /\ [][ContractNext]_contractVars /\ ContractFairness

===============================================================================
