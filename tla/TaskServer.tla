------------------------------ MODULE TaskServer ------------------------------
(***************************************************************************)
(* TaskOrchestratorNode: the /task/execute action server, composed with    *)
(* the contract of TaskOrchestrator::execute, which module                 *)
(* TaskOrchestrator is shown to implement.                                 *)
(*                                                                         *)
(* handle_goal, handle_cancel, the ports' feedback and the timers run in   *)
(* the node's default, mutually exclusive, callback group: one callback at *)
(* a time.  Every accepted goal runs execute() in a detached thread that   *)
(* interleaves with the callbacks and with other task threads; the node    *)
(* has one cancel flag and one state for all of them.                      *)
(*                                                                         *)
(* goal_state is the state machine of rclcpp_action (external): a cancel   *)
(* callback runs before its goal becomes CANCELING, and canceled() on a    *)
(* goal that is not CANCELING throws, which ends the process because the   *)
(* task thread does not catch it.                                          *)
(*                                                                         *)
(* SetStateUnderCancel, AcceptingAfterError, FlagNotRaised, FlagKept,      *)
(* EndsCanceledByStatus, AbortForgotten and FinalStateError are faulty     *)
(* variants of the definitions that stand next to them; no action uses     *)
(* them.                                                                   *)
(***************************************************************************)
EXTENDS ExecuteContract

CONSTANT None   \* no goal

ASSUME NoneAssumption == None \notin Task

VARIABLES
  pc,            \* where the thread of each goal is
  goal_state,    \* rclcpp_action's state of each goal
  callback,      \* the cancel callback in progress, or NoCallback
  process,       \* "up", "terminated" by an exception, "crashed" by a torn read
  overlap,       \* history: two tasks have been live at once
  early_cancel,  \* history: goals whose cancel preceded their thread's reset
  stale_write    \* history: was a state written on behalf of a finished task?

nodeVars == <<goal_state, callback, process, overlap,
              early_cancel, stale_write>>
vars     == <<pc, nodeVars, contractVars>>

NoCallback == [goal |-> None, at |-> "none"]
CancelAt   == {"flag", "write", "transition"}

GoalState == {"unknown", "rejected", "EXECUTING", "CANCELING",
              "SUCCEEDED", "CANCELED", "ABORTED"}
Terminal  == {"SUCCEEDED", "CANCELED", "ABORTED"}

ClaimGap   == {"reset", "enter"}
Running    == {"execute", "deliver", "cancel_result", "err_state",
               "abort_result", "succeed_result", "idle"}
Idle       == {"unborn", "refused", "exited"}
ServerPC   == Idle \cup ClaimGap \cup Running
Live(t)    == pc[t] \in ClaimGap \cup Running

NodeState == ProgressState \cup {"IDLE", "CANCELING", "ERROR"}

-------------------------------------------------------------------------------
Up == process = "up"

\* set_state() while handle_cancel holds state_mutex_ from its start to its end.
SetStateUnderCancel(s) == callback = NoCallback /\ state' = s

\* set_state(): the four fields change together under state_mutex_; the goal,
\* step and progress that go with the state are not modelled.
set_state(s) == state' = s

Goto(t, l)    == pc' = [pc EXCEPT ![t] = l]
SetGoal(t, s) == goal_state' = [goal_state EXCEPT ![t] = s]

\* A thread that may be inside set_state().
Writing(t) == pc[t] \in {"enter", "execute", "err_state", "idle"}

-------------------------------------------------------------------------------
(* Node callbacks.                                                         *)

AcceptingAfterError == state \in {"IDLE", "ERROR"}
Accepting           == state = "IDLE"

\* handle_goal and handle_accepted.  The test of state_ under the mutex does
\* not claim it: the thread does, later.  An empty instruction is refused.
HandleGoal(t) ==
  /\ Up
  /\ callback = NoCallback
  /\ pc[t] = "unborn"
  /\ \/ /\ Accepting
        /\ Goto(t, "reset")
        /\ SetGoal(t, "EXECUTING")
        /\ overlap' = (overlap \/ \E h \in Task \ {t} : Live(h))
     \/ /\ Goto(t, "refused")
        /\ SetGoal(t, "rejected")
        /\ UNCHANGED overlap
  /\ UNCHANGED <<callback, process, early_cancel, stale_write,
                 contractVars>>

\* rclcpp_action has found the goal cancelable and will call handle_cancel.
CancelArrives(t) ==
  /\ Up
  /\ callback = NoCallback
  /\ goal_state[t] = "EXECUTING"
  /\ callback' = [goal |-> t, at |-> "flag"]
  /\ UNCHANGED <<pc, goal_state, process, overlap,
                 early_cancel, stale_write, contractVars>>

FlagNotRaised == UNCHANGED cancel_requested
RaiseFlag     == cancel_requested' = TRUE

\* cancel_requested_.store(true), unless the handle died with its thread.
CancelFlag(t) ==
  /\ Up
  /\ callback = [goal |-> t, at |-> "flag"]
  /\ \/ /\ RaiseFlag
        /\ callback' = [goal |-> t, at |-> "write"]
        /\ early_cancel' = IF pc[t] = "reset" THEN early_cancel \cup {t}
                                              ELSE early_cancel
     \/ /\ pc[t] = "exited"
        /\ callback' = NoCallback
        /\ UNCHANGED <<cancel_requested, early_cancel>>
  /\ UNCHANGED <<pc, goal_state, process, overlap,
                 stale_write, execVars, state>>

\* set_state("CANCELING", ...), whose arguments were read without the lock.
CancelWrite(t) ==
  /\ Up
  /\ callback = [goal |-> t, at |-> "write"]
  /\ set_state("CANCELING")
  /\ callback' = [goal |-> t, at |-> "transition"]
  /\ stale_write' = (stale_write \/ pc[t] = "exited")
  /\ UNCHANGED <<pc, goal_state, process, overlap, early_cancel, execVars,
                 cancel_requested>>

\* rclcpp_action moves the goal to CANCELING, or answers REJECT if it has ended.
CancelAccepted(t) == IF goal_state[t] = "EXECUTING" THEN SetGoal(t, "CANCELING")
                                                    ELSE UNCHANGED goal_state

CancelTransition(t) ==
  /\ Up
  /\ callback = [goal |-> t, at |-> "transition"]
  /\ CancelAccepted(t)
  /\ callback' = NoCallback
  /\ UNCHANGED <<pc, process, overlap, early_cancel,
                 stale_write, contractVars>>

\* A port's feedback enters the dead frame of execute(), in the callback group:
\* nothing comes of it, or the progress callback still runs, or it is fatal.
FeedbackAfterReturn(t) ==
  /\ Up
  /\ callback = NoCallback
  /\ left_behind[t]
  /\ \/ process' = "crashed" /\ UNCHANGED <<stale_write, state>>
     \/ /\ LateFeedback(t)
        /\ stale_write' = (stale_write \/ pc[t] = "exited")
        /\ UNCHANGED process
  /\ UNCHANGED <<pc, goal_state, callback, overlap, early_cancel,
                 execVars, cancel_requested>>

-------------------------------------------------------------------------------
(* The task thread around TaskOrchestrator::execute.                       *)

FlagKept  == UNCHANGED cancel_requested
LowerFlag == cancel_requested' = FALSE

\* cancel_requested_.store(false)
Reset(t) ==
  /\ Up
  /\ pc[t] = "reset"
  /\ LowerFlag
  /\ Goto(t, "enter")
  /\ UNCHANGED <<nodeVars, execVars, state>>

\* set_state("PLANNING", ...).  The parser accepts every instruction
\* handle_goal lets through, so the thread goes on into execute().
Enter(t) ==
  /\ Up
  /\ pc[t] = "enter"
  /\ set_state("PLANNING")
  /\ Goto(t, "execute")
  /\ phase' = [phase EXCEPT ![t] = "working"]
  /\ UNCHANGED <<goal_state, callback, process, overlap, early_cancel,
                 stale_write, status, left_behind, outside_cancel,
                 cancel_requested>>

\* The progress callback of a running execute().
Progress(t) ==
  /\ Up
  /\ pc[t] = "execute"
  /\ Publish(t)
  /\ UNCHANGED <<pc, goal_state, callback, process, overlap, early_cancel,
                 stale_write>>

ExecuteReturns(t) ==
  /\ Up
  /\ pc[t] = "execute"
  /\ Returns(t)
  /\ Goto(t, "deliver")
  /\ UNCHANGED <<goal_state, callback, process, overlap, early_cancel,
                 stale_write>>

EndsCanceledByStatus(t) == status[t] = "Canceled"
EndsCanceled(t) == status[t] = "Canceled" \/ goal_state[t] = "CANCELING"

\* The node decides how to end the goal: once, and not again before it acts.
Deliver(t) ==
  /\ Up
  /\ pc[t] = "deliver"
  /\ \/ /\ EndsCanceled(t)
        /\ Goto(t, "cancel_result")
     \/ /\ ~EndsCanceled(t) /\ status[t] = "Failed"
        /\ Goto(t, "err_state")
     \/ /\ ~EndsCanceled(t) /\ status[t] = "Ok"
        /\ Goto(t, "succeed_result")
  /\ UNCHANGED <<nodeVars, contractVars>>

\* goal_handle->canceled(): only a CANCELING goal may become CANCELED.
ResultCanceled(t) ==
  /\ Up
  /\ pc[t] = "cancel_result"
  /\ IF goal_state[t] = "CANCELING"
       THEN Goto(t, "idle") /\ SetGoal(t, "CANCELED") /\ UNCHANGED process
       ELSE process' = "terminated" /\ UNCHANGED <<pc, goal_state>>
  /\ UNCHANGED <<callback, overlap, early_cancel,
                 stale_write, contractVars>>

\* goal_handle->succeed(), legal from EXECUTING and CANCELING.
ResultSucceeded(t) ==
  /\ Up
  /\ pc[t] = "succeed_result"
  /\ Goto(t, "idle")
  /\ SetGoal(t, "SUCCEEDED")
  /\ UNCHANGED <<callback, process, overlap, early_cancel,
                 stale_write, contractVars>>

FailureState(t) == "ERROR"

\* finish_failed(): set_state("ERROR", ...) with arguments read without the lock,
\* then abort().
FailState(t) ==
  /\ Up
  /\ pc[t] = "err_state"
  /\ set_state(FailureState(t))
  /\ Goto(t, "abort_result")
  /\ UNCHANGED <<goal_state, callback, process, overlap, early_cancel,
                 stale_write, execVars, cancel_requested>>

AbortForgotten(t) == UNCHANGED goal_state
Abort(t)          == SetGoal(t, "ABORTED")

ResultAborted(t) ==
  /\ Up
  /\ pc[t] = "abort_result"
  /\ Goto(t, "idle")
  /\ Abort(t)
  /\ UNCHANGED <<callback, process, overlap, early_cancel,
                 stale_write, contractVars>>

FinalStateError(t) == IF goal_state[t] = "ABORTED" THEN "ERROR" ELSE "IDLE"
FinalState(t)      == "IDLE"

\* set_state("IDLE", ...), the last thing every task thread does.
BecomeIdle(t) ==
  /\ Up
  /\ pc[t] = "idle"
  /\ set_state(FinalState(t))
  /\ Goto(t, "exited")
  /\ UNCHANGED <<goal_state, callback, process, overlap, early_cancel,
                 stale_write, execVars, cancel_requested>>

TaskThread(t) ==
  \/ Reset(t) \/ Enter(t) \/ Progress(t) \/ ExecuteReturns(t) \/ Deliver(t)
  \/ ResultCanceled(t) \/ ResultSucceeded(t)
  \/ FailState(t) \/ ResultAborted(t)
  \/ BecomeIdle(t)

-------------------------------------------------------------------------------
\* handle_cancel and finish_failed copy active_goal_ without the lock: a copy
\* torn by another thread's set_state() may be fatal (a wrong text is not
\* modelled).
TornRead ==
  /\ Up
  /\ \/ callback.at = "write" /\ \E t \in Task : Writing(t)
     \/ \E t, h \in Task : t # h /\ pc[t] = "err_state" /\ Writing(h)
  /\ process' = "crashed"
  /\ UNCHANGED <<pc, goal_state, callback, overlap, early_cancel, stale_write,
                 contractVars>>

\* The process is gone, or every goal has been dealt with.
Terminated ==
  /\ \/ ~Up
     \/ \A t \in Task : pc[t] \in {"refused", "exited"}
  /\ UNCHANGED vars

CancelCallback(t) ==
  CancelFlag(t) \/ CancelWrite(t) \/ CancelTransition(t)

TaskCallback(t) ==
  HandleGoal(t) \/ CancelArrives(t) \/ FeedbackAfterReturn(t)

Backend(t) == Up /\ LeftGoalEnds(t) /\ UNCHANGED <<pc, nodeVars>>

Init ==
  /\ ContractInit
  /\ pc = [t \in Task |-> "unborn"]
  /\ goal_state = [t \in Task |-> "unknown"]
  /\ callback = NoCallback
  /\ process = "up"
  /\ overlap = FALSE
  /\ early_cancel = {}
  /\ stale_write = FALSE

Next ==
  \/ \E t \in Task :
       TaskThread(t) \/ CancelCallback(t) \/ TaskCallback(t) \/ Backend(t)
  \/ TornRead
  \/ Terminated

\* The operating system schedules every task thread, and execute() returns; no
\* callback has to arrive.
ThreadEnds(t) == TaskThread(t) /\ <<pc[t], process>>' # <<pc[t], process>>
ThreadRuns(t) == WF_vars(ThreadEnds(t))

Fairness == \A t \in Task : ThreadRuns(t)

Spec == Init /\ [][Next]_vars /\ Fairness

-------------------------------------------------------------------------------
(* Properties.                                                             *)

TypeOK ==
  /\ pc \in [Task -> ServerPC]
  /\ phase \in [Task -> {"idle", "working", "returned"}]
  /\ status \in [Task -> {"none", "Ok", "Canceled", "Failed"}]
  /\ left_behind \in [Task -> BOOLEAN]
  /\ outside_cancel \in [Task -> BOOLEAN]
  /\ cancel_requested \in BOOLEAN
  /\ state \in NodeState
  /\ goal_state \in [Task -> GoalState]
  /\ callback \in [goal : Task, at : CancelAt] \cup {NoCallback}
  /\ process \in {"up", "terminated", "crashed"}
  /\ overlap \in BOOLEAN
  /\ early_cancel \subseteq Task
  /\ stale_write \in BOOLEAN

\* As long as no two tasks have overlapped, the node's state is not IDLE while
\* a task is past its first set_state() and has not ended: the test in
\* handle_goal keeps a second task out for that time, in spite of cancel
\* callbacks, feedback and failures that write the state in between.
RunningNotIdle ==
  ~overlap => \A t \in Task : pc[t] \in Running => state # "IDLE"

\* When nothing runs any more the node is IDLE, and can accept goals, unless a
\* cancel callback or a feedback wrote the state for a task already gone.
IdleAtRest ==
  /\ process = "up" /\ callback = NoCallback
  /\ \A t \in Task : ~Live(t)
  => state = "IDLE" \/ stale_write

\* The state the node publishes and admits goals by is true to its tasks: the
\* types, not IDLE while a task runs, IDLE when none does.
StateHonest == TypeOK /\ RunningNotIdle /\ IdleAtRest

\* Two tasks come to overlap in one way only: a goal is accepted in the gap
\* between an earlier goal's acceptance and its thread's set_state("PLANNING").
OverlapOnlyFromClaimGap ==
  [][overlap' /\ ~overlap =>
       \E h \in Task : pc[h] \in ClaimGap /\ pc'[h] = pc[h]]_vars

\* A cancellation that reached the CANCELING state is never forgotten by its
\* running task, unless handle_cancel ran before the thread's own reset of the
\* flag, or a second task reset it.
CancelHeard ==
  \A t \in Task :
    /\ goal_state[t] = "CANCELING" /\ pc[t] \in Running
    /\ ~cancel_requested
    => t \in early_cancel \/ overlap

\* The process dies of canceled() on a goal that is not CANCELING only when the
\* cancel callback of that goal is still on its way, when another client of the
\* backend canceled the step, or when a second task's flag was taken for its own.
CrashCause ==
  process = "terminated" =>
    \E t \in Task :
      /\ pc[t] = "cancel_result" /\ goal_state[t] = "EXECUTING"
      /\ callback.goal = t \/ outside_cancel[t] \/ overlap

\* A cancellation that has become CANCELING before the node decides how to end
\* the goal is honored, whatever execute() answers and whatever happens to the
\* shared flag: the goal is then reported neither SUCCEEDED nor ABORTED.
CancelHonored ==
  \A t \in Task :
    [](/\ goal_state[t] = "CANCELING"
       /\ pc[t] \in ClaimGap \cup {"execute", "deliver"}
       => [](goal_state[t] \notin {"SUCCEEDED", "ABORTED"}))

\* Every accepted goal gets its result, if the process lives: no cancellation,
\* failure or silent server leaves a client waiting.
AcceptedGoalEnds ==
  \A t \in Task :
    goal_state[t] = "EXECUTING" ~> goal_state[t] \in Terminal \/ process # "up"

\* No lock, flag or callback holds a task's thread for good: as long as the
\* process lives, a thread that has not exited can take its next step, or the
\* execute() it waits for can return.
NeverStuck ==
  \A t \in Task : Up /\ Live(t) => ENABLED <<ThreadEnds(t)>>_vars

-------------------------------------------------------------------------------
\* The README lists cancellation as a feature of /task/execute: a client that
\* cancels a goal gets it canceled, and the node goes on serving.  (Goals that
\* another client of the backend canceled are left aside.)
CancelKeepsServing ==
  process = "terminated" => \E t \in Task : outside_cancel[t]

===============================================================================
