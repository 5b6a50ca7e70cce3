--------------------------- MODULE TaskServer_proofs ---------------------------
(***************************************************************************)
(* Proofs about module TaskServer, for any number of goals.                *)
(*                                                                         *)
(* The parts of the inductive invariant Inv are the types; what a thread's *)
(* place says of its goal, and what is known of a goal whose cancel        *)
(* callback runs or whose feedback may still arrive (Placed); what keeps   *)
(* two tasks apart (Alone); what the node's state says (StateTrue); and    *)
(* whom the flag is for (Flagged).  That every goal ends is proved from    *)
(* the fairness of the threads, place by place, given that none is stuck   *)
(* (NeverStuck), which is TLC's to check.                                  *)
(***************************************************************************)
EXTENDS TaskServer, TLAPS

CancelUnderWay(t) == callback.goal = t /\ callback.at \in {"write", "transition"}

\* A goal and its thread go through their states together.
Placed ==
  /\ \A t \in Task : pc[t] \in {"unborn", "refused"} =>
       goal_state[t] \in {"unknown", "rejected"} /\ ~left_behind[t]
  /\ \A t \in Task : pc[t] \in (ClaimGap \cup Running) \ {"idle"} =>
       goal_state[t] \in {"EXECUTING", "CANCELING"}
  /\ \A t \in Task : pc[t] \in {"idle", "exited"} => goal_state[t] \in Terminal
  /\ \A t \in Task : pc[t] \in ClaimGap => ~left_behind[t]
  /\ callback # NoCallback => pc[callback.goal] \notin {"unborn", "refused"}

\* Until tasks overlap, at most one is live, and a cancel callback that runs
\* while it lives is its own.
Alone ==
  ~overlap =>
    /\ \A t, h \in Task : Live(t) /\ Live(h) => t = h
    /\ callback # NoCallback => \A t \in Task : Live(t) => callback.goal = t

\* The node is IDLE between tasks, and not while one runs.
StateTrue ==
  /\ RunningNotIdle
  /\ ~stale_write /\ (\A t \in Task : ~Live(t)) => state = "IDLE"

\* A task whose cancellation has been accepted finds the flag up, and one that
\* finds it up was canceled itself.
Flagged ==
  /\ \A t \in Task :
       goal_state[t] = "CANCELING" \/ CancelUnderWay(t) =>
         \/ t \in early_cancel \/ overlap
         \/ Live(t) => pc[t] # "reset" /\ cancel_requested
  /\ \A t \in Task :
       cancel_requested /\ pc[t] \in Running \cup {"enter"} /\ goal_state[t] = "EXECUTING" =>
         callback.goal = t \/ overlap
  /\ \A t \in Task :
       pc[t] \in {"deliver", "cancel_result"} /\ status[t] = "Canceled"
         /\ goal_state[t] = "EXECUTING" =>
         callback.goal = t \/ outside_cancel[t] \/ overlap
  /\ \A t \in Task :
       pc[t] = "cancel_result" => status[t] = "Canceled" \/ goal_state[t] = "CANCELING"

Inv == TypeOK /\ Placed /\ Alone /\ StateTrue /\ Flagged /\ CrashCause

-------------------------------------------------------------------------------
LEMMA InitInv == Init => Inv
<1> SUFFICES ASSUME Init PROVE Inv
  OBVIOUS
<1> USE DEF Init, ContractInit
<1>1. TypeOK
  BY DEF TypeOK, ServerPC, Idle, NodeState, ProgressState, StepState, GoalState
<1>2. Placed
  BY DEF Placed, ClaimGap, Running
<1>3. Alone /\ StateTrue
  BY DEF Alone, StateTrue, RunningNotIdle, Live, ClaimGap, Running
<1>4. \A t \in Task : callback.goal # t
  BY NoneAssumption DEF NoCallback
<1>5. Flagged
  BY <1>4 DEF Flagged, CancelUnderWay, Running
<1> QED
  BY <1>1, <1>2, <1>3, <1>5 DEF Inv, CrashCause

-------------------------------------------------------------------------------
(* The steps of a task's thread.                                           *)

\* They leave the callback and what is remembered of goals alone.
LEMMA ThreadKeeps ==
  ASSUME NEW t \in Task, TaskThread(t)
  PROVE  process = "up" /\ UNCHANGED <<callback, overlap, early_cancel, stale_write>>
  BY DEF TaskThread, Reset, Enter, Progress, ExecuteReturns, Deliver, ResultCanceled,
         ResultSucceeded, FailState, ResultAborted, BecomeIdle, Up, nodeVars

\* Lowering the flag.
LEMMA ResetStep ==
  ASSUME Inv, NEW t \in Task, TaskThread(t), Reset(t)
  PROVE  Inv'
<1> USE DEF Inv, Live, ClaimGap, Running
<1>1. /\ pc[t] = "reset" /\ pc' = [pc EXCEPT ![t] = "enter"]
      /\ cancel_requested' = FALSE
      /\ process = "up"
      /\ UNCHANGED <<goal_state, callback, process, overlap, early_cancel, stale_write,
                     phase, status, left_behind, outside_cancel, state>>
  BY DEF Reset, LowerFlag, Goto, Up, nodeVars, execVars
<1>2. TypeOK'
  BY <1>1 DEF TypeOK, ServerPC, Idle
<1>3. Placed'
  BY <1>1 DEF Placed, TypeOK
<1>4. Alone' /\ StateTrue'
  BY <1>1 DEF Alone, StateTrue, RunningNotIdle, TypeOK
<1>5. Flagged'
  BY <1>1 DEF Flagged, CancelUnderWay, Alone, TypeOK
<1> QED
  BY <1>1, <1>2, <1>3, <1>4, <1>5 DEF CrashCause

\* Into execute(), and progress of it.
LEMMA ExecuteStep ==
  ASSUME Inv, NEW t \in Task, TaskThread(t), Enter(t) \/ Progress(t)
  PROVE  Inv'
<1> USE DEF Inv, Live, ClaimGap, Running
<1>1. /\ pc[t] \in {"enter", "execute"} /\ pc' = [pc EXCEPT ![t] = "execute"]
      /\ phase' = [phase EXCEPT ![t] = "working"]
      /\ state' \in NodeState \ {"IDLE"}
      /\ process = "up"
      /\ UNCHANGED <<goal_state, callback, process, overlap, early_cancel, stale_write,
                     status, left_behind, outside_cancel, cancel_requested>>
  <2>1. CASE Enter(t)
    BY <2>1 DEF Enter, set_state, Goto, Up, NodeState, ProgressState
  <2>2. CASE Progress(t)
    BY <2>2 DEF Progress, Publish, Up, execVars, NodeState, ProgressState, StepState, TypeOK
  <2> QED
    BY <2>1, <2>2
<1>2. TypeOK'
  BY <1>1 DEF TypeOK, ServerPC, Idle
<1>3. Placed'
  BY <1>1 DEF Placed, TypeOK
<1>4. Alone' /\ StateTrue'
  BY <1>1 DEF Alone, StateTrue, RunningNotIdle, TypeOK
<1>5. Flagged'
  BY <1>1 DEF Flagged, CancelUnderWay, TypeOK
<1> QED
  BY <1>1, <1>2, <1>3, <1>4, <1>5 DEF CrashCause

\* Out of it, with a status that only the flag or an outsider makes Canceled.
LEMMA ReturnStep ==
  ASSUME Inv, NEW t \in Task, TaskThread(t), ExecuteReturns(t)
  PROVE  Inv'
<1> USE DEF Inv, Live, ClaimGap, Running
<1>1. PICK s \in {"Ok", "Canceled", "Failed"} :
        /\ status' = [status EXCEPT ![t] = s]
        /\ s = "Canceled" => cancel_requested \/ outside_cancel'[t]
  BY DEF ExecuteReturns, Returns, ReturnOk, ReturnCanceled, ReturnOutsideCancel,
         ReturnFailed, Answer, TypeOK
<1>2. /\ pc[t] = "execute" /\ pc' = [pc EXCEPT ![t] = "deliver"]
      /\ phase' = [phase EXCEPT ![t] = "returned"]
      /\ left_behind' \in {left_behind, [left_behind EXCEPT ![t] = TRUE]}
      /\ outside_cancel' \in {outside_cancel, [outside_cancel EXCEPT ![t] = TRUE]}
      /\ state' \in {state, "DONE"}
      /\ process = "up"
      /\ UNCHANGED <<goal_state, callback, process, overlap, early_cancel, stale_write,
                     cancel_requested>>
  BY DEF ExecuteReturns, Returns, ReturnOk, ReturnCanceled, ReturnOutsideCancel,
         ReturnFailed, Answer, Goto, Up
<1>3. TypeOK'
  BY <1>1, <1>2 DEF TypeOK, ServerPC, Idle, NodeState, ProgressState
<1>4. Placed'
  BY <1>2 DEF Placed, TypeOK
<1>5. Alone' /\ StateTrue'
  BY <1>2 DEF Alone, StateTrue, RunningNotIdle, TypeOK
<1>6. Flagged'
  BY <1>1, <1>2 DEF Flagged, CancelUnderWay, TypeOK
<1> QED
  BY <1>2, <1>3, <1>4, <1>5, <1>6 DEF CrashCause

\* The node's decision how to end the goal.
LEMMA DeliverStep ==
  ASSUME Inv, NEW t \in Task, TaskThread(t), Deliver(t)
  PROVE  Inv'
<1> USE DEF Inv, Live, ClaimGap, Running
<1>1. PICK place \in {"cancel_result", "err_state", "succeed_result"} :
        /\ pc' = [pc EXCEPT ![t] = place]
        /\ place = "cancel_result" => EndsCanceled(t)
  BY DEF Deliver, Goto
<1>2. /\ pc[t] = "deliver"
      /\ process = "up"
      /\ UNCHANGED <<goal_state, callback, process, overlap, early_cancel, stale_write,
                     phase, status, left_behind, outside_cancel, cancel_requested, state>>
  BY DEF Deliver, Up, nodeVars, contractVars, execVars
<1>3. TypeOK'
  BY <1>1, <1>2 DEF TypeOK, ServerPC, Idle
<1>4. Placed'
  BY <1>1, <1>2 DEF Placed, TypeOK
<1>5. Alone' /\ StateTrue'
  BY <1>1, <1>2 DEF Alone, StateTrue, RunningNotIdle, TypeOK
<1>6. Flagged'
  BY <1>1, <1>2 DEF Flagged, CancelUnderWay, EndsCanceled, TypeOK
<1> QED
  BY <1>2, <1>3, <1>4, <1>5, <1>6 DEF CrashCause

\* canceled(), succeed() and abort(), each where it is legal.
LEMMA ResultStep ==
  ASSUME Inv, NEW t \in Task, TaskThread(t), NEW end \in Terminal,
         pc[t] \in {"cancel_result", "succeed_result", "abort_result"},
         pc' = [pc EXCEPT ![t] = "idle"], goal_state' = [goal_state EXCEPT ![t] = end],
         UNCHANGED <<process, contractVars>>
  PROVE  Inv'
<1> USE DEF Inv, Live, ClaimGap, Running
<1>1. /\ process = "up"
      /\ UNCHANGED <<callback, process, overlap, early_cancel, stale_write,
                     phase, status, left_behind, outside_cancel, cancel_requested, state>>
  BY ThreadKeeps DEF contractVars, execVars
<1>2. TypeOK'
  BY <1>1 DEF TypeOK, ServerPC, Idle, Terminal, GoalState
<1>3. Placed'
  BY <1>1 DEF Placed, TypeOK, Terminal
<1>4. Alone' /\ StateTrue'
  BY <1>1 DEF Alone, StateTrue, RunningNotIdle, TypeOK
<1>5. Flagged'
  BY <1>1 DEF Flagged, CancelUnderWay, TypeOK, Terminal
<1> QED
  BY <1>1, <1>2, <1>3, <1>4, <1>5 DEF CrashCause

\* canceled() on a goal that is not CANCELING ends the process.
LEMMA ThrowStep ==
  ASSUME Inv, NEW t \in Task, pc[t] = "cancel_result", goal_state[t] # "CANCELING",
         process' = "terminated", UNCHANGED <<pc, goal_state, callback, overlap,
                                             early_cancel, stale_write, contractVars>>
  PROVE  Inv'
<1> USE DEF Inv
<1>1. UNCHANGED <<pc, goal_state, callback, overlap, early_cancel, stale_write,
                  phase, status, left_behind, outside_cancel, cancel_requested, state>>
  BY DEF contractVars, execVars
<1>2. TypeOK'
  BY <1>1 DEF TypeOK
<1>3. Placed' /\ Alone' /\ StateTrue' /\ Flagged'
  BY <1>1 DEF Placed, Alone, StateTrue, RunningNotIdle, Live, Flagged, CancelUnderWay
<1>4. goal_state[t] = "EXECUTING" /\ status[t] = "Canceled"
  BY DEF Placed, Flagged, ClaimGap, Running
<1>5. callback.goal = t \/ outside_cancel[t] \/ overlap
  BY <1>4 DEF Flagged
<1>6. CrashCause'
  BY <1>1, <1>4, <1>5 DEF CrashCause
<1> QED
  BY <1>2, <1>3, <1>6

\* The states a thread writes on its way out.
LEMMA LeaveStep ==
  ASSUME Inv, NEW t \in Task, TaskThread(t), FailState(t) \/ BecomeIdle(t)
  PROVE  Inv'
<1> USE DEF Inv, Live, ClaimGap, Running
<1>1. /\ \/ /\ pc[t] = "err_state" /\ pc' = [pc EXCEPT ![t] = "abort_result"]
            /\ state' = "ERROR"
         \/ /\ pc[t] = "idle" /\ pc' = [pc EXCEPT ![t] = "exited"]
            /\ state' = "IDLE"
      /\ process = "up"
      /\ UNCHANGED <<goal_state, callback, process, overlap, early_cancel, stale_write,
                     phase, status, left_behind, outside_cancel, cancel_requested>>
  BY DEF FailState, BecomeIdle, FailureState, FinalState, set_state, Goto, Up, execVars
<1>2. TypeOK'
  BY <1>1 DEF TypeOK, ServerPC, Idle, NodeState
<1>3. Placed'
  BY <1>1 DEF Placed, TypeOK
<1>4. Alone' /\ StateTrue'
  BY <1>1 DEF Alone, StateTrue, RunningNotIdle, TypeOK
<1>5. Flagged'
  BY <1>1 DEF Flagged, CancelUnderWay, Placed, Terminal, TypeOK
<1> QED
  BY <1>1, <1>2, <1>3, <1>4, <1>5 DEF CrashCause

LEMMA ThreadStep ==
  ASSUME Inv, NEW t \in Task, TaskThread(t)
  PROVE  Inv'
<1>1. CASE ResultCanceled(t) /\ goal_state[t] = "CANCELING"
  BY <1>1, ResultStep DEF ResultCanceled, Goto, SetGoal, Terminal
<1>2. CASE ResultCanceled(t) /\ goal_state[t] # "CANCELING"
  BY <1>2, ThrowStep DEF ResultCanceled
<1>3. CASE ResultSucceeded(t)
  BY <1>3, ResultStep DEF ResultSucceeded, Goto, SetGoal, Terminal
<1>4. CASE ResultAborted(t)
  BY <1>4, ResultStep DEF ResultAborted, Abort, Goto, SetGoal, Terminal
<1> QED
  BY <1>1, <1>2, <1>3, <1>4, ResetStep, ExecuteStep, ReturnStep, DeliverStep, LeaveStep
  DEF TaskThread

-------------------------------------------------------------------------------
(* The callbacks.                                                          *)

\* A goal is refused, or accepted in the state IDLE.
LEMMA GoalStep ==
  ASSUME Inv, NEW t \in Task, HandleGoal(t)
  PROVE  Inv'
<1> USE DEF Inv, Live, ClaimGap, Running
<1>1. /\ pc[t] = "unborn" /\ callback = NoCallback
      /\ process = "up"
      /\ UNCHANGED <<callback, process, early_cancel, stale_write,
                     phase, status, left_behind, outside_cancel, cancel_requested, state>>
  BY DEF HandleGoal, Up, contractVars, execVars
<1>2. \/ /\ state = "IDLE"
         /\ pc' = [pc EXCEPT ![t] = "reset"]
         /\ goal_state' = [goal_state EXCEPT ![t] = "EXECUTING"]
         /\ overlap' = (overlap \/ \E h \in Task \ {t} : Live(h))
      \/ /\ pc' = [pc EXCEPT ![t] = "refused"]
         /\ goal_state' = [goal_state EXCEPT ![t] = "rejected"]
         /\ overlap' = overlap
  BY DEF HandleGoal, Accepting, Goto, SetGoal
<1>3. TypeOK'
  BY <1>1, <1>2 DEF TypeOK, ServerPC, Idle, GoalState
<1>4. Placed'
  BY <1>1, <1>2 DEF Placed, TypeOK
<1>5. Alone'
  <2>1. \A h \in Task \ {t} : Live(h)' <=> Live(h)
    BY <1>1, <1>2 DEF TypeOK
  <2>2. ~Live(t)
    BY <1>1
  <2>3. ~overlap' /\ pc'[t] = "reset" => \A h \in Task \ {t} : ~Live(h)
    BY <1>1, <1>2 DEF TypeOK
  <2> QED
    BY <1>1, <1>2, <2>1, <2>2, <2>3 DEF Alone, TypeOK
<1>6. StateTrue'
  BY <1>1, <1>2 DEF StateTrue, RunningNotIdle, TypeOK
<1>7. Flagged'
  BY <1>1, <1>2 DEF Flagged, CancelUnderWay, TypeOK, NoCallback
<1> QED
  BY <1>1, <1>3, <1>4, <1>5, <1>6, <1>7 DEF CrashCause

\* The three steps of a cancellation after rclcpp_action has found the goal.
LEMMA CancelStep ==
  ASSUME Inv, NEW t \in Task, CancelArrives(t) \/ CancelCallback(t)
  PROVE  Inv'
<1> USE DEF Inv, Live, ClaimGap, Running
<1>a. /\ process = "up"
      /\ UNCHANGED <<pc, process, overlap, phase, status, left_behind, outside_cancel>>
  BY DEF CancelArrives, CancelCallback, CancelFlag, CancelWrite, CancelTransition, Up,
         contractVars, execVars
<1>b. NoCallback.goal \notin Task /\ NoCallback.at = "none"
  BY NoneAssumption DEF NoCallback
<1>1. CASE CancelArrives(t)
  <2>1. /\ goal_state[t] = "EXECUTING" /\ callback = NoCallback
        /\ callback' = [goal |-> t, at |-> "flag"]
        /\ UNCHANGED <<goal_state, early_cancel, stale_write, cancel_requested, state>>
    BY <1>1 DEF CancelArrives, contractVars
  <2>2. callback'.goal = t /\ callback'.at = "flag"
    BY <2>1
  <2>3. pc[t] \notin Idle
    BY <2>1 DEF Placed, TypeOK, Terminal, ServerPC, Idle
  <2>4. TypeOK'
    BY <1>a, <2>1 DEF TypeOK, CancelAt
  <2>5. Placed'
    BY <1>a, <2>1, <2>2, <2>3 DEF Placed, Idle
  <2>6. Alone' /\ StateTrue'
    BY <1>a, <2>1, <2>2, <2>3 DEF Alone, StateTrue, RunningNotIdle, TypeOK, ServerPC, Idle
  <2>7. Flagged'
    BY <1>a, <1>b, <2>1, <2>2 DEF Flagged, CancelUnderWay
  <2> QED
    BY <1>a, <2>4, <2>5, <2>6, <2>7 DEF CrashCause
<1>2. CASE CancelFlag(t)
  <2>1. callback.goal = t /\ callback.at = "flag" /\ callback # NoCallback
    BY <1>2, <1>b DEF CancelFlag
  <2>2. UNCHANGED <<goal_state, stale_write, state>>
    BY <1>2 DEF CancelFlag
  <2>3. CASE cancel_requested' = TRUE /\ callback' = [goal |-> t, at |-> "write"]
               /\ early_cancel' = IF pc[t] = "reset" THEN early_cancel \cup {t} ELSE early_cancel
    <3>1. callback'.goal = t /\ callback'.at = "write"
      BY <2>3
    <3>2. TypeOK'
      BY <1>a, <2>2, <2>3 DEF TypeOK, CancelAt
    <3>3. Placed' /\ Alone' /\ StateTrue'
      BY <1>a, <2>1, <2>2, <3>1 DEF Placed, Alone, StateTrue, RunningNotIdle
    <3>4. Flagged'
      BY <1>a, <2>1, <2>2, <2>3, <3>1 DEF Flagged, CancelUnderWay, Alone
    <3> QED
      BY <1>a, <3>2, <3>3, <3>4 DEF CrashCause
  <2>4. CASE pc[t] = "exited" /\ callback' = NoCallback
               /\ UNCHANGED <<cancel_requested, early_cancel>>
    <3>1. TypeOK'
      BY <1>a, <2>2, <2>4 DEF TypeOK
    <3>2. Placed' /\ Alone' /\ StateTrue'
      BY <1>a, <2>1, <2>2, <2>4 DEF Placed, Alone, StateTrue, RunningNotIdle
    <3>3. Flagged'
      BY <1>a, <1>b, <2>1, <2>2, <2>4 DEF Flagged, CancelUnderWay
    <3> QED
      BY <1>a, <3>1, <3>2, <3>3 DEF CrashCause
  <2> QED
    BY <1>2, <2>3, <2>4 DEF CancelFlag, RaiseFlag
<1>3. CASE CancelWrite(t)
  <2>1. callback.goal = t /\ callback.at = "write" /\ callback # NoCallback
    BY <1>3, <1>b DEF CancelWrite
  <2>2. /\ state' = "CANCELING" /\ callback' = [goal |-> t, at |-> "transition"]
        /\ stale_write' = (stale_write \/ pc[t] = "exited")
        /\ UNCHANGED <<goal_state, early_cancel, cancel_requested>>
    BY <1>3 DEF CancelWrite, set_state
  <2>3. callback'.goal = t /\ callback'.at = "transition"
    BY <2>2
  <2>4. TypeOK'
    BY <1>a, <2>2 DEF TypeOK, CancelAt, NodeState
  <2>5. Placed' /\ Alone'
    BY <1>a, <2>1, <2>2, <2>3 DEF Placed, Alone
  <2>6. StateTrue'
    BY <1>a, <2>1, <2>2 DEF StateTrue, RunningNotIdle, Placed, TypeOK, ServerPC, Idle
  <2>7. Flagged'
    BY <1>a, <2>1, <2>2, <2>3 DEF Flagged, CancelUnderWay
  <2> QED
    BY <1>a, <2>4, <2>5, <2>6, <2>7 DEF CrashCause
<1>4. CASE CancelTransition(t)
  <2>1. callback.goal = t /\ callback.at = "transition" /\ callback # NoCallback
    BY <1>4, <1>b DEF CancelTransition
  <2>2. /\ goal_state' = IF goal_state[t] = "EXECUTING"
                           THEN [goal_state EXCEPT ![t] = "CANCELING"] ELSE goal_state
        /\ callback' = NoCallback
        /\ UNCHANGED <<early_cancel, stale_write, cancel_requested, state>>
    BY <1>4 DEF CancelTransition, CancelAccepted, SetGoal, contractVars
  <2>3. TypeOK'
    BY <1>a, <2>2 DEF TypeOK, GoalState
  <2>4. Placed'
    BY <1>a, <2>1, <2>2 DEF Placed, TypeOK, Terminal
  <2>5. Alone' /\ StateTrue'
    BY <1>a, <2>1, <2>2 DEF Alone, StateTrue, RunningNotIdle
  <2>6. Flagged'
    BY <1>a, <1>b, <2>1, <2>2 DEF Flagged, CancelUnderWay, TypeOK
  <2> QED
    BY <1>a, <2>3, <2>4, <2>5, <2>6 DEF CrashCause
<1> QED
  BY <1>1, <1>2, <1>3, <1>4 DEF CancelCallback

\* A feedback after the return, and the end of the goal it comes from.
LEMMA LeftBehindStep ==
  ASSUME Inv, NEW t \in Task, FeedbackAfterReturn(t) \/ Backend(t)
  PROVE  Inv'
<1> USE DEF Inv, Live, ClaimGap, Running
<1>1. /\ left_behind[t] /\ process' \in {"up", "crashed"}
      /\ left_behind' \in {left_behind, [left_behind EXCEPT ![t] = FALSE]}
      /\ \/ state' = state /\ stale_write' = stale_write
         \/ state' \in StepState /\ stale_write' = (stale_write \/ pc[t] = "exited")
      /\ UNCHANGED <<pc, goal_state, callback, overlap, early_cancel, phase, status,
                     outside_cancel, cancel_requested>>
  BY DEF FeedbackAfterReturn, Backend, LateFeedback, LeftGoalEnds, Up, nodeVars, execVars
<1>2. pc[t] \notin {"unborn", "refused"}
  BY <1>1 DEF Placed
<1>3. TypeOK'
  BY <1>1 DEF TypeOK, NodeState, ProgressState
<1>4. Placed' /\ Alone'
  BY <1>1 DEF Placed, Alone, TypeOK
<1>5. StateTrue'
  BY <1>1, <1>2 DEF StateTrue, RunningNotIdle, TypeOK, ServerPC, Idle, StepState
<1>6. Flagged'
  BY <1>1 DEF Flagged, CancelUnderWay
<1> QED
  BY <1>1, <1>3, <1>4, <1>5, <1>6 DEF CrashCause

LEMMA InvStep == Inv /\ [Next]_vars => Inv'
<1> SUFFICES ASSUME Inv, [Next]_vars PROVE Inv'
  OBVIOUS
<1>1. CASE TornRead
  BY <1>1
  DEF TornRead, Inv, TypeOK, Placed, Alone, StateTrue, RunningNotIdle, Live, Flagged,
      CancelUnderWay, CrashCause, contractVars, execVars
<1>2. CASE UNCHANGED vars
  BY <1>2
  DEF vars, nodeVars, contractVars, execVars, Inv, TypeOK, Placed, Alone, StateTrue,
      RunningNotIdle, Live, Flagged, CancelUnderWay, CrashCause
<1> QED
  BY <1>1, <1>2, ThreadStep, GoalStep, CancelStep, LeftBehindStep
  DEF Next, TaskCallback, Terminated

LEMMA Invariance == Spec => []Inv
  BY InitInv, InvStep, PTL DEF Spec

-------------------------------------------------------------------------------
\* The state the node admits goals by is not IDLE while a task runs and IDLE when
\* none does, with the exceptions the definitions name: for any number of goals.
THEOREM HonestState == Spec => []StateHonest
<1>1. Inv => StateHonest
  BY DEF Inv, StateTrue, StateHonest, IdleAtRest
<1> QED
  BY <1>1, Invariance, PTL

\* A running task whose goal is CANCELING finds the flag up, unless it lowered the
\* flag itself, after the cancellation, or another task did.
THEOREM CancelsHeard == Spec => []CancelHeard
<1>1. Inv => CancelHeard
  BY DEF Inv, Flagged, CancelHeard, Live, ClaimGap, Running
<1> QED
  BY <1>1, Invariance, PTL

\* The three ways into the exception of canceled(), and no fourth.
THEOREM CrashesExplained == Spec => []CrashCause
<1>1. Inv => CrashCause
  BY DEF Inv
<1> QED
  BY <1>1, Invariance, PTL

\* Tasks begin to overlap only by a goal accepted in another's claim gap.
THEOREM OverlapFromClaimGap == Spec => OverlapOnlyFromClaimGap
<1>1. ASSUME Inv, [Next]_vars, overlap', ~overlap
      PROVE  \E h \in Task : pc[h] \in ClaimGap /\ pc'[h] = pc[h]
  <2>1. PICK t \in Task : HandleGoal(t)
    <3>1. ASSUME NEW t \in Task, ~HandleGoal(t),
                 TaskThread(t) \/ CancelCallback(t) \/ TaskCallback(t) \/ Backend(t)
          PROVE  UNCHANGED overlap
      <4>1. CASE TaskThread(t)
        BY <4>1, ThreadKeeps
      <4>2. CASE ~TaskThread(t)
        BY <3>1, <4>2
        DEF CancelCallback, CancelFlag, CancelWrite, CancelTransition, TaskCallback,
            CancelArrives, FeedbackAfterReturn, Backend, nodeVars
      <4> QED
        BY <4>1, <4>2
    <3> QED
      BY <1>1, <3>1 DEF Next, TornRead, Terminated, vars, nodeVars
  <2>2. /\ state = "IDLE" /\ pc' = [pc EXCEPT ![t] = "reset"]
        /\ \E h \in Task \ {t} : Live(h)
    BY <1>1, <2>1 DEF HandleGoal, Accepting, Goto
  <2> QED
    BY <1>1, <2>2 DEF Inv, TypeOK, StateTrue, RunningNotIdle, Live
<1>2. Inv /\ [Next]_vars => [overlap' /\ ~overlap =>
        \E h \in Task : pc[h] \in ClaimGap /\ pc'[h] = pc[h]]_vars
  BY <1>1
<1> QED
  BY <1>2, Invariance, PTL DEF Spec, OverlapOnlyFromClaimGap

-------------------------------------------------------------------------------
\* A cancellation on its way to be honored, and one that has been.
Honoring(t) ==
  \/ goal_state[t] = "CANCELING"
     /\ pc[t] \in ClaimGap \cup {"execute", "deliver", "cancel_result"}
  \/ goal_state[t] = "CANCELED"

LEMMA HonoringStep ==
  ASSUME Inv, NEW t \in Task, Honoring(t), [Next]_vars
  PROVE  Honoring(t)'
<1> USE DEF Honoring, ClaimGap
<1>a. /\ pc \in [Task -> ServerPC] /\ goal_state \in [Task -> GoalState]
      /\ pc[t] # "unborn" /\ pc[t] \notin {"err_state", "succeed_result", "abort_result"}
  BY DEF Inv, TypeOK, Placed, Running
<1>1. ASSUME NEW h \in Task, TaskThread(h) PROVE Honoring(t)'
  <2>1. goal_state[t] = "CANCELED" => pc[t] \in {"idle", "exited"}
    BY <1>a DEF Inv, Placed, Running, TypeOK, ServerPC, Idle
  <2>2. CASE h # t
    <3>1. pc'[t] = pc[t] /\ goal_state'[t] = goal_state[t]
      BY <1>1, <1>a, <2>2
      DEF TaskThread, Reset, Enter, Progress, ExecuteReturns, Deliver, ResultCanceled,
          ResultSucceeded, FailState, ResultAborted, Abort, BecomeIdle, Goto, SetGoal,
          nodeVars
    <3> QED
      BY <3>1
  <2>3. CASE h = t
    <3>1. CASE goal_state[t] = "CANCELED"
      <4>1. UNCHANGED goal_state
        BY <1>1, <2>1, <2>3, <3>1
        DEF TaskThread, Reset, Enter, Progress, ExecuteReturns, Deliver, ResultCanceled,
            ResultSucceeded, FailState, ResultAborted, BecomeIdle, nodeVars
      <4> QED
        BY <3>1, <4>1
    <3>2. CASE goal_state[t] = "CANCELING"
      <4>1. CASE ResultCanceled(t)
        BY <1>a, <3>2, <4>1 DEF ResultCanceled, SetGoal
      <4>2. CASE Reset(t) \/ Enter(t) \/ Progress(t) \/ ExecuteReturns(t) \/ Deliver(t)
        BY <1>a, <3>2, <4>2
        DEF Reset, Enter, Progress, ExecuteReturns, Deliver, EndsCanceled, Goto, nodeVars
      <4> QED
        BY <1>1, <2>3, <3>2, <4>1, <4>2
        DEF TaskThread, ResultSucceeded, FailState, ResultAborted, BecomeIdle
    <3> QED
      BY <3>1, <3>2
  <2> QED
    BY <2>2, <2>3
<1>2. ASSUME NEW h \in Task, CancelCallback(h) \/ TaskCallback(h) \/ Backend(h)
      PROVE  Honoring(t)'
  <2>1. pc'[t] = pc[t] /\ (goal_state[t] # "EXECUTING" => goal_state'[t] = goal_state[t])
    BY <1>2, <1>a
    DEF CancelCallback, CancelFlag, CancelWrite, CancelTransition, CancelAccepted,
        TaskCallback, HandleGoal, CancelArrives, FeedbackAfterReturn, Backend, Goto, SetGoal,
        nodeVars
  <2> QED
    BY <2>1
<1> QED
  BY <1>1, <1>2 DEF Next, TornRead, Terminated, vars, nodeVars

\* A cancellation that reaches CANCELING before the node decides is honored,
\* whatever execute() answers and whatever becomes of the flag.
THEOREM CancelsHonored == Spec => CancelHonored
<1> SUFFICES ASSUME NEW t \in Task
             PROVE  Spec => [](/\ goal_state[t] = "CANCELING"
                               /\ pc[t] \in ClaimGap \cup {"execute", "deliver"}
                               => [](goal_state[t] \notin {"SUCCEEDED", "ABORTED"}))
  BY DEF CancelHonored
<1>1. goal_state[t] = "CANCELING" /\ pc[t] \in ClaimGap \cup {"execute", "deliver"}
      => Honoring(t)
  BY DEF Honoring
<1>2. Honoring(t) => goal_state[t] \notin {"SUCCEEDED", "ABORTED"}
  BY DEF Honoring
<1>3. Inv /\ Honoring(t) /\ [Next]_vars => Honoring(t)'
  BY HonoringStep
<1> QED
  BY <1>1, <1>2, <1>3, Invariance, PTL DEF Spec

-------------------------------------------------------------------------------
(* Every goal gets its result: a task's thread goes through its places in  *)
(* order, and nothing but the end of the process keeps it from the last.   *)

At(t, places) == process = "up" /\ pc[t] \in places

Deciding == {"cancel_result", "err_state", "succeed_result"}
Past(t)  == goal_state[t] \in Terminal \/ process # "up"

\* A thread's step moves it to the next place, or the goal to its result.
LEMMA ThreadMoves ==
  ASSUME Inv, NEW t \in Task, TaskThread(t)
  PROVE  /\ pc[t] = "reset"   => pc'[t] = "enter"
         /\ pc[t] = "enter"   => pc'[t] = "execute"
         /\ pc[t] = "execute" => pc'[t] \in {"execute", "deliver"}
         /\ pc[t] = "deliver" => pc'[t] \in Deciding
         /\ pc[t] \in Deciding => pc'[t] \in {"abort_result"} \/ Past(t)'
         /\ pc[t] = "abort_result" => Past(t)'
<1>t. pc \in [Task -> ServerPC] /\ goal_state \in [Task -> GoalState]
  BY DEF Inv, TypeOK
<1>1. CASE Reset(t)
  BY <1>1, <1>t DEF Reset, Goto, Deciding
<1>2. CASE Enter(t)
  BY <1>2, <1>t DEF Enter, Goto, Deciding
<1>3. CASE Progress(t)
  BY <1>3, <1>t DEF Progress, Deciding
<1>4. CASE ExecuteReturns(t)
  BY <1>4, <1>t DEF ExecuteReturns, Goto, Deciding
<1>5. CASE Deliver(t)
  BY <1>5, <1>t DEF Deliver, Goto, Deciding
<1>6. CASE ResultCanceled(t)
  BY <1>6, <1>t DEF ResultCanceled, SetGoal, Deciding, Past, Terminal
<1>7. CASE ResultSucceeded(t)
  BY <1>7, <1>t DEF ResultSucceeded, SetGoal, Deciding, Past, Terminal
<1>8. CASE FailState(t)
  BY <1>8, <1>t DEF FailState, Goto, Deciding
<1>9. CASE ResultAborted(t)
  BY <1>9, <1>t DEF ResultAborted, Abort, SetGoal, Deciding, Past, Terminal
<1>10. CASE BecomeIdle(t)
  BY <1>10 DEF BecomeIdle, Deciding
<1> QED
  BY <1>1, <1>2, <1>3, <1>4, <1>5, <1>6, <1>7, <1>8, <1>9, <1>10 DEF TaskThread

\* Nothing else moves it, once it is born.
LEMMA OthersWait ==
  ASSUME Inv, NEW t \in Task, [Next]_vars, ~TaskThread(t), pc[t] # "unborn"
  PROVE  pc'[t] = pc[t]
<1>t. pc \in [Task -> ServerPC]
  BY DEF Inv, TypeOK
<1>1. ASSUME NEW h \in Task, TaskThread(h), h # t PROVE pc'[t] = pc[t]
  BY <1>1, <1>t
  DEF TaskThread, Reset, Enter, Progress, ExecuteReturns, Deliver, ResultCanceled,
      ResultSucceeded, FailState, ResultAborted, BecomeIdle, Goto
<1>2. ASSUME NEW h \in Task, CancelCallback(h) \/ TaskCallback(h) \/ Backend(h)
      PROVE  pc'[t] = pc[t]
  BY <1>2, <1>t
  DEF CancelCallback, CancelFlag, CancelWrite, CancelTransition, TaskCallback, HandleGoal,
      CancelArrives, FeedbackAfterReturn, Backend, Goto
<1> QED
  BY <1>1, <1>2 DEF Next, TornRead, Terminated, vars

\* From each place to the next: a step of anyone leaves the thread where it is or
\* takes it there, and a step of its own that ends does the latter.
LEMMA OneOnward ==
  ASSUME Inv, NEW t \in Task, [Next]_vars
  PROVE  /\ At(t, {"reset"})   => At(t, {"reset"})' \/ At(t, {"enter"})' \/ Past(t)'
         /\ At(t, {"enter"})   => At(t, {"enter"})' \/ At(t, {"execute"})' \/ Past(t)'
         /\ At(t, {"execute"}) => At(t, {"execute"})' \/ At(t, {"deliver"})' \/ Past(t)'
         /\ At(t, {"deliver"}) => At(t, {"deliver"})' \/ At(t, Deciding)' \/ Past(t)'
         /\ At(t, Deciding) => \/ At(t, Deciding)' \/ At(t, {"abort_result"})'
                               \/ Past(t)'
         /\ At(t, {"abort_result"}) => At(t, {"abort_result"})' \/ Past(t)'
<1>1. CASE TaskThread(t)
  BY <1>1, ThreadMoves DEF At, Past
<1>2. CASE ~TaskThread(t)
  BY <1>2, OthersWait DEF At, Past, Deciding
<1> QED
  BY <1>1, <1>2

LEMMA EndsOnward ==
  ASSUME Inv, NEW t \in Task, <<ThreadEnds(t)>>_vars
  PROVE  /\ At(t, {"reset"})   => At(t, {"enter"})' \/ Past(t)'
         /\ At(t, {"enter"})   => At(t, {"execute"})' \/ Past(t)'
         /\ At(t, {"execute"}) => At(t, {"deliver"})' \/ Past(t)'
         /\ At(t, {"deliver"}) => At(t, Deciding)' \/ Past(t)'
         /\ At(t, Deciding) => At(t, {"abort_result"})' \/ Past(t)'
         /\ At(t, {"abort_result"}) => Past(t)'
<1>1. TaskThread(t) /\ (pc'[t] # pc[t] \/ process' # process)
  BY DEF ThreadEnds
<1> QED
  BY <1>1, ThreadMoves DEF At, Past

\* Every accepted goal gets its result, if the process lives, whatever the
\* cancellations, the failures and the other tasks do.  That a thread can always
\* take its next step is NeverStuck.
THEOREM GoalsEnd == Spec /\ []NeverStuck => AcceptedGoalEnds
<1> SUFFICES ASSUME NEW t \in Task
             PROVE  Spec /\ []NeverStuck
                      => (goal_state[t] = "EXECUTING"
                            ~> goal_state[t] \in Terminal \/ process # "up")
  BY DEF AcceptedGoalEnds
<1> DEFINE A == At(t, {"reset"})
           B == At(t, {"enter"})
           C == At(t, {"execute"})
           D == At(t, {"deliver"})
           E == At(t, Deciding)
           F == At(t, {"abort_result"})
           Z == Past(t)
<1>1. Inv /\ [Next]_vars
        => /\ A => A' \/ B' \/ Z'
           /\ B => B' \/ C' \/ Z'
           /\ C => C' \/ D' \/ Z'
           /\ D => D' \/ E' \/ Z'
           /\ E => E' \/ F' \/ Z'
           /\ F => F' \/ Z'
  BY OneOnward
<1>2. Inv /\ <<ThreadEnds(t)>>_vars
        => /\ A => B' \/ Z'
           /\ B => C' \/ Z'
           /\ C => D' \/ Z'
           /\ D => E' \/ Z'
           /\ E => F' \/ Z'
           /\ F => Z'
  BY EndsOnward
<1>3. NeverStuck /\ (A \/ B \/ C \/ D \/ E \/ F) => ENABLED <<ThreadEnds(t)>>_vars
  BY DEF NeverStuck, At, Deciding, Up, Live, ClaimGap, Running
<1>4. Inv /\ goal_state[t] = "EXECUTING" => A \/ B \/ C \/ D \/ E \/ F \/ Z
  BY DEF Inv, TypeOK, Placed, At, Past, Deciding, Terminal, ServerPC, Idle, ClaimGap, Running
<1>5. Fairness => ThreadRuns(t)
  BY DEF Fairness
<1> HIDE DEF A, B, C, D, E, F, Z
<1>6. Spec /\ []NeverStuck => (goal_state[t] = "EXECUTING" ~> Z)
  BY <1>1, <1>2, <1>3, <1>4, <1>5, Invariance, PTL DEF Spec, ThreadRuns
<1> QED
  BY <1>6 DEF Z, Past

===============================================================================
