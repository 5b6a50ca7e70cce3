--------------------------- MODULE TaskOrchestrator ---------------------------
(***************************************************************************)
(* robot_task::TaskOrchestrator::execute and the capability ports it       *)
(* drives.  Every task t in Task is one call of execute(), running in a    *)
(* thread of its own; pc[t] is the place it has reached.  The calls share  *)
(* the FaultManager, the cancel flag the node hands to every call, and the *)
(* task state the progress callback writes.                                *)
(*                                                                         *)
(* A port turns one step of a plan into a goal of an action server outside *)
(* this process; backend[t][i] is the life of the goal sent for step i.    *)
(* start() waits 3 s for the answer to the request and wait() 30 s for the *)
(* result: both may give up at any moment, whatever the server is doing.   *)
(*                                                                         *)
(* FaultOfStatus, GiveUpAsDone, GiveUpAsFailed, GiveUpNever,               *)
(* PlanDoneEarly, CancelForgotten, CheckFaultOmitted and NoAnswerRetried   *)
(* are faulty variants of the definitions that stand next to them; no      *)
(* action uses them.                                                       *)
(***************************************************************************)
EXTENDS Naturals, Sequences, FaultManager

CONSTANTS
  Task,        \* the calls of execute()
  Graphs,      \* the step sequences a planner can return
  MaxSteps,    \* bound on the length of a plan
  EnvFaults    \* <<mode, code>> pairs other components leave in FaultManager

Kind == {"Navigate", "Manipulate"}
StepIndex == 1 .. MaxSteps

ASSUME GraphsAssumption ==
  /\ MaxSteps \in Nat \ {0}
  /\ Graphs \subseteq Seq(Kind)
  /\ \A g \in Graphs : Len(g) \in StepIndex

ASSUME EnvFaultsAssumption == EnvFaults \subseteq FaultMode \X FaultCode

VARIABLES
  pc,                \* where each call of execute() is
  graph,             \* the plan it works on
  step,              \* i + 1 of the loop: the step in progress
  status,            \* the Status it returns, once known
  estop_active,      \* robot_state.estop_active, captured before the loop
  backend,           \* the action server's view of each step's goal
  entry,             \* does the port hold a goals_ entry for the current step?
  cancel_requested,  \* the flag execute() polls
  state,             \* what the progress callback last published
  blocked_starts,    \* history: goals sent since motion was last forbidden
  canceled_starts,   \* history: goals sent since the cancel flag went up
  late_feedback      \* history: calls whose dead frame a feedback has entered

local      == <<graph, step, estop_active>>
faultVars  == <<mode, fault_code>>
history    == <<blocked_starts, canceled_starts, late_feedback>>
orchVars   == <<pc, graph, step, status, estop_active, backend, entry,
                cancel_requested, state, history, faultVars>>

Status == {"none", "Ok", "Canceled", "RejectedBySafety", "Unavailable",
           "Timeout", "InternalError", "InvalidConfiguration"}

BackendState == {"none", "requested", "refused", "active", "cancel_asked",
                 "succeeded", "failed", "canceled"}
Outcome == {"succeeded", "failed", "canceled"}

StepState == [Navigate |-> "NAVIGATING", Manipulate |-> "MANIPULATING"]
StepFault == [Navigate |-> "NAV_FAIL",   Manipulate |-> "MANIP_FAIL"]
ProgressState == {"PLANNING", "NAVIGATING", "MANIPULATING", "DONE"}

\* The loop's places from the two polls to the request of the goal, and the
\* places of execute() as a whole.
AfterFaultCheck  == {"admit", "emit_step", "send"}
AfterCancelCheck == {"fault_check"} \cup AfterFaultCheck
ExecutePC == {"gate", "emit_plan", "plan", "cancel_check", "start_wait",
              "post_start", "waiting", "raise_code", "raise_mode", "done"}
                \cup AfterCancelCheck

-------------------------------------------------------------------------------
Goto(t, l)   == pc' = [pc EXCEPT ![t] = l]
Return(t, s) == /\ Goto(t, "returned")
                /\ status' = [status EXCEPT ![t] = s]

\* A failing step raises a fault before it returns s.
RaiseThenReturn(t, s) == /\ Goto(t, "raise_code")
                         /\ status' = [status EXCEPT ![t] = s]

Current(t)      == backend[t][step[t]]
SetCurrent(t,b) == backend' = [backend EXCEPT ![t][step[t]] = b]
CurrentKind(t)  == graph[t][step[t]]
FaultOfStatus(t) == status[t]
FaultOf(t)      == IF status[t] = "RejectedBySafety"
                     THEN "SAFETY_DENY" ELSE StepFault[CurrentKind(t)]

\* The store of the mode, with the history of sends under a forbidden motion.
StoreMode(m) ==
  /\ mode' = m
  /\ blocked_starts' = IF allows_motion /\ ~ModeAllowsMotion(m)
                         THEN [t \in Task |-> 0] ELSE blocked_starts

StoreCancel(c) ==
  /\ cancel_requested' = c
  /\ canceled_starts' = IF c /\ ~cancel_requested
                          THEN [t \in Task |-> 0] ELSE canceled_starts

Init ==
  /\ FaultInit
  /\ pc = [t \in Task |-> "idle"]
  /\ graph = [t \in Task |-> <<>>]
  /\ step = [t \in Task |-> 1]
  /\ status = [t \in Task |-> "none"]
  /\ estop_active = [t \in Task |-> FALSE]
  /\ backend = [t \in Task |-> [i \in StepIndex |-> "none"]]
  /\ entry = [t \in Task |-> FALSE]
  /\ cancel_requested = FALSE
  /\ state = "IDLE"
  /\ blocked_starts = [t \in Task |-> 0]
  /\ canceled_starts = [t \in Task |-> 0]
  /\ late_feedback = {}

-------------------------------------------------------------------------------
(* execute() before the loop.                                              *)

Call(t) ==
  /\ pc[t] = "idle"
  /\ Goto(t, "gate")
  /\ UNCHANGED <<local, status, backend, entry, cancel_requested, state,
                 history, faultVars>>

Gate(t) ==
  /\ pc[t] = "gate"
  /\ IF allows_motion THEN Goto(t, "emit_plan") /\ UNCHANGED status
                      ELSE Return(t, "RejectedBySafety")
  /\ UNCHANGED <<local, backend, entry, cancel_requested, state, history,
                 faultVars>>

EmitPlan(t) ==
  /\ pc[t] = "emit_plan"
  /\ state' = "PLANNING"
  /\ Goto(t, "plan")
  /\ UNCHANGED <<local, status, backend, entry, cancel_requested, history,
                 faultVars>>

\* The planner, and the e-stop snapshot every step of the loop is admitted on.
Plan(t) ==
  /\ pc[t] = "plan"
  /\ \/ \E g \in Graphs :
          /\ graph' = [graph EXCEPT ![t] = g]
          /\ estop_active' = [estop_active EXCEPT ![t] = (mode = "Estop")]
          /\ Goto(t, "cancel_check")
          /\ UNCHANGED status
     \/ /\ Return(t, "InvalidConfiguration")
        /\ UNCHANGED <<graph, estop_active>>
  /\ UNCHANGED <<step, backend, entry, cancel_requested, state, history,
                 faultVars>>

-------------------------------------------------------------------------------
(* One iteration of the loop.                                              *)

PlanDoneEarly(t) == step[t] >= Len(graph[t])
PlanDone(t)      == step[t] > Len(graph[t])

CheckCancel(t) ==
  /\ pc[t] = "cancel_check"
  /\ \/ /\ PlanDone(t)
        /\ Goto(t, "done") /\ UNCHANGED status
     \/ /\ ~PlanDone(t) /\ cancel_requested
        /\ Return(t, "Canceled")
     \/ /\ ~PlanDone(t) /\ ~cancel_requested
        /\ Goto(t, "fault_check") /\ UNCHANGED status
  /\ UNCHANGED <<local, backend, entry, cancel_requested, state, history,
                 faultVars>>

CheckFaultOmitted(t) ==
  /\ pc[t] = "fault_check"
  /\ Goto(t, "admit")
  /\ UNCHANGED <<local, status, backend, entry, cancel_requested, state,
                 history, faultVars>>

CheckFault(t) ==
  /\ pc[t] = "fault_check"
  /\ IF allows_motion THEN Goto(t, "admit") /\ UNCHANGED status
                      ELSE Return(t, "RejectedBySafety")
  /\ UNCHANGED <<local, backend, entry, cancel_requested, state, history,
                 faultVars>>

\* SafetyGate::admit denies under an e-stop snapshot; a policy may deny any
\* other command.
Admit(t) ==
  /\ pc[t] = "admit"
  /\ \/ ~estop_active[t] /\ Goto(t, "emit_step") /\ UNCHANGED status
     \/ RaiseThenReturn(t, "RejectedBySafety")
  /\ UNCHANGED <<local, backend, entry, cancel_requested, state, history,
                 faultVars>>

EmitStep(t) ==
  /\ pc[t] = "emit_step"
  /\ state' = StepState[CurrentKind(t)]
  /\ Goto(t, "send")
  /\ UNCHANGED <<local, status, backend, entry, cancel_requested, history,
                 faultVars>>

\* start() up to the request: the server may not be there (or the arguments
\* invalid), and then nothing is sent.
Send(t) ==
  /\ pc[t] = "send"
  /\ \/ /\ SetCurrent(t, "requested")
        /\ Goto(t, "start_wait")
        /\ blocked_starts' = IF allows_motion THEN blocked_starts
                             ELSE [blocked_starts EXCEPT ![t] = @ + 1]
        /\ canceled_starts' = IF cancel_requested
                              THEN [canceled_starts EXCEPT ![t] = @ + 1]
                              ELSE canceled_starts
        /\ UNCHANGED status
     \/ /\ RaiseThenReturn(t, "Unavailable")
        /\ UNCHANGED <<backend, blocked_starts, canceled_starts>>
  /\ UNCHANGED <<local, entry, cancel_requested, state, late_feedback,
                 faultVars>>

\* start() without an answer within 3 s: the request stays behind.
NoAnswerRetried(t) == Goto(t, "send") /\ UNCHANGED <<status, entry>>
NoAnswer(t)        == RaiseThenReturn(t, "Timeout") /\ UNCHANGED entry

\* start() once it stops waiting for the answer: accepted (and remembered in
\* goals_), refused, or without an answer.
StartReturns(t) ==
  /\ pc[t] = "start_wait"
  /\ \/ /\ Current(t) \notin {"requested", "refused"}
        /\ entry' = [entry EXCEPT ![t] = TRUE]
        /\ Goto(t, "post_start")
        /\ UNCHANGED status
     \/ /\ Current(t) = "refused"
        /\ RaiseThenReturn(t, "Unavailable")
        /\ UNCHANGED entry
     \/ NoAnswer(t)
  /\ UNCHANGED <<local, backend, cancel_requested, state, history, faultVars>>

\* cancel() of the port: a request nobody waits for, lost on a goal that ended.
CancelForgotten(t) == UNCHANGED backend
CancelGoal(t) == backend' = IF Current(t) = "active"
                            THEN [backend EXCEPT ![t][step[t]] = "cancel_asked"]
                            ELSE backend

\* The poll after start(): a canceled task asks the server to stop and leaves.
PollAfterStart(t) ==
  /\ pc[t] = "post_start"
  /\ IF cancel_requested
       THEN /\ CancelGoal(t)
            /\ Return(t, "Canceled")
       ELSE Goto(t, "waiting") /\ UNCHANGED <<backend, status>>
  /\ UNCHANGED <<local, entry, cancel_requested, state, history, faultVars>>

\* wait() without a result within 30 s: the goal goes on, the entry stays.
GiveUpNever(t)    == FALSE
GiveUpAsDone(t)   == /\ step' = [step EXCEPT ![t] = @ + 1]
                     /\ Goto(t, "cancel_check")
                     /\ UNCHANGED <<status, entry>>
GiveUpAsFailed(t) == /\ RaiseThenReturn(t, "InternalError")
                     /\ UNCHANGED <<step, entry>>
GiveUp(t)         == /\ RaiseThenReturn(t, "Timeout")
                     /\ UNCHANGED <<step, entry>>

\* wait(): the result of a finished goal erases the port's entry.
WaitReturns(t) ==
  /\ pc[t] = "waiting"
  /\ \/ /\ Current(t) = "succeeded"
        /\ step' = [step EXCEPT ![t] = @ + 1]
        /\ entry' = [entry EXCEPT ![t] = FALSE]
        /\ Goto(t, "cancel_check")
        /\ UNCHANGED status
     \/ /\ Current(t) = "failed"
        /\ entry' = [entry EXCEPT ![t] = FALSE]
        /\ RaiseThenReturn(t, "InternalError")
        /\ UNCHANGED step
     \/ /\ Current(t) = "canceled"
        /\ entry' = [entry EXCEPT ![t] = FALSE]
        /\ RaiseThenReturn(t, "Canceled")
        /\ UNCHANGED step
     \/ GiveUp(t)
  /\ UNCHANGED <<graph, estop_active, backend, cancel_requested, state,
                 history, faultVars>>

\* faults_->raise(Fault, ...): two writes.
RaiseFaultCode(t) ==
  /\ pc[t] = "raise_code"
  /\ RaiseCode(FaultOf(t))
  /\ Goto(t, "raise_mode")
  /\ UNCHANGED <<local, status, backend, entry, cancel_requested, state,
                 history, mode>>

RaiseFaultMode(t) ==
  /\ pc[t] = "raise_mode"
  /\ StoreMode("Fault")
  /\ Goto(t, "returned")
  /\ UNCHANGED <<local, status, backend, entry, cancel_requested, state,
                 canceled_starts, late_feedback, fault_code>>

Finish(t) ==
  /\ pc[t] = "done"
  /\ state' = "DONE"
  /\ Return(t, "Ok")
  /\ UNCHANGED <<local, backend, entry, cancel_requested, history, faultVars>>

Execute(t) ==
  \/ Gate(t) \/ EmitPlan(t) \/ Plan(t)
  \/ CheckCancel(t) \/ CheckFault(t) \/ Admit(t) \/ EmitStep(t)
  \/ Send(t) \/ StartReturns(t) \/ PollAfterStart(t) \/ WaitReturns(t)
  \/ RaiseFaultCode(t) \/ RaiseFaultMode(t) \/ Finish(t)

-------------------------------------------------------------------------------
(* The action servers behind the ports, and the feedback they send.        *)

\* The server takes or refuses a request, also one start() gave up on.
BackendAnswers(t, i) ==
  /\ backend[t][i] = "requested"
  /\ \E b \in {"active", "refused"} : backend' = [backend EXCEPT ![t][i] = b]
  /\ UNCHANGED <<pc, local, status, entry, cancel_requested, state, history,
                 faultVars>>

\* A goal ends; another client of the server may have canceled it.
BackendEnds(t, i) ==
  /\ backend[t][i] \in {"active", "cancel_asked"}
  /\ \E b \in Outcome : backend' = [backend EXCEPT ![t][i] = b]
  /\ UNCHANGED <<pc, local, status, entry, cancel_requested, state, history,
                 faultVars>>

\* The port calls the feedback lambda while it still holds the goal: during
\* start() (the future holds it) or as long as goals_ has an entry.
FeedbackPossible(t) ==
  /\ entry[t] \/ pc[t] = "start_wait"
  /\ Current(t) \in {"active", "cancel_asked"}

FrameAlive(t) == pc[t] \in ExecutePC

Feedback(t) ==
  /\ FeedbackPossible(t)
  /\ FrameAlive(t)
  /\ state' = StepState[CurrentKind(t)]
  /\ UNCHANGED <<pc, local, status, backend, entry, cancel_requested, history,
                 faultVars>>

\* The lambda holds references into the frame of execute().  Once that frame
\* is gone the call is undefined: nothing visible happens, or the progress
\* callback still runs.
LateFeedback(t) ==
  /\ FeedbackPossible(t)
  /\ ~FrameAlive(t)
  /\ \/ state' = StepState[CurrentKind(t)]
     \/ UNCHANGED state
  /\ late_feedback' = late_feedback \cup {t}
  /\ UNCHANGED <<pc, local, status, backend, entry, cancel_requested,
                 blocked_starts, canceled_starts, faultVars>>

BackendStep == \E t \in Task, i \in StepIndex :
                 BackendAnswers(t, i) \/ BackendEnds(t, i)

-------------------------------------------------------------------------------
(* The environment of a standalone orchestrator: whoever holds the cancel  *)
(* flag, and the other users of the FaultManager.                          *)

CallerSetsFlag ==
  /\ \E c \in BOOLEAN : StoreCancel(c)
  /\ UNCHANGED <<pc, local, status, backend, entry, state, blocked_starts,
                 late_feedback, faultVars>>

OtherFaults ==
  /\ \E f \in EnvFaults : StoreMode(f[1]) /\ fault_code' = f[2]
  /\ UNCHANGED <<pc, local, status, backend, entry, cancel_requested, state,
                 canceled_starts, late_feedback>>

\* Every call has returned.
AllReturned == (\A t \in Task : pc[t] = "returned") /\ UNCHANGED orchVars

Next ==
  \/ \E t \in Task : Call(t) \/ Execute(t) \/ Feedback(t) \/ LateFeedback(t)
  \/ BackendStep
  \/ CallerSetsFlag
  \/ OtherFaults
  \/ AllReturned

\* Each call runs in a thread the operating system schedules, and both waits
\* of a port are bounded; nothing is assumed of the servers.
CallRuns(t) == WF_orchVars(Execute(t))

Fairness == \A t \in Task : CallRuns(t)

Spec == Init /\ [][Next]_orchVars /\ Fairness

-------------------------------------------------------------------------------
(* Properties.                                                             *)

TypeOK ==
  /\ FaultTypeOK
  /\ pc \in [Task -> ExecutePC \cup {"idle", "returned"}]
  /\ graph \in [Task -> Graphs \cup {<<>>}]
  /\ step \in [Task -> 1 .. MaxSteps + 1]
  /\ status \in [Task -> Status]
  /\ estop_active \in [Task -> BOOLEAN]
  /\ backend \in [Task -> [StepIndex -> BackendState]]
  /\ entry \in [Task -> BOOLEAN]
  /\ cancel_requested \in BOOLEAN
  /\ state \in ProgressState \cup {"IDLE"}
  /\ blocked_starts \in [Task -> Nat]
  /\ canceled_starts \in [Task -> Nat]
  /\ late_feedback \subseteq Task

\* The steps of a plan run one after the other: a goal is sent for a step only
\* once the goals of all earlier steps have succeeded, whatever the servers,
\* time-outs and cancellations do in between; and execute() answers Ok only for a
\* plan whose every step the servers report as succeeded, so that no time-out,
\* refusal or late answer is taken for a success.
StepsInOrder ==
  /\ \A t \in Task, i \in StepIndex :
       backend[t][i] # "none" => \A j \in 1 .. i - 1 : backend[t][j] = "succeeded"
  /\ \A t \in Task :
       status[t] = "Ok" => /\ graph[t] # <<>>
                           /\ \A i \in 1 .. Len(graph[t]) : backend[t][i] = "succeeded"

\* A plan is followed to the letter: the variables have their types, the faults that
\* are raised for failing steps among them, and the steps run in order.
PlanFollowed == TypeOK /\ StepsInOrder

\* A goal that is still running (or may still be accepted) after execute() gave
\* up on it, without having been asked to cancel, is the mark of a time-out of
\* start() or wait(): on every other return path the goal has ended or has been
\* told to stop.
OrphanOnlyAfterTimeout ==
  \A t \in Task, i \in StepIndex :
    /\ pc[t] \in {"raise_code", "raise_mode", "returned"}
    /\ backend[t][i] \in {"requested", "active"}
    => status[t] = "Timeout"

\* A feedback callback enters the dead frame of execute() only for a task that
\* left a goal behind: by a time-out of wait() or by a cancellation.
LateFeedbackCause ==
  \A t \in late_feedback : status[t] \in {"Timeout", "Canceled"}

\* However the calls and the stops interleave, a call of execute() sends at most
\* one more goal while motion stays forbidden, and at most one while the cancel
\* flag stays up: the polls at the head of the loop are the only ones, so the step
\* between a poll and start() slips through, and nothing after it.
OneStartAfterStop ==
  /\ ~allows_motion => \A t \in Task : blocked_starts[t] <= 1
  /\ cancel_requested => \A t \in Task : canceled_starts[t] <= 1

\* What is left of a call, counted in steps of its thread: eight for each step of
\* the plan that is still to come, and those to the end from where it is.
WorkLeft(t) ==
  8 * (MaxSteps + 1 - step[t])
    + CASE pc[t] = "returned"     -> 0  [] pc[t] = "raise_mode"   -> 1
        [] pc[t] = "done"         -> 1  [] pc[t] = "raise_code"   -> 2
        [] pc[t] = "waiting"      -> 3  [] pc[t] = "post_start"   -> 4
        [] pc[t] = "start_wait"   -> 5  [] pc[t] = "send"         -> 6
        [] pc[t] = "emit_step"    -> 7  [] pc[t] = "admit"        -> 8
        [] pc[t] = "fault_check"  -> 9  [] pc[t] = "cancel_check" -> 10
        [] pc[t] = "plan"         -> 11 [] pc[t] = "emit_plan"    -> 12
        [] pc[t] = "gate"         -> 13 [] pc[t] = "idle"         -> 14

\* execute() cannot go on for ever: no retry, no answer of a server and no poll
\* sends a call back.  Every step of its thread brings it nearer to its return,
\* nobody else's step takes it away from there, and so a call has returned after at
\* most 8 * MaxSteps + 13 steps of its own.
BoundedWork ==
  [][\A t \in Task : /\ WorkLeft(t)' \in 0 .. WorkLeft(t)
                     /\ Execute(t) => WorkLeft(t)' < WorkLeft(t)]_orchVars

\* Nothing holds a call for good, neither a server that never answers nor the state the
\* calls share: wherever in execute() it is, its thread can take its next step.
NeverStuck ==
  \A t \in Task : pc[t] \in ExecutePC => ENABLED <<Execute(t)>>_orchVars

-------------------------------------------------------------------------------
\* The caller's view of a call.
Phase(t) == CASE pc[t] = "idle" -> "idle"
              [] pc[t] = "returned" -> "returned"
              [] OTHER -> "working"

Answered(t) == IF pc[t] # "returned" THEN "none"
               ELSE IF status[t] \in {"Ok", "Canceled"} THEN status[t] ELSE "Failed"

CanceledOutside(t) == /\ pc[t] = "returned" /\ status[t] = "Canceled"
                      /\ step[t] \in StepIndex /\ ~entry[t]
                      /\ Current(t) = "canceled"

Contract == INSTANCE ExecuteContract WITH
  phase          <- [t \in Task |-> Phase(t)],
  status         <- [t \in Task |-> Answered(t)],
  left_behind    <- [t \in Task |-> ~FrameAlive(t) /\ FeedbackPossible(t)],
  outside_cancel <- [t \in Task |-> CanceledOutside(t)]

\* The orchestrator implements the contract the node is built on: a call answers
\* once, Canceled only for a raised flag or a goal canceled outside, leaves a
\* reachable feedback behind only after a cancellation or a failure, and returns.
ImplementsContract == Contract!ContractSpec

-------------------------------------------------------------------------------
\* What the ports see of a step: start() has been called for it, and has failed or
\* been answered; a step execute() gave up before start() is none of theirs.
PortAnswered(t, i) ==
  /\ pc[t] \in {"raise_code", "raise_mode", "returned"}
  /\ \/ status[t] \in {"Unavailable", "Timeout", "InternalError"}
     \/ status[t] = "Canceled" /\ backend[t][i] # "none"

PortPhase(t, i) ==
  CASE i < step[t]                                      -> "done"
    [] i = step[t] /\ pc[t] \in {"send", "start_wait"}  -> "starting"
    [] i = step[t] /\ pc[t] = "post_start"              -> "started"
    [] i = step[t] /\ pc[t] = "waiting"                 -> "waiting"
    [] i = step[t] /\ PortAnswered(t, i)                -> "done"
    [] OTHER                                            -> "idle"

PortStatus(t, i) ==
  CASE i < step[t]                       -> "Ok"
    [] i = step[t] /\ PortAnswered(t, i) ->
         IF status[t] \in {"Timeout", "Canceled"} THEN status[t] ELSE "Failed"
    [] OTHER                             -> "none"

PortMotion(t, i) ==
  CASE backend[t][i] \in {"none", "requested", "refused"} -> "none"
    [] backend[t][i] \in {"active", "cancel_asked"}       -> "running"
    [] OTHER                                              -> backend[t][i]

PortCall == Task \X StepIndex

Ports == INSTANCE CapabilityPort WITH
  phase  <- [c \in PortCall |-> PortPhase(c[1], c[2])],
  motion <- [c \in PortCall |-> PortMotion(c[1], c[2])],
  status <- [c \in PortCall |-> PortStatus(c[1], c[2])]

\* execute() drives every port the way the interface of a port is written to be
\* used, which is what the adapters are modelled under: one start for a step, then
\* one cancel or one wait on a goal that start returned, never a second start, and
\* nothing for a step of a call that has ended.
UsesPorts == Ports!PortSpec

===============================================================================
