------------------------ MODULE TaskOrchestrator_proofs ------------------------
(***************************************************************************)
(* Proofs about TaskOrchestrator, for any number of concurrent calls of    *)
(* execute(), any plans and any faults of the other components.  The       *)
(* argument has layers, each an inductive invariant that uses the one      *)
(* before: where a call is and what its variables hold there (Placed),     *)
(* what the polls of the loop bound (Polled), what the servers hold of the *)
(* plan (Served), who may still be heard of once a call has returned       *)
(* (Heard), and what a call that answers Canceled was told (Told).  On the *)
(* last rests the simulation of ExecuteContract.  Two results need the     *)
(* first layers only: the simulation of CapabilityPort, one port at a      *)
(* time, and the bound on the work of a call, which makes every call with  *)
(* work left have less of it in the end.                                   *)
(***************************************************************************)
EXTENDS TaskOrchestrator, TLAPS

BeforeLoop == {"idle", "gate", "emit_plan", "plan"}
InStep     == AfterCancelCheck \cup {"start_wait", "post_start", "waiting"}
Raising    == {"raise_code", "raise_mode"}

\* The plan, the step and the port's entry that fit a place l.
Fits(l, g, s, e) ==
  /\ l \in BeforeLoop => g = <<>> /\ s = 1
  /\ l \in InStep \cup Raising => g \in Graphs /\ s \in 1 .. Len(g)
  /\ l = "cancel_check" => g \in Graphs /\ s \in 1 .. Len(g) + 1
  /\ l = "done" => g \in Graphs /\ s = Len(g) + 1
  /\ e => /\ l \in {"post_start", "waiting", "returned"} \cup Raising
          /\ g \in Graphs /\ s \in 1 .. Len(g)

PlacedAt(t) == Fits(pc[t], graph[t], step[t], entry[t])

Placed == TypeOK /\ \A t \in Task : PlacedAt(t)

\* A plan has a step, and no more steps than MaxSteps.
LEMMA PlanLength ==
  ASSUME NEW g \in Graphs
  PROVE  Len(g) \in Nat /\ Len(g) >= 1 /\ Len(g) <= MaxSteps
BY GraphsAssumption DEF StepIndex

\* The kind of the step in progress is one of the two kinds of steps.
LEMMA StepKind ==
  ASSUME NEW t \in Task, graph[t] \in Graphs, step[t] \in 1 .. Len(graph[t])
  PROVE  CurrentKind(t) \in Kind
BY GraphsAssumption DEF CurrentKind

\* What the progress callback publishes for a step and the code of its fault are
\* values of the task state and of the FaultManager.
LEMMA StepValues ==
  ASSUME NEW k \in Kind
  PROVE  StepState[k] \in ProgressState /\ StepFault[k] \in FaultCode
BY DEF Kind, StepState, StepFault, ProgressState, FaultCode, TaskCode

-------------------------------------------------------------------------------
(* Layer 1: places and types.                                              *)

\* A store into the current step's goal keeps the type of the servers' states.
LEMMA GoalStored ==
  ASSUME TypeOK, NEW t \in Task, NEW b \in BackendState, NEW i,
         backend' = [backend EXCEPT ![t][i] = b]
  PROVE  backend' \in [Task -> [StepIndex -> BackendState]]
<1>1. backend[t] \in [StepIndex -> BackendState]
  BY DEF TypeOK
<1>2. [backend[t] EXCEPT ![i] = b] \in [StepIndex -> BackendState]
  BY <1>1
<1> QED
  BY <1>2 DEF TypeOK

\* Counting a goal sent keeps a counter a counter.
LEMMA CountUp ==
  ASSUME NEW f \in [Task -> Nat], NEW t \in Task
  PROVE  [f EXCEPT ![t] = @ + 1] \in [Task -> Nat]
OBVIOUS

\* A step of a call keeps the types of its own variables.
LEMMA CallTypes ==
  ASSUME Placed, NEW t \in Task, Call(t) \/ Execute(t)
  PROVE  /\ pc' \in [Task -> ExecutePC \cup {"idle", "returned"}]
         /\ graph' \in [Task -> Graphs \cup {<<>>}]
         /\ step' \in [Task -> 1 .. MaxSteps + 1]
         /\ status' \in [Task -> Status]
         /\ estop_active' \in [Task -> BOOLEAN]
<1> USE DEF TypeOK, local, ExecutePC, AfterCancelCheck, AfterFaultCheck, Status
<1>0. TypeOK
  BY DEF Placed
<1>1. CASE Call(t)
  BY <1>0, <1>1 DEF Call, Goto
<1>2. CASE Gate(t)
  BY <1>0, <1>2 DEF Gate, Goto, Return
<1>3. CASE EmitPlan(t)
  BY <1>0, <1>3 DEF EmitPlan, Goto
<1>4. CASE Plan(t)
  <2>1. /\ pc' \in [Task -> ExecutePC \cup {"idle", "returned"}]
        /\ graph' \in [Task -> Graphs \cup {<<>>}]
        /\ status' \in [Task -> Status]
    <3>1. CASE \E g \in Graphs : /\ graph' = [graph EXCEPT ![t] = g]
                                 /\ Goto(t, "cancel_check")
                                 /\ UNCHANGED status
      BY <1>0, <3>1 DEF Goto
    <3>2. CASE Return(t, "InvalidConfiguration") /\ UNCHANGED graph
      BY <1>0, <3>2 DEF Goto, Return
    <3> QED
      BY <1>4, <3>1, <3>2 DEF Plan
  <2>2. (mode = "Estop") \in BOOLEAN
    OBVIOUS
  <2>3. \/ estop_active' = [estop_active EXCEPT ![t] = (mode = "Estop")]
        \/ estop_active' = estop_active
    BY <1>4 DEF Plan
  <2>4. estop_active' \in [Task -> BOOLEAN]
    BY <1>0, <2>2, <2>3, Zenon
  <2>5. UNCHANGED step
    BY <1>4 DEF Plan
  <2> QED
    BY <1>0, <2>1, <2>4, <2>5
<1>5. CASE CheckCancel(t)
  BY <1>0, <1>5 DEF CheckCancel, PlanDone, Goto, Return
<1>6. CASE CheckFault(t)
  BY <1>0, <1>6 DEF CheckFault, Goto, Return
<1>7. CASE Admit(t)
  BY <1>0, <1>7 DEF Admit, Goto, RaiseThenReturn
<1>8. CASE EmitStep(t)
  BY <1>0, <1>8 DEF EmitStep, Goto
<1>9. CASE Send(t)
  BY <1>0, <1>9 DEF Send, Goto, RaiseThenReturn
<1>10. CASE StartReturns(t)
  BY <1>0, <1>10 DEF StartReturns, NoAnswer, Goto, RaiseThenReturn
<1>11. CASE PollAfterStart(t)
  BY <1>0, <1>11 DEF PollAfterStart, CancelGoal, Goto, Return
<1>12. CASE WaitReturns(t)
  <2>1. pc[t] = "waiting" /\ step[t] + 1 \in 1 .. MaxSteps + 1
    <3>1. /\ pc[t] = "waiting" /\ graph[t] \in Graphs
          /\ step[t] \in 1 .. Len(graph[t])
      BY <1>12 DEF WaitReturns, GiveUp, Placed, PlacedAt, Fits, InStep
    <3> QED
      BY <3>1, PlanLength, GraphsAssumption
  <2>2. step' \in [Task -> 1 .. MaxSteps + 1]
    <3>0. step \in [Task -> 1 .. MaxSteps + 1]
      BY <1>0
    <3>1. CASE step' = [step EXCEPT ![t] = step[t] + 1]
      BY <2>1, <3>0, <3>1
    <3>2. CASE step' = step
      BY <3>0, <3>2
    <3> QED
      BY <1>12, <3>1, <3>2 DEF WaitReturns, GiveUp
  <2> QED
    BY <1>0, <1>12, <2>2 DEF WaitReturns, GiveUp, Goto, RaiseThenReturn
<1>13. CASE RaiseFaultCode(t)
  BY <1>0, <1>13 DEF RaiseFaultCode, Goto
<1>14. CASE RaiseFaultMode(t)
  BY <1>0, <1>14 DEF RaiseFaultMode, Goto
<1>15. CASE Finish(t)
  BY <1>0, <1>15 DEF Finish, Goto, Return
<1> QED
  BY <1>1, <1>2, <1>3, <1>4, <1>5, <1>6, <1>7, <1>8, <1>9, <1>10, <1>11,
     <1>12, <1>13, <1>14, <1>15 DEF Execute

\* A call that moves to a place its new plan, step and entry fit leaves every
\* call at such a place.
LEMMA MoveWith ==
  ASSUME Placed, NEW t \in Task, NEW l, NEW g, NEW s, NEW e, Fits(l, g, s, e),
         pc' = [pc EXCEPT ![t] = l], graph' = [graph EXCEPT ![t] = g],
         step' = [step EXCEPT ![t] = s], entry' = [entry EXCEPT ![t] = e]
  PROVE  \A u \in Task : PlacedAt(u)'
<1> TAKE u \in Task
<1>1. /\ pc'[u] = IF u = t THEN l ELSE pc[u]
      /\ graph'[u] = IF u = t THEN g ELSE graph[u]
      /\ step'[u] = IF u = t THEN s ELSE step[u]
      /\ entry'[u] = IF u = t THEN e ELSE entry[u]
  BY DEF Placed, TypeOK
<1>2. Fits(pc'[u], graph'[u], step'[u], entry'[u])
  <2>1. CASE u = t
    BY <1>1, <2>1
  <2>2. CASE u # t
    <3>1. Fits(pc[u], graph[u], step[u], entry[u])
      BY DEF Placed, PlacedAt
    <3> QED
      BY <1>1, <2>2, <3>1
  <2> QED
    BY <2>1, <2>2
<1> QED
  BY <1>2 DEF PlacedAt

\* The same where only the place changes.
LEMMA Move ==
  ASSUME Placed, NEW t \in Task, NEW l,
         pc' = [pc EXCEPT ![t] = l], UNCHANGED <<graph, step, entry>>,
         Fits(l, graph[t], step[t], entry[t])
  PROVE  \A u \in Task : PlacedAt(u)'
<1> TAKE u \in Task
<1>1. pc'[u] = IF u = t THEN l ELSE pc[u]
  BY DEF Placed, TypeOK
<1>2. Fits(pc[u], graph[u], step[u], entry[u])
  BY DEF Placed, PlacedAt
<1>3. Fits(pc'[u], graph[u], step[u], entry[u])
  BY <1>1, <1>2
<1> QED
  BY <1>3 DEF PlacedAt

\* A step of a call leads it, and no other call, to a place its plan fits.
LEMMA CallPlaces ==
  ASSUME Placed, NEW t \in Task, Call(t) \/ Execute(t)
  PROVE  \A u \in Task : PlacedAt(u)'
<1> USE DEF PlacedAt, Fits, local, AfterCancelCheck, AfterFaultCheck,
            BeforeLoop, InStep, Raising
<1>0. TypeOK /\ \A u \in Task : PlacedAt(u)
  BY DEF Placed
<1>1. CASE Call(t)
  <2>1. /\ pc[t] = "idle" /\ pc' = [pc EXCEPT ![t] = "gate"]
        /\ UNCHANGED <<graph, step, entry>>
    BY <1>1 DEF Call, Goto
  <2>2. Fits("gate", graph[t], step[t], entry[t])
    BY <1>0, <2>1
  <2> HIDE DEF Fits
  <2> QED
    BY <2>1, <2>2, Move
<1>2. CASE Gate(t)
  <2>1. /\ pc[t] = "gate" /\ UNCHANGED <<graph, step, entry>>
        /\ \/ pc' = [pc EXCEPT ![t] = "emit_plan"]
           \/ pc' = [pc EXCEPT ![t] = "returned"]
    BY <1>2 DEF Gate, Goto, Return
  <2>2. /\ Fits("emit_plan", graph[t], step[t], entry[t])
        /\ Fits("returned", graph[t], step[t], entry[t])
    BY <1>0, <2>1
  <2> HIDE DEF Fits
  <2> QED
    BY <2>1, <2>2, Move
<1>3. CASE EmitPlan(t)
  <2>1. /\ pc[t] = "emit_plan" /\ pc' = [pc EXCEPT ![t] = "plan"]
        /\ UNCHANGED <<graph, step, entry>>
    BY <1>3 DEF EmitPlan, Goto
  <2>2. Fits("plan", graph[t], step[t], entry[t])
    BY <1>0, <2>1
  <2> HIDE DEF Fits
  <2> QED
    BY <2>1, <2>2, Move
<1>4. CASE Plan(t)
  <2>0. /\ pc[t] = "plan" /\ UNCHANGED <<step, entry>>
        /\ step[t] = 1 /\ ~entry[t]
    BY <1>0, <1>4 DEF Plan
  <2>1. CASE \E g \in Graphs : /\ graph' = [graph EXCEPT ![t] = g]
                               /\ Goto(t, "cancel_check")
    <3> PICK g \in Graphs : /\ graph' = [graph EXCEPT ![t] = g]
                            /\ Goto(t, "cancel_check")
      BY <2>1
    <3>1. Fits("cancel_check", g, step[t], entry[t])
      BY <2>0, PlanLength
    <3>2. /\ step' = [step EXCEPT ![t] = step[t]]
          /\ entry' = [entry EXCEPT ![t] = entry[t]]
      BY <1>0, <2>0 DEF TypeOK
    <3> HIDE DEF Fits
    <3> QED
      BY <3>1, <3>2, MoveWith DEF Goto
  <2>2. CASE Return(t, "InvalidConfiguration") /\ UNCHANGED graph
    <3>1. Fits("returned", graph[t], step[t], entry[t])
      BY <2>0
    <3> HIDE DEF Fits
    <3> QED
      BY <2>0, <2>2, <3>1, Move DEF Return, Goto
  <2> QED
    BY <1>4, <2>1, <2>2 DEF Plan
<1>5. CASE CheckCancel(t)
  <2>1. /\ pc[t] = "cancel_check" /\ UNCHANGED <<graph, step, entry>>
        /\ \/ PlanDone(t) /\ pc' = [pc EXCEPT ![t] = "done"]
           \/ ~PlanDone(t) /\ pc' = [pc EXCEPT ![t] = "fault_check"]
           \/ pc' = [pc EXCEPT ![t] = "returned"]
    BY <1>5 DEF CheckCancel, Goto, Return
  <2>2. graph[t] \in Graphs /\ step[t] \in 1 .. Len(graph[t]) + 1 /\ ~entry[t]
    BY <1>0, <2>1
  <2>3. Len(graph[t]) \in Nat
    BY <2>2, PlanLength
  <2>4. PlanDone(t) => Fits("done", graph[t], step[t], entry[t])
    BY <2>2, <2>3 DEF PlanDone
  <2>5. ~PlanDone(t) => Fits("fault_check", graph[t], step[t], entry[t])
    BY <2>2, <2>3 DEF PlanDone
  <2>6. Fits("returned", graph[t], step[t], entry[t])
    BY <2>2
  <2> HIDE DEF Fits
  <2> QED
    BY <2>1, <2>4, <2>5, <2>6, Move
<1>6. CASE CheckFault(t)
  <2>1. /\ pc[t] = "fault_check" /\ UNCHANGED <<graph, step, entry>>
        /\ \/ pc' = [pc EXCEPT ![t] = "admit"]
           \/ pc' = [pc EXCEPT ![t] = "returned"]
    BY <1>6 DEF CheckFault, Goto, Return
  <2>2. /\ Fits("admit", graph[t], step[t], entry[t])
        /\ Fits("returned", graph[t], step[t], entry[t])
    BY <1>0, <2>1
  <2> HIDE DEF Fits
  <2> QED
    BY <2>1, <2>2, Move
<1>7. CASE Admit(t)
  <2>1. /\ pc[t] = "admit" /\ UNCHANGED <<graph, step, entry>>
        /\ \/ pc' = [pc EXCEPT ![t] = "emit_step"]
           \/ pc' = [pc EXCEPT ![t] = "raise_code"]
    BY <1>7 DEF Admit, Goto, RaiseThenReturn
  <2>2. /\ Fits("emit_step", graph[t], step[t], entry[t])
        /\ Fits("raise_code", graph[t], step[t], entry[t])
    BY <1>0, <2>1
  <2> HIDE DEF Fits
  <2> QED
    BY <2>1, <2>2, Move
<1>8. CASE EmitStep(t)
  <2>1. /\ pc[t] = "emit_step" /\ pc' = [pc EXCEPT ![t] = "send"]
        /\ UNCHANGED <<graph, step, entry>>
    BY <1>8 DEF EmitStep, Goto
  <2>2. Fits("send", graph[t], step[t], entry[t])
    BY <1>0, <2>1
  <2> HIDE DEF Fits
  <2> QED
    BY <2>1, <2>2, Move
<1>9. CASE Send(t)
  <2>1. /\ pc[t] = "send" /\ UNCHANGED <<graph, step, entry>>
        /\ \/ pc' = [pc EXCEPT ![t] = "start_wait"]
           \/ pc' = [pc EXCEPT ![t] = "raise_code"]
    BY <1>9 DEF Send, Goto, RaiseThenReturn
  <2>2. /\ Fits("start_wait", graph[t], step[t], entry[t])
        /\ Fits("raise_code", graph[t], step[t], entry[t])
    BY <1>0, <2>1
  <2> HIDE DEF Fits
  <2> QED
    BY <2>1, <2>2, Move
<1>10. CASE StartReturns(t)
  <2>1. /\ pc[t] = "start_wait" /\ UNCHANGED <<graph, step>>
        /\ \/ /\ pc' = [pc EXCEPT ![t] = "post_start"]
              /\ entry' = [entry EXCEPT ![t] = TRUE]
           \/ /\ pc' = [pc EXCEPT ![t] = "raise_code"]
              /\ UNCHANGED entry
    BY <1>10 DEF StartReturns, NoAnswer, Goto, RaiseThenReturn
  <2>2. graph[t] \in Graphs /\ step[t] \in 1 .. Len(graph[t])
    BY <1>0, <2>1
  <2>3. /\ Fits("post_start", graph[t], step[t], TRUE)
        /\ Fits("raise_code", graph[t], step[t], entry[t])
    BY <2>2
  <2>4. /\ graph' = [graph EXCEPT ![t] = graph[t]]
        /\ step' = [step EXCEPT ![t] = step[t]]
    BY <1>0, <2>1 DEF TypeOK
  <2> HIDE DEF Fits
  <2>5. CASE /\ pc' = [pc EXCEPT ![t] = "post_start"]
             /\ entry' = [entry EXCEPT ![t] = TRUE]
    BY <2>3, <2>4, <2>5, MoveWith
  <2>6. CASE pc' = [pc EXCEPT ![t] = "raise_code"] /\ UNCHANGED entry
    BY <2>1, <2>3, <2>6, Move
  <2> QED
    BY <2>1, <2>5, <2>6
<1>11. CASE PollAfterStart(t)
  <2>1. /\ pc[t] = "post_start" /\ UNCHANGED <<graph, step, entry>>
        /\ \/ pc' = [pc EXCEPT ![t] = "waiting"]
           \/ pc' = [pc EXCEPT ![t] = "returned"]
    BY <1>11 DEF PollAfterStart, Goto, Return
  <2>2. /\ Fits("waiting", graph[t], step[t], entry[t])
        /\ Fits("returned", graph[t], step[t], entry[t])
    BY <1>0, <2>1
  <2> HIDE DEF Fits
  <2> QED
    BY <2>1, <2>2, Move
<1>12. CASE WaitReturns(t)
  <2>1. /\ pc[t] = "waiting" /\ UNCHANGED graph
        /\ \/ /\ step' = [step EXCEPT ![t] = @ + 1]
              /\ entry' = [entry EXCEPT ![t] = FALSE]
              /\ pc' = [pc EXCEPT ![t] = "cancel_check"]
           \/ /\ UNCHANGED step
              /\ entry' = [entry EXCEPT ![t] = FALSE] \/ UNCHANGED entry
              /\ pc' = [pc EXCEPT ![t] = "raise_code"]
    BY <1>12 DEF WaitReturns, GiveUp, Goto, RaiseThenReturn
  <2>2. graph[t] \in Graphs /\ step[t] \in 1 .. Len(graph[t])
    BY <1>0, <2>1
  <2>3. step[t] + 1 \in 1 .. Len(graph[t]) + 1
    BY <2>2, PlanLength
  <2>4. /\ Fits("cancel_check", graph[t], step[t] + 1, FALSE)
        /\ Fits("raise_code", graph[t], step[t], FALSE)
        /\ Fits("raise_code", graph[t], step[t], entry[t])
    BY <2>2, <2>3
  <2>5. graph' = [graph EXCEPT ![t] = graph[t]]
    BY <1>0, <2>1 DEF TypeOK
  <2> HIDE DEF Fits
  <2>6. CASE /\ step' = [step EXCEPT ![t] = @ + 1]
             /\ entry' = [entry EXCEPT ![t] = FALSE]
             /\ pc' = [pc EXCEPT ![t] = "cancel_check"]
    <3>1. step' = [step EXCEPT ![t] = step[t] + 1]
      BY <2>6
    <3> QED
      BY <2>4, <2>5, <2>6, <3>1, MoveWith
  <2>7. CASE /\ UNCHANGED step /\ entry' = [entry EXCEPT ![t] = FALSE]
             /\ pc' = [pc EXCEPT ![t] = "raise_code"]
    <3>1. step' = [step EXCEPT ![t] = step[t]]
      BY <1>0, <2>7 DEF TypeOK
    <3> QED
      BY <2>4, <2>5, <2>7, <3>1, MoveWith
  <2>8. CASE UNCHANGED <<step, entry>> /\ pc' = [pc EXCEPT ![t] = "raise_code"]
    BY <2>1, <2>4, <2>8, Move
  <2> QED
    BY <2>1, <2>6, <2>7, <2>8
<1>13. CASE RaiseFaultCode(t)
  <2>1. /\ pc[t] = "raise_code" /\ pc' = [pc EXCEPT ![t] = "raise_mode"]
        /\ UNCHANGED <<graph, step, entry>>
    BY <1>13 DEF RaiseFaultCode, Goto
  <2>2. Fits("raise_mode", graph[t], step[t], entry[t])
    BY <1>0, <2>1
  <2> HIDE DEF Fits
  <2> QED
    BY <2>1, <2>2, Move
<1>14. CASE RaiseFaultMode(t)
  <2>1. /\ pc[t] = "raise_mode" /\ pc' = [pc EXCEPT ![t] = "returned"]
        /\ UNCHANGED <<graph, step, entry>>
    BY <1>14 DEF RaiseFaultMode, Goto
  <2>2. Fits("returned", graph[t], step[t], entry[t])
    BY <1>0, <2>1
  <2> HIDE DEF Fits
  <2> QED
    BY <2>1, <2>2, Move
<1>15. CASE Finish(t)
  <2>1. /\ pc[t] = "done" /\ pc' = [pc EXCEPT ![t] = "returned"]
        /\ UNCHANGED <<graph, step, entry>>
    BY <1>15 DEF Finish, Goto, Return
  <2>2. Fits("returned", graph[t], step[t], entry[t])
    BY <1>0, <2>1
  <2> HIDE DEF Fits
  <2> QED
    BY <2>1, <2>2, Move
<1> QED
  BY <1>1, <1>2, <1>3, <1>4, <1>5, <1>6, <1>7, <1>8, <1>9, <1>10, <1>11,
     <1>12, <1>13, <1>14, <1>15 DEF Execute

\* A step of a call keeps the types of the variables it shares with others.
LEMMA SharedTypes ==
  ASSUME Placed, NEW t \in Task, Call(t) \/ Execute(t)
  PROVE  /\ FaultTypeOK'
         /\ backend' \in [Task -> [StepIndex -> BackendState]]
         /\ entry' \in [Task -> BOOLEAN]
         /\ cancel_requested' \in BOOLEAN
         /\ state' \in ProgressState \cup {"IDLE"}
         /\ blocked_starts' \in [Task -> Nat]
         /\ canceled_starts' \in [Task -> Nat]
         /\ late_feedback' \subseteq Task
<1>0. TypeOK /\ PlacedAt(t)
  BY DEF Placed
<1>g. \A b \in BackendState : SetCurrent(t, b) =>
        backend' \in [Task -> [StepIndex -> BackendState]]
  BY <1>0, GoalStored DEF SetCurrent
<1>c. /\ blocked_starts \in [Task -> Nat] /\ canceled_starts \in [Task -> Nat]
      /\ [blocked_starts EXCEPT ![t] = @ + 1] \in [Task -> Nat]
      /\ [canceled_starts EXCEPT ![t] = @ + 1] \in [Task -> Nat]
  BY <1>0, CountUp DEF TypeOK
<1>b. "requested" \in BackendState /\ "cancel_asked" \in BackendState
  BY DEF BackendState
<1> USE DEF TypeOK, FaultTypeOK, faultVars, history
<1>1. CASE Call(t) \/ Gate(t) \/ EmitPlan(t) \/ Plan(t) \/ Finish(t)
  BY <1>0, <1>1 DEF Call, Gate, EmitPlan, Plan, Finish, ProgressState
<1>2. CASE CheckCancel(t) \/ CheckFault(t) \/ Admit(t)
  BY <1>0, <1>2 DEF CheckCancel, PlanDone, CheckFault, Admit
<1>3. CASE EmitStep(t)
  <2>1. CurrentKind(t) \in Kind
    BY <1>0, <1>3, StepKind
       DEF EmitStep, PlacedAt, Fits, InStep, AfterCancelCheck, AfterFaultCheck
  <2>2. state' \in ProgressState
    BY <1>3, <2>1, StepValues DEF EmitStep
  <2> QED
    BY <1>0, <1>3, <2>2 DEF EmitStep
<1>4. CASE Send(t)
  <2>1. CASE /\ SetCurrent(t, "requested")
             /\ \/ blocked_starts' = blocked_starts
                \/ blocked_starts' = [blocked_starts EXCEPT ![t] = @ + 1]
             /\ \/ canceled_starts' = canceled_starts
                \/ canceled_starts' = [canceled_starts EXCEPT ![t] = @ + 1]
    <3>1. backend' \in [Task -> [StepIndex -> BackendState]]
      BY <1>b, <1>g, <2>1
    <3>2. blocked_starts' \in [Task -> Nat]
      BY <1>c, <2>1
    <3>3. canceled_starts' \in [Task -> Nat]
      BY <1>c, <2>1
    <3>4. UNCHANGED <<entry, cancel_requested, state, late_feedback, mode,
                      fault_code>>
      BY <1>4 DEF Send
    <3> QED
      BY <1>0, <3>1, <3>2, <3>3, <3>4
  <2>2. CASE UNCHANGED <<backend, blocked_starts, canceled_starts>>
    BY <1>0, <1>4, <2>2 DEF Send
  <2> QED
    BY <1>4, <2>1, <2>2 DEF Send
<1>5. CASE StartReturns(t)
  BY <1>0, <1>5 DEF StartReturns, NoAnswer
<1>6. CASE PollAfterStart(t)
  <2>1. backend' \in [Task -> [StepIndex -> BackendState]]
    <3>1. SetCurrent(t, "cancel_asked") \/ UNCHANGED backend
      BY <1>6 DEF PollAfterStart, CancelGoal, SetCurrent
    <3> QED
      BY <1>0, <1>b, <1>g, <3>1
  <2> QED
    BY <1>0, <1>6, <2>1 DEF PollAfterStart, CancelGoal
<1>7. CASE WaitReturns(t)
  BY <1>0, <1>7 DEF WaitReturns, GiveUp
<1>8. CASE RaiseFaultCode(t)
  <2>1. CurrentKind(t) \in Kind
    BY <1>0, <1>8, StepKind DEF RaiseFaultCode, PlacedAt, Fits, Raising
  <2>2. fault_code' \in FaultCode
    BY <1>8, <2>1, StepValues
       DEF RaiseFaultCode, RaiseCode, FaultOf, FaultCode, TaskCode
  <2> QED
    BY <1>0, <1>8, <2>2 DEF RaiseFaultCode
<1>9. CASE RaiseFaultMode(t)
  BY <1>0, <1>9 DEF RaiseFaultMode, StoreMode, FaultMode
<1> QED
  BY <1>1, <1>2, <1>3, <1>4, <1>5, <1>6, <1>7, <1>8, <1>9 DEF Execute

\* The servers, the feedback and the environment keep the types, and move no
\* call.
LEMMA OutsidePlaced ==
  ASSUME Placed,
         \/ \E t \in Task : Feedback(t) \/ LateFeedback(t)
         \/ BackendStep \/ CallerSetsFlag \/ OtherFaults \/ UNCHANGED orchVars
  PROVE  Placed'
<1>0. TypeOK /\ \A u \in Task : PlacedAt(u)
  BY DEF Placed
<1>1. UNCHANGED <<pc, graph, step, status, estop_active, entry>>
  BY DEF Feedback, LateFeedback, BackendStep, BackendAnswers, BackendEnds,
         CallerSetsFlag, OtherFaults, orchVars, local
<1>2. \A u \in Task : PlacedAt(u)'
  BY <1>0, <1>1 DEF PlacedAt, Fits
<1>3. TypeOK'
  <2>1. CASE \E t \in Task : Feedback(t) \/ LateFeedback(t)
    <3> PICK t \in Task : Feedback(t) \/ LateFeedback(t)
      BY <2>1
    <3>1. state' \in {state, StepState[CurrentKind(t)]}
      BY DEF Feedback, LateFeedback
    <3>2. CurrentKind(t) \in Kind
      BY <1>0, StepKind
         DEF Feedback, LateFeedback, FeedbackPossible, PlacedAt, Fits, InStep
    <3>3. state' \in ProgressState \cup {"IDLE"}
      BY <1>0, <3>1, <3>2, StepValues DEF TypeOK
    <3> QED
      BY <1>0, <1>1, <3>3
         DEF Feedback, LateFeedback, TypeOK, FaultTypeOK, history, faultVars
  <2>2. CASE BackendStep
    <3> PICK t \in Task, i \in StepIndex : BackendAnswers(t, i) \/ BackendEnds(t, i)
      BY <2>2 DEF BackendStep
    <3>1. PICK b \in BackendState : backend' = [backend EXCEPT ![t][i] = b]
      BY DEF BackendAnswers, BackendEnds, BackendState, Outcome
    <3>2. backend' \in [Task -> [StepIndex -> BackendState]]
      BY <1>0, <3>1, GoalStored
    <3> QED
      BY <1>0, <1>1, <3>2 DEF BackendAnswers, BackendEnds, TypeOK,
                              FaultTypeOK, history, faultVars
  <2>3. CASE CallerSetsFlag
    BY <1>0, <1>1, <2>3 DEF CallerSetsFlag, StoreCancel, TypeOK, FaultTypeOK,
                            faultVars
  <2>4. CASE OtherFaults
    <3>1. FaultTypeOK'
      BY <2>4, EnvFaultsAssumption DEF OtherFaults, StoreMode, FaultTypeOK
    <3> QED
      BY <1>0, <1>1, <2>4, <3>1 DEF OtherFaults, StoreMode, TypeOK
  <2>5. CASE UNCHANGED orchVars
    BY <1>0, <1>1, <2>5 DEF orchVars, TypeOK, FaultTypeOK, history, faultVars
  <2> QED
    BY <2>1, <2>2, <2>3, <2>4, <2>5
<1> QED
  BY <1>2, <1>3 DEF Placed

\* Every call is always at a place that fits its plan and its step.
LEMMA AlwaysPlaced == Spec => []Placed
<1>1. Init => Placed
  <2> SUFFICES ASSUME Init PROVE Placed
    OBVIOUS
  <2>1. TypeOK
    <3>1. 1 \in 1 .. MaxSteps + 1
      BY GraphsAssumption
    <3>2. FaultTypeOK
      BY DEF Init, FaultInit, FaultTypeOK, FaultMode, FaultCode
    <3>3. "none" \in Status /\ "none" \in BackendState
      BY DEF Status, BackendState
    <3> QED
      BY <3>1, <3>2, <3>3 DEF Init, TypeOK
  <2>2. \A t \in Task : PlacedAt(t)
    BY DEF Init, PlacedAt, Fits, InStep, Raising, AfterCancelCheck, AfterFaultCheck
  <2> QED
    BY <2>1, <2>2 DEF Placed
<1>2. Placed /\ [Next]_orchVars => Placed'
  <2> SUFFICES ASSUME Placed, [Next]_orchVars PROVE Placed'
    OBVIOUS
  <2>1. CASE \E t \in Task : Call(t) \/ Execute(t)
    BY <2>1, CallTypes, CallPlaces, SharedTypes DEF Placed, TypeOK
  <2>2. CASE \/ \E t \in Task : Feedback(t) \/ LateFeedback(t)
             \/ BackendStep \/ CallerSetsFlag \/ OtherFaults
             \/ UNCHANGED orchVars
    BY <2>2, OutsidePlaced
  <2> QED
    BY <2>1, <2>2 DEF Next, AllReturned
<1> QED
  BY <1>1, <1>2, PTL DEF Spec

\* The variables of every call, of the ports and of the FaultManager keep their
\* types, and no call works on a step its plan does not have.
THEOREM TypeCorrect == Spec => []TypeOK
BY AlwaysPlaced, PTL DEF Placed

-------------------------------------------------------------------------------
(* Layer 2: what the two polls of the loop bound.                          *)

\* While motion is forbidden (or the flag up), a call past the poll has sent
\* nothing since: only then may it still send, once.
PolledAt(t) ==
  /\ ~allows_motion =>
       /\ blocked_starts[t] <= 1
       /\ pc[t] \in AfterFaultCheck => blocked_starts[t] = 0
  /\ cancel_requested =>
       /\ canceled_starts[t] <= 1
       /\ pc[t] \in AfterCancelCheck => canceled_starts[t] = 0

Polled == \A t \in Task : PolledAt(t)

\* A call that moves elsewhere than past a poll stays within the bounds.
LEMMA PolledMove ==
  ASSUME Placed, Polled, NEW t \in Task, NEW l,
         pc' = [pc EXCEPT ![t] = l],
         UNCHANGED <<mode, cancel_requested, blocked_starts, canceled_starts>>,
         l \in AfterFaultCheck => pc[t] \in AfterFaultCheck \/ allows_motion,
         l \in AfterCancelCheck =>
           pc[t] \in AfterCancelCheck \/ ~cancel_requested
  PROVE  Polled'
BY DEF Placed, TypeOK, Polled, PolledAt, allows_motion

\* No step of a call goes beyond what the polls allow.
LEMMA CallPolled ==
  ASSUME Placed, Polled, NEW t \in Task, Call(t) \/ Execute(t)
  PROVE  Polled'
<1> USE DEF AfterFaultCheck, AfterCancelCheck, faultVars, history
<1>0. TypeOK
  BY DEF Placed
<1>1. CASE Call(t) \/ EmitPlan(t) \/ StartReturns(t) \/ WaitReturns(t)
             \/ PollAfterStart(t) \/ RaiseFaultCode(t) \/ Finish(t)
  <2>1. \E l \in ExecutePC \cup {"returned"} :
          /\ pc' = [pc EXCEPT ![t] = l]
          /\ l \notin AfterCancelCheck
    BY <1>1 DEF Call, EmitPlan, StartReturns, NoAnswer, WaitReturns, GiveUp, PollAfterStart, CancelGoal,
                RaiseFaultCode, Finish, Goto, Return, RaiseThenReturn, ExecutePC
  <2>2. UNCHANGED <<mode, cancel_requested, blocked_starts, canceled_starts>>
    BY <1>1 DEF Call, EmitPlan, StartReturns, NoAnswer, WaitReturns, GiveUp, PollAfterStart, CancelGoal,
                RaiseFaultCode, Finish
  <2> QED
    BY <2>1, <2>2, PolledMove
<1>2. CASE Gate(t) \/ Plan(t)
  <2>1. \E l \in ExecutePC \cup {"returned"} :
          /\ pc' = [pc EXCEPT ![t] = l]
          /\ l \notin AfterCancelCheck
    BY <1>2 DEF Gate, Plan, Goto, Return, ExecutePC
  <2>2. UNCHANGED <<mode, cancel_requested, blocked_starts, canceled_starts>>
    BY <1>2 DEF Gate, Plan
  <2> QED
    BY <2>1, <2>2, PolledMove
<1>3. CASE CheckCancel(t)
  <2>1. \E l \in {"done", "returned", "fault_check"} :
          /\ pc' = [pc EXCEPT ![t] = l]
          /\ l = "fault_check" => ~cancel_requested
    BY <1>3 DEF CheckCancel, PlanDone, Goto, Return
  <2>2. UNCHANGED <<mode, cancel_requested, blocked_starts, canceled_starts>>
    BY <1>3 DEF CheckCancel, PlanDone
  <2> QED
    BY <2>1, <2>2, PolledMove
<1>4. CASE CheckFault(t) \/ Admit(t) \/ EmitStep(t)
  <2>1. \E l \in {"admit", "emit_step", "send", "raise_code", "returned"} :
          /\ pc' = [pc EXCEPT ![t] = l]
          /\ l \in AfterFaultCheck =>
               pc[t] \in AfterFaultCheck \/ allows_motion
    BY <1>4 DEF CheckFault, Admit, EmitStep, Goto, Return, RaiseThenReturn
  <2>2. /\ pc[t] \in AfterCancelCheck
        /\ UNCHANGED <<mode, cancel_requested, blocked_starts, canceled_starts>>
    BY <1>4 DEF CheckFault, Admit, EmitStep
  <2> QED
    BY <2>1, <2>2, PolledMove
<1>5. CASE Send(t)
  <2>1. CASE /\ Goto(t, "start_wait")
             /\ blocked_starts' = IF allows_motion THEN blocked_starts
                                  ELSE [blocked_starts EXCEPT ![t] = @ + 1]
             /\ canceled_starts' = IF cancel_requested
                                   THEN [canceled_starts EXCEPT ![t] = @ + 1]
                                   ELSE canceled_starts
    <3>1. pc[t] = "send" /\ UNCHANGED <<mode, cancel_requested>>
      BY <1>5 DEF Send
    <3>2. \A u \in Task : pc'[u] = IF u = t THEN "start_wait" ELSE pc[u]
      BY <1>0, <2>1 DEF Goto, TypeOK
    <3>3. \A u \in Task : blocked_starts'[u] =
            IF u = t /\ ~allows_motion THEN blocked_starts[u] + 1
                                       ELSE blocked_starts[u]
      <4>1. blocked_starts \in [Task -> Nat]
        BY <1>0 DEF TypeOK
      <4> QED
        BY <2>1, <4>1
    <3>4. \A u \in Task : canceled_starts'[u] =
            IF u = t /\ cancel_requested THEN canceled_starts[u] + 1
                                         ELSE canceled_starts[u]
      <4>1. canceled_starts \in [Task -> Nat]
        BY <1>0 DEF TypeOK
      <4> QED
        BY <2>1, <4>1
    <3>5. allows_motion' = allows_motion
      BY <3>1 DEF allows_motion
    <3> QED
      BY <3>1, <3>2, <3>3, <3>4, <3>5 DEF Polled, PolledAt
  <2>2. CASE /\ RaiseThenReturn(t, "Unavailable")
             /\ UNCHANGED <<blocked_starts, canceled_starts>>
    BY <1>5, <2>2, PolledMove DEF Send, RaiseThenReturn, Goto
  <2> QED
    BY <1>5, <2>1, <2>2 DEF Send
<1>6. CASE RaiseFaultMode(t)
  BY <1>0, <1>6 DEF RaiseFaultMode, StoreMode, Goto, Polled, PolledAt, TypeOK,
                    allows_motion
<1> QED
  BY <1>1, <1>2, <1>3, <1>4, <1>5, <1>6 DEF Execute

\* The polls bound what every call sends, whoever else writes the FaultManager
\* and the flag.
LEMMA AlwaysPolled == Spec => []Polled
<1>1. Init => Polled
  BY DEF Init, FaultInit, Polled, PolledAt, allows_motion, ModeAllowsMotion
<1>2. Placed /\ Polled /\ [Next]_orchVars => Polled'
  <2> SUFFICES ASSUME Placed, Polled, [Next]_orchVars PROVE Polled'
    OBVIOUS
  <2>1. CASE \E t \in Task : Call(t) \/ Execute(t)
    BY <2>1, CallPolled
  <2>2. CASE \/ \E t \in Task : Feedback(t) \/ LateFeedback(t)
             \/ BackendStep \/ UNCHANGED orchVars
    <3>1. UNCHANGED <<pc, mode, cancel_requested, blocked_starts,
                      canceled_starts>>
      BY <2>2 DEF Feedback, LateFeedback, BackendStep, BackendAnswers,
                  BackendEnds, orchVars, history, faultVars
    <3> QED
      BY <3>1 DEF Polled, PolledAt, allows_motion
  <2>3. CASE CallerSetsFlag
    BY <2>3 DEF CallerSetsFlag, StoreCancel, Polled, PolledAt, allows_motion,
                faultVars, Placed, TypeOK
  <2>4. CASE OtherFaults
    BY <2>4 DEF OtherFaults, StoreMode, Polled, PolledAt, allows_motion,
                Placed, TypeOK
  <2> QED
    BY <2>1, <2>2, <2>3, <2>4 DEF Next, AllReturned
<1> QED
  BY <1>1, <1>2, AlwaysPlaced, PTL DEF Spec

\* A call of execute() sends at most one goal while motion stays forbidden, and at
\* most one while the cancel flag stays up.
THEOREM StopBoundsStarts == Spec => []OneStartAfterStop
<1>1. Polled => OneStartAfterStop
  BY DEF Polled, PolledAt, OneStartAfterStop
<1> QED
  BY <1>1, AlwaysPolled, PTL

-------------------------------------------------------------------------------
(* Layer 3: what the servers hold of the plan.                             *)

NotSent == BeforeLoop \cup {"cancel_check", "done"} \cup AfterCancelCheck
Ended   == Raising \cup {"returned"}
Open    == {"requested", "active"}

\* The goals of the steps before the current one have succeeded, those after it
\* have not been sent; the current one is known by the place of the call, and a
\* call that has ended leaves an open goal only by a time-out.
ServedAt(t) ==
  /\ \A i \in StepIndex : i < step[t] => backend[t][i] = "succeeded"
  /\ \A i \in StepIndex : i > step[t] => backend[t][i] = "none"
  /\ pc[t] \in NotSent =>
       \A i \in StepIndex : i = step[t] => backend[t][i] = "none"
  /\ pc[t] \in {"post_start", "waiting"} =>
       \A i \in StepIndex : i = step[t] => backend[t][i] # "requested"
  /\ pc[t] \in Ended =>
       \A i \in StepIndex : backend[t][i] \in Open => status[t] = "Timeout"
  /\ status[t] = "Ok" => /\ pc[t] = "returned" /\ graph[t] \in Graphs
                         /\ step[t] = Len(graph[t]) + 1

Served == \A t \in Task : ServedAt(t)

\* A call that moves and answers, but changes neither its step nor a goal.
LEMMA ServedMove ==
  ASSUME Placed, Served, NEW t \in Task, NEW l,
         pc' = [pc EXCEPT ![t] = l],
         UNCHANGED <<graph, step, backend>>,
         \A u \in Task : u # t => status'[u] = status[u],
         l \in NotSent => pc[t] \in NotSent,
         l \in {"post_start", "waiting"} =>
           \A i \in StepIndex : i = step[t] => backend[t][i] # "requested",
         l \in Ended =>
           \A i \in StepIndex : backend[t][i] \in Open => status'[t] = "Timeout",
         status'[t] = "Ok" => /\ l = "returned" /\ graph[t] \in Graphs
                              /\ step[t] = Len(graph[t]) + 1
  PROVE  Served'
<1>1. \A u \in Task : pc'[u] = IF u = t THEN l ELSE pc[u]
  BY DEF Placed, TypeOK
<1> SUFFICES ASSUME NEW u \in Task PROVE ServedAt(u)'
  BY DEF Served
<1>2. CASE u = t
  BY <1>1, <1>2 DEF Served, ServedAt
<1>3. CASE u # t
  BY <1>1, <1>3 DEF Served, ServedAt
<1> QED
  BY <1>2, <1>3

\* A call before the loop or past a poll has no open goal.
LEMMA NothingOpen ==
  ASSUME Placed, Served, NEW t \in Task, pc[t] \in NotSent, NEW i \in StepIndex
  PROVE  backend[t][i] \notin Open
<1>1. i \in Nat /\ step[t] \in Nat
  BY GraphsAssumption DEF Placed, TypeOK, StepIndex
<1>2. i < step[t] \/ i > step[t] \/ i = step[t]
  BY <1>1
<1> QED
  BY <1>2 DEF Served, ServedAt, Open

\* A call that goes on without an answer.
LEMMA ServedOn ==
  ASSUME Placed, Served, NEW t \in Task, NEW l,
         pc[t] # "returned", l \notin Ended,
         pc' = [pc EXCEPT ![t] = l],
         UNCHANGED <<graph, step, backend, status>>,
         l \in NotSent => pc[t] \in NotSent,
         l \in {"post_start", "waiting"} =>
           \A i \in StepIndex : i = step[t] => backend[t][i] # "requested"
  PROVE  Served'
<1>1. status[t] # "Ok"
  BY DEF Served, ServedAt
<1> QED
  BY <1>1, ServedMove

\* A call that answers something else than Ok, or begins to raise a fault.
LEMMA ServedAnswer ==
  ASSUME Placed, Served, NEW t \in Task, NEW l \in Ended, NEW s, s # "Ok",
         pc' = [pc EXCEPT ![t] = l],
         status' = [status EXCEPT ![t] = s],
         UNCHANGED <<graph, step, backend>>,
         \A i \in StepIndex : backend[t][i] \in Open => s = "Timeout"
  PROVE  Served'
<1>1. \A u \in Task : status'[u] = IF u = t THEN s ELSE status[u]
  BY DEF Placed, TypeOK
<1>2. l \notin NotSent /\ l \notin {"post_start", "waiting"}
  BY DEF Ended, Raising, NotSent, BeforeLoop, AfterCancelCheck, AfterFaultCheck
<1> QED
  BY <1>1, <1>2, ServedMove

\* The goals of the other steps are not open while one is in progress.
LEMMA OnlyCurrentOpen ==
  ASSUME Placed, Served, NEW t \in Task, step[t] \in StepIndex,
         Current(t) \notin Open, NEW i \in StepIndex
  PROVE  backend[t][i] \notin Open
<1>1. i \in Nat /\ step[t] \in Nat
  BY GraphsAssumption DEF Placed, TypeOK, StepIndex
<1>2. i < step[t] \/ i > step[t] \/ i = step[t]
  BY <1>1
<1> QED
  BY <1>2 DEF Served, ServedAt, Open, Current

\* The step in progress is a step of the servers' table.
LEMMA StepInTable ==
  ASSUME Placed, NEW t \in Task, pc[t] \in InStep \cup Raising
  PROVE  step[t] \in StepIndex
<1>1. graph[t] \in Graphs /\ step[t] \in 1 .. Len(graph[t])
  BY DEF Placed, PlacedAt, Fits
<1>2. Len(graph[t]) \in Nat /\ Len(graph[t]) <= MaxSteps /\ MaxSteps \in Nat
  BY <1>1, PlanLength, GraphsAssumption
<1> QED
  BY <1>1, <1>2 DEF StepIndex

\* A store into the goal of a step, as it is written and goal by goal.
GoalBecomes(t, j, b) == backend' = [backend EXCEPT ![t][j] = b]
OnlyGoalBecomes(t, j, b) ==
  \A u \in Task, i \in StepIndex :
    backend'[u][i] = IF u = t /\ i = j THEN b ELSE backend[u][i]

LEMMA GoalAt ==
  ASSUME TypeOK, NEW t \in Task, NEW j \in StepIndex, NEW b, GoalBecomes(t, j, b)
  PROVE  OnlyGoalBecomes(t, j, b)
<1> USE DEF GoalBecomes, OnlyGoalBecomes
<1> SUFFICES ASSUME NEW u \in Task, NEW i \in StepIndex
             PROVE  backend'[u][i] = IF u = t /\ i = j THEN b ELSE backend[u][i]
  OBVIOUS
<1>1. DOMAIN backend = Task /\ DOMAIN backend[t] = StepIndex
  BY DEF TypeOK
<1>2. backend'[u] = IF u = t THEN [backend[t] EXCEPT ![j] = b] ELSE backend[u]
  BY <1>1
<1> QED
  BY <1>1, <1>2

\* A call whose goal in progress becomes b, wherever the call then is.
LEMMA ServedGoal ==
  ASSUME Placed, Served, NEW t \in Task, NEW l, NEW b, step[t] \in StepIndex,
         \A u \in Task : pc'[u] = IF u = t THEN l ELSE pc[u],
         \A u \in Task : u # t => status'[u] = status[u],
         UNCHANGED <<graph, step>>, OnlyGoalBecomes(t, step[t], b),
         l \notin NotSent,
         l \in {"post_start", "waiting"} => b # "requested",
         l \in Ended /\ b \in Open => status'[t] = "Timeout",
         status'[t] = "Ok" => /\ l = "returned" /\ graph[t] \in Graphs
                              /\ step[t] = Len(graph[t]) + 1
  PROVE  Served'
<1>0. ServedAt(t) /\ pc'[t] = l
  BY DEF Served
<1>i. \A i \in StepIndex : i \in Nat
  BY DEF StepIndex
<1>1. \A i \in StepIndex : i # step[t] => backend'[t][i] = backend[t][i]
  BY DEF OnlyGoalBecomes
<1>2. backend'[t][step[t]] = b
  BY DEF OnlyGoalBecomes
<1>3. \A i \in StepIndex : i < step[t] => backend'[t][i] = "succeeded"
  BY <1>0, <1>1, <1>i DEF ServedAt
<1>4. \A i \in StepIndex : i > step[t] => backend'[t][i] = "none"
  BY <1>0, <1>1, <1>i DEF ServedAt
<1>5. l \in Ended =>
        \A i \in StepIndex : backend'[t][i] \in Open => status'[t] = "Timeout"
  <2> SUFFICES ASSUME l \in Ended, NEW i \in StepIndex, backend'[t][i] \in Open
               PROVE  status'[t] = "Timeout"
    OBVIOUS
  <2>1. i < step[t] \/ i > step[t] \/ i = step[t]
    BY <1>i
  <2>2. i = step[t]
    BY <1>3, <1>4, <2>1 DEF Open
  <2> QED
    BY <1>2, <2>2
<1>6. ServedAt(t)'
  BY <1>0, <1>2, <1>3, <1>4, <1>5 DEF ServedAt
<1>7. ASSUME NEW u \in Task, u # t PROVE ServedAt(u)'
  <2>1. /\ pc'[u] = pc[u] /\ status'[u] = status[u]
        /\ \A i \in StepIndex : backend'[u][i] = backend[u][i]
    BY <1>7 DEF OnlyGoalBecomes
  <2>2. ServedAt(u)
    BY DEF Served
  <2> QED
    BY <2>1, <2>2 DEF ServedAt
<1> QED
  BY <1>6, <1>7 DEF Served

\* No step of a call upsets the order of the goals.
LEMMA CallServed ==
  ASSUME Placed, Served, NEW t \in Task, Call(t) \/ Execute(t)
  PROVE  Served'
<1> USE DEF local
<1>0. TypeOK
  BY DEF Placed
<1>s. \A l : l \in NotSent <=>
        \/ l \in {"idle", "gate", "emit_plan", "plan", "cancel_check", "done"}
        \/ l \in {"fault_check", "admit", "emit_step", "send"}
  BY DEF NotSent, BeforeLoop, AfterCancelCheck, AfterFaultCheck
<1>e. \A l : l \in Ended <=> l \in {"raise_code", "raise_mode", "returned"}
  BY DEF Ended, Raising
<1>1. CASE Call(t) \/ EmitPlan(t) \/ EmitStep(t)
  <2>1. \E l \in {"gate", "plan", "send"} : pc' = [pc EXCEPT ![t] = l]
    BY <1>1 DEF Call, EmitPlan, EmitStep, Goto
  <2>2. /\ UNCHANGED <<graph, step, backend, status>>
        /\ pc[t] \in {"idle", "emit_plan", "emit_step"}
    BY <1>1 DEF Call, EmitPlan, EmitStep
  <2> QED
    BY <1>e, <1>s, <2>1, <2>2, ServedOn
<1>2. CASE Gate(t) \/ CheckCancel(t) \/ CheckFault(t) \/ Admit(t)
  <2>1. /\ pc[t] \in NotSent /\ pc[t] # "returned"
        /\ UNCHANGED <<graph, step, backend>>
    BY <1>s, <1>2 DEF Gate, CheckCancel, PlanDone, CheckFault, Admit
  <2>2. CASE \E l \in {"emit_plan", "done", "fault_check", "admit", "emit_step"} :
               pc' = [pc EXCEPT ![t] = l] /\ UNCHANGED status
    BY <1>e, <1>s, <2>1, <2>2, ServedOn
  <2>3. CASE \E l \in {"returned", "raise_code"}, s \in {"RejectedBySafety", "Canceled"} :
               /\ pc' = [pc EXCEPT ![t] = l]
               /\ status' = [status EXCEPT ![t] = s]
    BY <1>e, <2>1, <2>3, NothingOpen, ServedAnswer
  <2> QED
    BY <1>2, <2>2, <2>3 DEF Gate, CheckCancel, PlanDone, CheckFault, Admit, Goto, Return,
                            RaiseThenReturn
<1>3. CASE Plan(t)
  <2>1. pc[t] = "plan" /\ UNCHANGED <<step, backend>>
    BY <1>3 DEF Plan
  <2>2. CASE Return(t, "InvalidConfiguration") /\ UNCHANGED graph
    <3>1. \A i \in StepIndex : backend[t][i] \notin Open
      BY <1>s, <2>1, NothingOpen
    <3> QED
      BY <1>e, <2>1, <2>2, <3>1, ServedAnswer DEF Return, Goto
  <2>3. CASE /\ \E g \in Graphs : graph' = [graph EXCEPT ![t] = g]
             /\ Goto(t, "cancel_check") /\ UNCHANGED status
    <3>1. \A u \in Task : /\ pc'[u] = IF u = t THEN "cancel_check" ELSE pc[u]
                          /\ u # t => graph'[u] = graph[u]
      BY <1>0, <2>3 DEF Goto, TypeOK
    <3>2. status[t] # "Ok"
      BY <2>1 DEF Served, ServedAt
    <3>3. ServedAt(t)'
      BY <1>e, <1>s, <2>1, <2>3, <3>1, <3>2 DEF Served, ServedAt
    <3>4. \A u \in Task \ {t} : ServedAt(u)'
      BY <2>1, <2>3, <3>1 DEF Served, ServedAt
    <3> QED
      BY <3>3, <3>4 DEF Served
  <2> QED
    BY <1>3, <2>2, <2>3 DEF Plan
<1>4. CASE Send(t)
  <2>1. pc[t] = "send" /\ UNCHANGED <<graph, step>>
    BY <1>4 DEF Send
  <2>2. CASE RaiseThenReturn(t, "Unavailable") /\ UNCHANGED backend
    <3>1. \A i \in StepIndex : backend[t][i] \notin Open
      BY <1>s, <2>1, NothingOpen
    <3> QED
      BY <1>e, <2>1, <2>2, <3>1, ServedAnswer DEF RaiseThenReturn, Goto
  <2>3. CASE /\ SetCurrent(t, "requested") /\ Goto(t, "start_wait")
             /\ UNCHANGED status
    <3>1. \A u \in Task : pc'[u] = IF u = t THEN "start_wait" ELSE pc[u]
      BY <1>0, <2>3 DEF Goto, TypeOK
    <3>2. step[t] \in StepIndex
      BY <2>1, StepInTable DEF InStep, AfterCancelCheck, AfterFaultCheck
    <3>3. OnlyGoalBecomes(t, step[t], "requested")
      <4>1. GoalBecomes(t, step[t], "requested")
        BY <2>3 DEF SetCurrent, GoalBecomes
      <4> QED
        BY <1>0, <3>2, <4>1, GoalAt
    <3>4. status[t] # "Ok"
      BY <2>1 DEF Served, ServedAt
    <3>5. "start_wait" \notin NotSent /\ "start_wait" \notin Ended
      BY <1>e, <1>s
    <3> QED
      BY <2>1, <2>3, <3>1, <3>2, <3>3, <3>4, <3>5, ServedGoal
  <2> QED
    BY <1>4, <2>2, <2>3 DEF Send
<1>5. CASE StartReturns(t)
  <2>1. pc[t] = "start_wait" /\ UNCHANGED <<graph, step, backend>>
    BY <1>5 DEF StartReturns, NoAnswer
  <2>2. step[t] \in StepIndex
    BY <2>1, StepInTable DEF InStep
  <2>3. CASE /\ Current(t) \notin {"requested", "refused"}
             /\ Goto(t, "post_start") /\ UNCHANGED status
    <3>1. /\ pc' = [pc EXCEPT ![t] = "post_start"]
          /\ \A i \in StepIndex : i = step[t] => backend[t][i] # "requested"
      BY <2>3 DEF Goto, Current
    <3>2. "post_start" \notin Ended /\ "post_start" \notin NotSent
      BY <1>e, <1>s
    <3> QED
      BY <2>1, <2>3, <3>1, <3>2, ServedOn
  <2>4. CASE Current(t) = "refused" /\ RaiseThenReturn(t, "Unavailable")
    <3>1. \A i \in StepIndex : backend[t][i] \notin Open
      BY <2>2, <2>4, OnlyCurrentOpen DEF Open
    <3> QED
      BY <1>e, <2>1, <2>4, <3>1, ServedAnswer DEF RaiseThenReturn, Goto
  <2>5. CASE RaiseThenReturn(t, "Timeout")
    BY <1>e, <2>1, <2>5, ServedAnswer DEF RaiseThenReturn, Goto
  <2> QED
    BY <1>5, <2>3, <2>4, <2>5 DEF StartReturns, NoAnswer
<1>6. CASE PollAfterStart(t)
  <2>1. pc[t] = "post_start" /\ UNCHANGED <<graph, step>>
    BY <1>6 DEF PollAfterStart, CancelGoal
  <2>2. step[t] \in StepIndex
    BY <2>1, StepInTable DEF InStep
  <2>3. Current(t) # "requested"
    BY <2>1, <2>2 DEF Served, ServedAt, Current
  <2>4. CASE Goto(t, "waiting") /\ UNCHANGED <<backend, status>>
    <3>1. /\ pc' = [pc EXCEPT ![t] = "waiting"]
          /\ \A i \in StepIndex : i = step[t] => backend[t][i] # "requested"
      BY <2>3, <2>4 DEF Goto, Current
    <3>2. "waiting" \notin Ended /\ "waiting" \notin NotSent
      BY <1>e, <1>s
    <3> QED
      BY <2>1, <2>4, <3>1, <3>2, ServedOn
  <2>5. CASE /\ Current(t) # "active" /\ UNCHANGED backend
             /\ Return(t, "Canceled")
    <3>1. \A i \in StepIndex : backend[t][i] \notin Open
      BY <2>2, <2>3, <2>5, OnlyCurrentOpen DEF Open
    <3> QED
      BY <1>e, <2>1, <2>5, <3>1, ServedAnswer DEF Return, Goto
  <2>6. CASE /\ backend' = [backend EXCEPT ![t][step[t]] = "cancel_asked"]
             /\ Return(t, "Canceled")
    <3>1. \A u \in Task : /\ pc'[u] = IF u = t THEN "returned" ELSE pc[u]
                          /\ status'[u] = IF u = t THEN "Canceled" ELSE status[u]
      BY <1>0, <2>6 DEF Return, Goto, TypeOK
    <3>2. OnlyGoalBecomes(t, step[t], "cancel_asked")
      <4>1. GoalBecomes(t, step[t], "cancel_asked")
        BY <2>6 DEF GoalBecomes
      <4> QED
        BY <1>0, <2>2, <4>1, GoalAt
    <3>3. "returned" \notin NotSent /\ "cancel_asked" \notin Open
      BY <1>s DEF Open
    <3> QED
      BY <2>1, <2>2, <3>1, <3>2, <3>3, ServedGoal
  <2> QED
    BY <1>6, <2>4, <2>5, <2>6 DEF PollAfterStart, CancelGoal
<1>7. CASE WaitReturns(t)
  <2>1. pc[t] = "waiting" /\ UNCHANGED <<graph, backend>>
    BY <1>7 DEF WaitReturns, GiveUp
  <2>2. step[t] \in StepIndex /\ step[t] \in Nat /\ \A i \in StepIndex : i \in Nat
    BY <2>1, StepInTable DEF InStep, StepIndex
  <2>3. CASE /\ Current(t) = "succeeded" /\ step' = [step EXCEPT ![t] = @ + 1]
             /\ Goto(t, "cancel_check") /\ UNCHANGED status
    <3>1. \A u \in Task :
            /\ pc'[u] = IF u = t THEN "cancel_check" ELSE pc[u]
            /\ step'[u] = IF u = t THEN step[t] + 1 ELSE step[u]
      BY <1>0, <2>3 DEF Goto, TypeOK
    <3>2. status[t] # "Ok"
      BY <2>1 DEF Served, ServedAt
    <3>3. ServedAt(t)'
      BY <1>e, <1>s, <2>1, <2>2, <2>3, <3>1, <3>2 DEF Served, ServedAt, Current
    <3>4. \A u \in Task \ {t} : ServedAt(u)'
      BY <2>1, <2>3, <3>1 DEF Served, ServedAt
    <3> QED
      BY <3>3, <3>4 DEF Served
  <2>4. CASE \E r \in {"InternalError", "Canceled"} :
               /\ Current(t) \in {"failed", "canceled"} /\ UNCHANGED step
               /\ RaiseThenReturn(t, r)
    <3>1. \A i \in StepIndex : backend[t][i] \notin Open
      BY <2>2, <2>4, OnlyCurrentOpen DEF Open
    <3> QED
      BY <1>e, <2>1, <2>4, <3>1, ServedAnswer DEF RaiseThenReturn, Goto
  <2>5. CASE RaiseThenReturn(t, "Timeout") /\ UNCHANGED step
    BY <1>e, <2>1, <2>5, ServedAnswer DEF RaiseThenReturn, Goto
  <2> QED
    BY <1>7, <2>3, <2>4, <2>5 DEF WaitReturns, GiveUp
<1>8. CASE RaiseFaultCode(t) \/ RaiseFaultMode(t)
  <2>1. /\ pc[t] \in Raising /\ UNCHANGED <<graph, step, backend, status>>
        /\ \E l \in {"raise_mode", "returned"} : pc' = [pc EXCEPT ![t] = l]
    BY <1>8 DEF RaiseFaultCode, RaiseFaultMode, Goto, Raising
  <2>2. /\ status[t] # "Ok"
        /\ \A i \in StepIndex : backend[t][i] \in Open => status[t] = "Timeout"
    BY <2>1 DEF Served, ServedAt, Ended, Raising
  <2> QED
    BY <1>e, <1>s, <2>1, <2>2, ServedMove
<1>9. CASE Finish(t)
  <2>1. /\ pc[t] = "done" /\ UNCHANGED <<graph, step, backend>>
        /\ pc' = [pc EXCEPT ![t] = "returned"]
        /\ status' = [status EXCEPT ![t] = "Ok"]
    BY <1>9 DEF Finish, Return, Goto
  <2>2. \A i \in StepIndex : backend[t][i] \notin Open
    BY <1>s, <2>1, NothingOpen
  <2>3. graph[t] \in Graphs /\ step[t] = Len(graph[t]) + 1
    BY <2>1 DEF Placed, PlacedAt, Fits
  <2>4. \A u \in Task : u # t => status'[u] = status[u]
    BY <1>0, <2>1 DEF TypeOK
  <2> QED
    BY <1>e, <1>s, <2>1, <2>2, <2>3, <2>4, ServedMove
<1> QED
  BY <1>1, <1>2, <1>3, <1>4, <1>5, <1>6, <1>7, <1>8, <1>9 DEF Execute

\* What a server does with a goal never makes one that was not sent, closed or
\* left by a time-out an open one.
LEMMA BackendServed ==
  ASSUME Placed, Served, BackendStep
  PROVE  Served'
<1>0. TypeOK
  BY DEF Placed
<1> PICK t \in Task, j \in StepIndex : BackendAnswers(t, j) \/ BackendEnds(t, j)
  BY DEF BackendStep
<1>1. PICK b \in {"active", "refused"} \cup Outcome :
        /\ GoalBecomes(t, j, b)
        /\ b = "active" => backend[t][j] = "requested"
  BY DEF BackendAnswers, BackendEnds, Outcome, GoalBecomes
<1>2. UNCHANGED <<pc, graph, step, status>>
  BY DEF BackendAnswers, BackendEnds, local
<1>3. b # "requested"
  BY <1>1 DEF Outcome
<1>4. backend[t][j] \in {"requested", "active", "cancel_asked"}
  BY DEF BackendAnswers, BackendEnds
<1>5. OnlyGoalBecomes(t, j, b)
  BY <1>0, <1>1, GoalAt
<1>6. ~(j < step[t]) /\ ~(j > step[t])
  BY <1>4 DEF Served, ServedAt
<1>7. j = step[t]
  <2>1. j \in Nat /\ step[t] \in Nat
    BY <1>0, GraphsAssumption DEF TypeOK, StepIndex
  <2> QED
    BY <1>6, <2>1
<1>8. pc[t] \notin NotSent
  BY <1>4, <1>7 DEF Served, ServedAt
<1>9. pc[t] \in Ended /\ b \in Open => status[t] = "Timeout"
  BY <1>1, <1>3, <1>7 DEF Served, ServedAt, Open
<1>10. status[t] = "Ok" => /\ pc[t] = "returned" /\ graph[t] \in Graphs
                           /\ step[t] = Len(graph[t]) + 1
  BY DEF Served, ServedAt
<1>11. /\ \A u \in Task : pc'[u] = IF u = t THEN pc[t] ELSE pc[u]
       /\ \A u \in Task : status'[u] = status[u]
  BY <1>2
<1>12. OnlyGoalBecomes(t, step[t], b)
  BY <1>5, <1>7
<1> QED
  BY <1>2, <1>3, <1>7, <1>8, <1>9, <1>10, <1>11, <1>12, ServedGoal

\* The goals of a plan are sent, and end, in the order of its steps.
LEMMA AlwaysServed == Spec => []Served
<1>1. Init => Served
  <2> SUFFICES ASSUME Init, NEW t \in Task PROVE ServedAt(t)
    BY DEF Served
  <2>1. \A i \in StepIndex : ~(i < 1)
    BY DEF StepIndex
  <2> QED
    BY <2>1 DEF Init, ServedAt, Ended, Raising
<1>2. Placed /\ Served /\ [Next]_orchVars => Served'
  <2> SUFFICES ASSUME Placed, Served, [Next]_orchVars PROVE Served'
    OBVIOUS
  <2>1. CASE \E t \in Task : Call(t) \/ Execute(t)
    BY <2>1, CallServed
  <2>2. CASE BackendStep
    BY <2>2, BackendServed
  <2>3. CASE \/ \E t \in Task : Feedback(t) \/ LateFeedback(t)
             \/ CallerSetsFlag \/ OtherFaults \/ UNCHANGED orchVars
    <3>1. UNCHANGED <<pc, graph, step, status, backend>>
      BY <2>3 DEF Feedback, LateFeedback, CallerSetsFlag, OtherFaults, orchVars,
                  local
    <3> QED
      BY <3>1 DEF Served, ServedAt
  <2> QED
    BY <2>1, <2>2, <2>3 DEF Next, AllReturned
<1> QED
  BY <1>1, <1>2, AlwaysPlaced, PTL DEF Spec

\* A goal is sent for a step only once the goals of all earlier steps have
\* succeeded, and Ok is answered only once all have, for any plan and whatever the
\* servers answer.
THEOREM OrderOfSteps == Spec => []StepsInOrder
<1>1. ASSUME Placed, Served
      PROVE  \A t \in Task, i \in StepIndex :
               backend[t][i] # "none" => \A j \in 1 .. i - 1 : backend[t][j] = "succeeded"
  <2> SUFFICES ASSUME NEW t \in Task, NEW i \in StepIndex, backend[t][i] # "none",
                      NEW j \in 1 .. i - 1
               PROVE  backend[t][j] = "succeeded"
    BY <1>1
  <2>1. /\ i \in Nat /\ j \in Nat /\ step[t] \in Nat /\ j < i
        /\ j \in StepIndex
    BY <1>1, GraphsAssumption DEF Placed, TypeOK, StepIndex
  <2>2. ~(i > step[t])
    BY <1>1 DEF Served, ServedAt
  <2>3. j < step[t]
    BY <2>1, <2>2
  <2> QED
    BY <1>1, <2>1, <2>3 DEF Served, ServedAt
<1>2. ASSUME Placed, Served
      PROVE  \A t \in Task :
               status[t] = "Ok" =>
                 /\ graph[t] # <<>>
                 /\ \A i \in 1 .. Len(graph[t]) : backend[t][i] = "succeeded"
  <2> SUFFICES ASSUME NEW t \in Task, status[t] = "Ok"
               PROVE  /\ graph[t] # <<>>
                      /\ \A i \in 1 .. Len(graph[t]) : backend[t][i] = "succeeded"
    OBVIOUS
  <2>1. graph[t] \in Graphs /\ step[t] = Len(graph[t]) + 1
    BY <1>2 DEF Served, ServedAt
  <2>2. Len(graph[t]) \in Nat /\ Len(graph[t]) >= 1 /\ Len(graph[t]) <= MaxSteps
    BY <2>1, PlanLength
  <2>3. graph[t] # <<>>
    BY <2>2
  <2>4. ASSUME NEW i \in 1 .. Len(graph[t])
        PROVE  backend[t][i] = "succeeded"
    <3>1. i \in StepIndex /\ i < step[t]
      BY <2>1, <2>2, GraphsAssumption DEF StepIndex
    <3> QED
      BY <1>2, <3>1 DEF Served, ServedAt
  <2> QED
    BY <2>3, <2>4
<1>3. Placed /\ Served => StepsInOrder
  BY <1>1, <1>2 DEF StepsInOrder
<1> QED
  BY <1>3, AlwaysPlaced, AlwaysServed, PTL

\* With the types, every plan is followed to the letter.
THEOREM PlansFollowed == Spec => []PlanFollowed
BY TypeCorrect, OrderOfSteps, PTL DEF PlanFollowed

\* A call that has given up leaves a goal running, or still to be accepted, only
\* by a time-out.
THEOREM OrphansAreTimeouts == Spec => []OrphanOnlyAfterTimeout
<1>1. Served => OrphanOnlyAfterTimeout
  BY DEF Served, ServedAt, OrphanOnlyAfterTimeout, Ended, Raising, Open
<1> QED
  BY <1>1, AlwaysServed, PTL

-------------------------------------------------------------------------------
(* Layer 4: who may still be heard of after the return.                    *)

Quiets == {"Timeout", "Canceled"}

\* An entry outlives its call only for a goal given up, and the status of a call
\* that has returned is settled.
HeardAt(t) ==
  /\ pc[t] \in Ended /\ entry[t] => status[t] \in Quiets
  /\ t \in late_feedback => pc[t] = "returned" /\ status[t] \in Quiets

Heard == \A t \in Task : HeardAt(t)

\* Steps of a call itself: it never moves again once it has returned.
LEMMA CallHeard ==
  ASSUME Placed, Heard, NEW t \in Task, Call(t) \/ Execute(t)
  PROVE  Heard'
<1> USE DEF Ended, Raising, Quiets
<1>a. /\ pc \in [Task -> ExecutePC \cup {"idle", "returned"}]
      /\ status \in [Task -> Status] /\ entry \in [Task -> BOOLEAN]
  BY DEF Placed, TypeOK
<1>b. pc[t] # "returned" /\ UNCHANGED late_feedback
  BY DEF Call, Execute, Gate, EmitPlan, Plan, CheckCancel, CheckFault, Admit, EmitStep, Send,
         StartReturns, PollAfterStart, WaitReturns, RaiseFaultCode, RaiseFaultMode, Finish,
         history
<1>c. entry[t] => pc[t] \in {"post_start", "waiting", "returned", "raise_code", "raise_mode"}
  BY DEF Placed, PlacedAt, Fits
<1>1. \A u \in Task \ {t} : pc'[u] = pc[u] /\ status'[u] = status[u] /\ entry'[u] = entry[u]
  BY <1>a
  DEF Call, Execute, Gate, EmitPlan, Plan, CheckCancel, CheckFault, Admit, EmitStep, Send,
      StartReturns, NoAnswer, PollAfterStart, WaitReturns, GiveUp, RaiseFaultCode,
      RaiseFaultMode, Finish, Goto, Return, RaiseThenReturn
<1>2. pc'[t] \in Ended /\ entry'[t] => status'[t] \in Quiets
  <2>1. CASE pc[t] \in {"raise_code", "raise_mode"}
    <3>1. UNCHANGED <<status, entry>>
      BY <2>1
      DEF Call, Execute, Gate, EmitPlan, Plan, CheckCancel, CheckFault, Admit, EmitStep, Send,
          StartReturns, PollAfterStart, WaitReturns, RaiseFaultCode, RaiseFaultMode, Finish
    <3> QED
      BY <2>1, <3>1 DEF Heard, HeardAt
  <2>2. CASE PollAfterStart(t)
    BY <1>a, <2>2 DEF PollAfterStart, Goto, Return
  <2>3. CASE WaitReturns(t)
    BY <1>a, <2>3 DEF WaitReturns, GiveUp, Goto, RaiseThenReturn
  <2>4. CASE StartReturns(t)
    BY <1>a, <1>c, <2>4 DEF StartReturns, NoAnswer, Goto, RaiseThenReturn
  <2>5. CASE pc[t] \notin {"start_wait", "post_start", "waiting", "raise_code", "raise_mode"}
    <3>1. UNCHANGED entry
      BY <2>5
      DEF Call, Execute, Gate, EmitPlan, Plan, CheckCancel, CheckFault, Admit, EmitStep, Send,
          StartReturns, PollAfterStart, WaitReturns, RaiseFaultCode, RaiseFaultMode, Finish
    <3> QED
      BY <1>b, <1>c, <2>5, <3>1
  <2> QED
    BY <2>1, <2>2, <2>3, <2>4, <2>5
    DEF Call, Execute, Gate, EmitPlan, Plan, CheckCancel, CheckFault, Admit, EmitStep, Send,
        RaiseFaultCode, RaiseFaultMode, Finish
<1> QED
  BY <1>b, <1>1, <1>2 DEF Heard, HeardAt

LEMMA AlwaysHeard == Spec => []Heard
<1>1. Init => Heard
  BY DEF Init, Heard, HeardAt, Ended, Raising
<1>2. Placed /\ Heard /\ [Next]_orchVars => Heard'
  <2> SUFFICES ASSUME Placed, Heard, [Next]_orchVars PROVE Heard'
    OBVIOUS
  <2>1. CASE \E t \in Task : Call(t) \/ Execute(t)
    BY <2>1, CallHeard
  <2>2. ASSUME NEW t \in Task, LateFeedback(t) PROVE Heard'
    <3>1. /\ UNCHANGED <<pc, status, entry>> /\ late_feedback' = late_feedback \cup {t}
          /\ pc[t] = "returned" /\ entry[t]
      BY <2>2 DEF LateFeedback, FeedbackPossible, FrameAlive, ExecutePC, Placed, PlacedAt, Fits,
                  Raising
    <3> QED
      BY <3>1 DEF Heard, HeardAt, Ended
  <2>3. CASE \/ BackendStep \/ \E t \in Task : Feedback(t)
             \/ CallerSetsFlag \/ OtherFaults \/ UNCHANGED orchVars
    <3>1. UNCHANGED <<pc, status, entry, late_feedback>>
      BY <2>3 DEF BackendStep, BackendAnswers, BackendEnds, Feedback, CallerSetsFlag,
                  OtherFaults, orchVars, history
    <3> QED
      BY <3>1 DEF Heard, HeardAt
  <2> QED
    BY <2>1, <2>2, <2>3 DEF Next, AllReturned
<1> QED
  BY <1>1, <1>2, AlwaysPlaced, PTL DEF Spec

\* A feedback enters the frame of a call that is gone only if the call gave up
\* waiting or was canceled.
THEOREM LateFeedbackExplained == Spec => []LateFeedbackCause
<1>1. Placed /\ Heard => LateFeedbackCause
  BY DEF Placed, TypeOK, Heard, HeardAt, LateFeedbackCause, Quiets
<1> QED
  BY <1>1, AlwaysPlaced, AlwaysHeard, PTL

-------------------------------------------------------------------------------
(* Layer 5: what a call that answers Canceled was told.                    *)

Taken == {"active", "cancel_asked", "succeeded", "failed", "canceled"}

\* An entry is that of a goal some server has taken; and a call that answers Canceled
\* without one has sent no goal for its step, or has been told that it was canceled.
ToldAt(t) ==
  /\ pc[t] = "start_wait" => Current(t) # "none"
  /\ pc[t] \in {"post_start", "waiting"} => entry[t]
  /\ entry[t] => step[t] \in StepIndex /\ Current(t) \in Taken
  /\ pc[t] \in Raising /\ status[t] = "Canceled" =>
       step[t] \in StepIndex /\ ~entry[t] /\ Current(t) = "canceled"
  /\ pc[t] = "returned" /\ status[t] = "Canceled" =>
       step[t] \in StepIndex /\ (entry[t] \/ Current(t) \in {"none", "canceled"})

Told == \A t \in Task : ToldAt(t)

\* A step of a call leaves the variables of the others alone.
LEMMA OthersStay ==
  ASSUME TypeOK, NEW t \in Task, Call(t) \/ Execute(t), NEW u \in Task, u # t
  PROVE  /\ pc'[u] = pc[u] /\ graph'[u] = graph[u] /\ step'[u] = step[u]
         /\ status'[u] = status[u] /\ entry'[u] = entry[u] /\ backend'[u] = backend[u]
  BY DEF TypeOK, local, Call, Execute, Gate, EmitPlan, Plan, CheckCancel, CheckFault, Admit,
         EmitStep, Send, StartReturns, NoAnswer, PollAfterStart, CancelGoal, WaitReturns, GiveUp,
         RaiseFaultCode, RaiseFaultMode, Finish, Goto, Return, RaiseThenReturn, SetCurrent

LEMMA CallTold ==
  ASSUME Placed, Served, Told, NEW t \in Task, Call(t) \/ Execute(t)
  PROVE  Told'
<1> USE DEF local, Goto, Return, RaiseThenReturn, Raising
<1>a. TypeOK /\ ToldAt(t)
  BY DEF Placed, Told
<1>b. entry[t] => pc[t] \in {"post_start", "waiting", "returned", "raise_code", "raise_mode"}
  BY DEF Placed, PlacedAt, Fits
<1>c. pc[t] \in InStep => step[t] \in StepIndex
  BY StepInTable
<1>0. SUFFICES ToldAt(t)'
  <2>1. ASSUME NEW u \in Task, u # t PROVE ToldAt(u)'
    BY <1>a, <2>1, OthersStay DEF Told, ToldAt, Current
  <2> QED
    BY <2>1 DEF Told
<1>1. CASE Call(t) \/ EmitPlan(t) \/ Plan(t) \/ EmitStep(t) \/ Finish(t)
  <2>1. /\ UNCHANGED <<step, backend, entry>> /\ ~entry[t]
        /\ pc'[t] \in {"gate", "plan", "cancel_check", "send", "returned"}
        /\ pc'[t] = "returned" => status'[t] # "Canceled"
    BY <1>1, <1>a, <1>b DEF Call, EmitPlan, Plan, EmitStep, Finish, TypeOK
  <2> QED
    BY <2>1 DEF ToldAt
<1>2. CASE Gate(t) \/ CheckFault(t) \/ Admit(t)
  <2>1. /\ UNCHANGED <<step, backend, entry>> /\ ~entry[t]
        /\ pc'[t] \in {"emit_plan", "admit", "emit_step", "returned", "raise_code"}
        /\ pc'[t] \in {"returned", "raise_code"} => status'[t] = "RejectedBySafety"
    BY <1>2, <1>a, <1>b DEF Gate, CheckFault, Admit, TypeOK
  <2> QED
    BY <2>1 DEF ToldAt
<1>3. CASE CheckCancel(t)
  <2>1. /\ UNCHANGED <<step, backend, entry>> /\ ~entry[t] /\ pc[t] = "cancel_check"
        /\ pc'[t] \in {"done", "fault_check", "returned"}
        /\ pc'[t] = "returned" => ~PlanDone(t)
    BY <1>3, <1>a, <1>b DEF CheckCancel, TypeOK
  <2>2. ASSUME ~PlanDone(t) PROVE step[t] \in StepIndex /\ Current(t) = "none"
    <3>1. graph[t] \in Graphs /\ step[t] \in 1 .. Len(graph[t]) + 1
      BY <2>1 DEF Placed, PlacedAt, Fits
    <3>2. step[t] \in StepIndex
      BY <2>2, <3>1, PlanLength, GraphsAssumption DEF PlanDone, StepIndex
    <3> QED
      BY <2>1, <3>2 DEF Served, ServedAt, NotSent, Current
  <2> QED
    BY <2>1, <2>2 DEF ToldAt, Current
<1>4. CASE Send(t)
  <2>1. /\ pc[t] = "send" /\ UNCHANGED <<step, entry>> /\ ~entry[t]
    BY <1>4, <1>b DEF Send
  <2>2. step[t] \in StepIndex
    BY <1>c, <2>1 DEF InStep, AfterCancelCheck, AfterFaultCheck
  <2>3. CASE SetCurrent(t, "requested") /\ pc'[t] = "start_wait"
    BY <1>a, <2>1, <2>2, <2>3 DEF SetCurrent, ToldAt, Current, TypeOK
  <2>4. CASE pc'[t] = "raise_code" /\ status'[t] = "Unavailable"
    BY <2>1, <2>4 DEF ToldAt
  <2> QED
    BY <1>4, <1>a, <2>3, <2>4 DEF Send, TypeOK
<1>5. CASE StartReturns(t)
  <2>1. /\ pc[t] = "start_wait" /\ UNCHANGED <<step, backend>> /\ ~entry[t]
        /\ step[t] \in StepIndex
    BY <1>5, <1>b, <1>c DEF StartReturns, NoAnswer, InStep
  <2>2. \/ /\ pc'[t] = "post_start" /\ entry'[t]
           /\ Current(t) \notin {"none", "requested", "refused"}
        \/ pc'[t] = "raise_code" /\ status'[t] # "Canceled" /\ UNCHANGED entry
    BY <1>5, <1>a, <2>1 DEF StartReturns, NoAnswer, TypeOK, ToldAt
  <2>3. backend[t][step[t]] \in BackendState
    BY <1>a, <2>1 DEF TypeOK
  <2> QED
    BY <2>1, <2>2, <2>3 DEF ToldAt, Current, Taken, BackendState
<1>6. CASE PollAfterStart(t)
  <2>1. /\ pc[t] = "post_start" /\ UNCHANGED <<step, entry>>
        /\ entry[t] /\ step[t] \in StepIndex /\ Current(t) \in Taken
        /\ pc'[t] \in {"returned", "waiting"}
    BY <1>6, <1>a DEF PollAfterStart, TypeOK, ToldAt
  <2>2. Current(t)' \in Taken
    <3>1. CASE UNCHANGED backend
      BY <2>1, <3>1 DEF Current
    <3>2. CASE backend' = [backend EXCEPT ![t][step[t]] = "cancel_asked"]
      BY <1>a, <2>1, <3>2 DEF Current, Taken, TypeOK
    <3> QED
      BY <1>6, <3>1, <3>2 DEF PollAfterStart, CancelGoal
  <2> QED
    BY <2>1, <2>2 DEF ToldAt
<1>7. CASE WaitReturns(t)
  <2>1. /\ pc[t] = "waiting" /\ UNCHANGED backend /\ entry[t] /\ step[t] \in StepIndex
    BY <1>7, <1>a DEF WaitReturns, ToldAt
  <2>2. \/ pc'[t] = "cancel_check" /\ ~entry'[t]
        \/ pc'[t] = "raise_code" /\ status'[t] # "Canceled" /\ UNCHANGED step
        \/ pc'[t] = "raise_code" /\ ~entry'[t] /\ Current(t) = "canceled" /\ UNCHANGED step
    BY <1>7, <1>a DEF WaitReturns, GiveUp, TypeOK
  <2>3. entry'[t] => UNCHANGED step
    BY <1>7, <1>a DEF WaitReturns, GiveUp, TypeOK
  <2> QED
    BY <1>a, <2>1, <2>2, <2>3 DEF ToldAt, Current
<1>8. CASE RaiseFaultCode(t) \/ RaiseFaultMode(t)
  <2>1. /\ pc[t] \in Raising /\ UNCHANGED <<step, backend, entry, status>>
        /\ pc'[t] \in {"raise_mode", "returned"}
    BY <1>8, <1>a DEF RaiseFaultCode, RaiseFaultMode, TypeOK
  <2> QED
    BY <1>a, <2>1 DEF ToldAt, Current
<1> QED
  BY <1>1, <1>2, <1>3, <1>4, <1>5, <1>6, <1>7, <1>8 DEF Execute

LEMMA BackendTold ==
  ASSUME Placed, Told, BackendStep
  PROVE  Told'
<1> SUFFICES ASSUME NEW u \in Task PROVE ToldAt(u)'
  BY DEF Told
<1> PICK t \in Task, j \in StepIndex : BackendAnswers(t, j) \/ BackendEnds(t, j)
  BY DEF BackendStep
<1>1. PICK b \in {"active", "refused"} \cup Outcome :
        /\ GoalBecomes(t, j, b)
        /\ b \notin Outcome => backend[t][j] = "requested"
  BY DEF BackendAnswers, BackendEnds, GoalBecomes
<1>2. /\ UNCHANGED <<pc, step, status, entry>>
      /\ backend[t][j] \in {"requested", "active", "cancel_asked"}
  BY DEF BackendAnswers, BackendEnds, local
<1>3. OnlyGoalBecomes(t, j, b)
  BY <1>1, GoalAt DEF Placed
<1>4. CASE u = t /\ step[u] = j
  <2>1. Current(u) = backend[t][j] /\ Current(u)' = b
    BY <1>2, <1>3, <1>4 DEF Current, OnlyGoalBecomes
  <2> QED
    BY <1>1, <1>2, <2>1 DEF Told, ToldAt, Outcome, Taken
<1>5. CASE step[u] \in StepIndex /\ ~(u = t /\ step[u] = j)
  <2>1. Current(u)' = Current(u)
    BY <1>2, <1>3, <1>5 DEF Current, OnlyGoalBecomes
  <2> QED
    BY <1>2, <2>1 DEF Told, ToldAt
<1>6. CASE step[u] \notin StepIndex
  <2>1. pc[u] # "start_wait"
    BY <1>6, StepInTable DEF InStep
  <2> QED
    BY <1>2, <1>6, <2>1 DEF Told, ToldAt
<1> QED
  BY <1>4, <1>5, <1>6

LEMMA AlwaysTold == Spec => []Told
<1>1. Init => Told
  BY DEF Init, Told, ToldAt, Raising
<1>2. Placed /\ Served /\ Told /\ [Next]_orchVars => Told'
  <2> SUFFICES ASSUME Placed, Served, Told, [Next]_orchVars PROVE Told'
    OBVIOUS
  <2>1. CASE \E t \in Task : Call(t) \/ Execute(t)
    BY <2>1, CallTold
  <2>2. CASE BackendStep
    BY <2>2, BackendTold
  <2>3. CASE \/ \E t \in Task : Feedback(t) \/ LateFeedback(t)
             \/ CallerSetsFlag \/ OtherFaults \/ UNCHANGED orchVars
    <3>1. UNCHANGED <<pc, step, status, entry, backend>>
      BY <2>3 DEF Feedback, LateFeedback, CallerSetsFlag, OtherFaults, orchVars, local
    <3> QED
      BY <3>1 DEF Told, ToldAt, Current
  <2> QED
    BY <2>1, <2>2, <2>3 DEF Next, AllReturned
<1> QED
  BY <1>1, <1>2, AlwaysPlaced, AlwaysServed, PTL DEF Spec

-------------------------------------------------------------------------------
(* The simulation of ExecuteContract.                                      *)

\* What the caller sees, call by call, and as functions.
Left(t)  == ~FrameAlive(t) /\ FeedbackPossible(t)
Phases   == [t \in Task |-> Phase(t)]
Answers  == [t \in Task |-> Answered(t)]
Lefts    == [t \in Task |-> Left(t)]
Outsides == [t \in Task |-> CanceledOutside(t)]

\* A step that leaves what the caller sees of u alone.
SameSight(u) == /\ Phase(u)' = Phase(u) /\ Answered(u)' = Answered(u)
                /\ Left(u)' <=> Left(u)
                /\ CanceledOutside(u)' <=> CanceledOutside(u)

LEMMA SightKept ==
  ASSUME \A u \in Task : SameSight(u)
  PROVE  UNCHANGED <<Phases, Answers, Lefts, Outsides>>
<1>1. Phases' = Phases /\ Answers' = Answers
  BY DEF SameSight, Phases, Answers
<1>2. \A u \in Task : Left(u)' = Left(u) /\ CanceledOutside(u)' = CanceledOutside(u)
  BY DEF SameSight, Left, CanceledOutside
<1> QED
  BY <1>1, <1>2 DEF Lefts, Outsides

\* A step that changes nothing of what a call is seen by.
LEMMA SightStays ==
  ASSUME NEW u \in Task, UNCHANGED <<pc[u], status[u], entry[u], step[u], backend[u]>>
  PROVE  SameSight(u)
BY DEF SameSight, Phase, Answered, Left, FrameAlive, FeedbackPossible, CanceledOutside, Current

\* A call at work is seen to work, and nothing else.
LEMMA SightAtWork ==
  ASSUME NEW t \in Task, pc[t] \in ExecutePC
  PROVE  /\ Phase(t) = "working" /\ Answered(t) = "none"
         /\ Left(t) = FALSE /\ CanceledOutside(t) = FALSE
BY DEF ExecutePC, AfterCancelCheck, AfterFaultCheck, Phase, Answered, Left, FrameAlive,
       CanceledOutside

LEMMA StaysAtWork ==
  ASSUME TypeOK, NEW t \in Task, Execute(t), pc[t] \in ExecutePC, pc'[t] \in ExecutePC
  PROVE  UNCHANGED <<Phases, Answers, Lefts, Outsides>>
<1>1. SameSight(t)
  BY DEF ExecutePC, AfterCancelCheck, AfterFaultCheck, Phase, Answered, Left, FrameAlive,
         CanceledOutside, SameSight
<1>2. ASSUME NEW u \in Task, u # t PROVE SameSight(u)
  BY <1>2, OthersStay, SightStays
<1> QED
  BY <1>1, <1>2, SightKept

\* A call that returns with s; its goal may stay behind, or have been canceled outside.
LEMMA SightOfReturn ==
  ASSUME TypeOK, NEW t \in Task, Execute(t), pc[t] \in ExecutePC, pc'[t] = "returned"
  PROVE  /\ Phases[t] = "working"
         /\ Phases' = [Phases EXCEPT ![t] = "returned"]
         /\ Answers' = [Answers EXCEPT ![t] = Answered(t)']
         /\ Lefts' = [Lefts EXCEPT ![t] = Left(t)']
         /\ Outsides' = [Outsides EXCEPT ![t] = CanceledOutside(t)']
         /\ ~Left(t)' => UNCHANGED Lefts
         /\ ~CanceledOutside(t)' => UNCHANGED Outsides
<1>1. Phase(t) = "working" /\ Left(t) = FALSE /\ CanceledOutside(t) = FALSE
  BY SightAtWork
<1>2. Phase(t)' = "returned"
  BY DEF Phase
<1>3. ASSUME NEW u \in Task, u # t
      PROVE  /\ Phase(u)' = Phase(u) /\ Answered(u)' = Answered(u)
             /\ Left(u)' = Left(u) /\ CanceledOutside(u)' = CanceledOutside(u)
  BY <1>3, OthersStay, SightStays DEF SameSight, Left, CanceledOutside
<1>4. /\ Left(t)' \in BOOLEAN /\ CanceledOutside(t)' \in BOOLEAN
  BY DEF Left, CanceledOutside
<1>5. Phases[t] = "working" /\ Phases' = [Phases EXCEPT ![t] = "returned"]
  BY <1>1, <1>2, <1>3 DEF Phases
<1>6. Answers' = [Answers EXCEPT ![t] = Answered(t)']
  BY <1>3 DEF Answers
<1>7. Lefts' = [Lefts EXCEPT ![t] = Left(t)']
  BY <1>3 DEF Lefts
<1>8. Outsides' = [Outsides EXCEPT ![t] = CanceledOutside(t)']
  BY <1>3 DEF Outsides
<1>9. ~Left(t)' => UNCHANGED Lefts
  BY <1>1, <1>3, <1>4 DEF Lefts
<1>10. ~CanceledOutside(t)' => UNCHANGED Outsides
  BY <1>1, <1>3, <1>4 DEF Outsides
<1> QED
  BY <1>5, <1>6, <1>7, <1>8, <1>9, <1>10

\* Every step of a call is one of the contract, or none.
LEMMA CallSimulated ==
  ASSUME Placed, Served, Told, NEW t \in Task, Call(t) \/ Execute(t)
  PROVE  Contract!ContractNext \/ UNCHANGED Contract!contractVars
<1> USE DEF Goto, Return, RaiseThenReturn, Phases, Answers, Lefts, Outsides, Left
<1>a. TypeOK /\ ToldAt(t) /\ ServedAt(t)
  BY DEF Placed, Told, Served
<1>b. pc[t] \in ExecutePC /\ pc[t] \notin {"post_start", "waiting", "raise_code", "raise_mode"}
        => ~entry[t]
  BY DEF Placed, PlacedAt, Fits, Raising, ExecutePC, AfterCancelCheck, AfterFaultCheck
<1>c. UNCHANGED cancel_requested
  BY DEF Call, Execute, Gate, EmitPlan, Plan, CheckCancel, CheckFault, Admit, EmitStep, Send,
         StartReturns, PollAfterStart, WaitReturns, RaiseFaultCode, RaiseFaultMode, Finish
<1>1. CASE Call(t)
  <2>1. pc[t] = "idle" /\ pc' = [pc EXCEPT ![t] = "gate"]
        /\ UNCHANGED <<step, status, entry, backend, state>>
    BY <1>1 DEF Call, local
  <2>2. Phase(t) = "idle" /\ Phase(t)' = "working" /\ Answered(t)' = Answered(t)
    BY <1>a, <2>1 DEF Phase, Answered, TypeOK
  <2>3. ~entry[t]
    BY <2>1 DEF Placed, PlacedAt, Fits, Raising
  <2>4. Left(t)' = Left(t) /\ CanceledOutside(t)' = CanceledOutside(t)
    BY <1>a, <2>1, <2>3 DEF FeedbackPossible, CanceledOutside, TypeOK
  <2>5. ASSUME NEW u \in Task, u # t
        PROVE  /\ Phase(u)' = Phase(u) /\ Answered(u)' = Answered(u)
               /\ Left(u)' = Left(u) /\ CanceledOutside(u)' = CanceledOutside(u)
    BY <1>1, <1>a, <2>5, OthersStay, SightStays DEF SameSight, CanceledOutside
  <2>6. /\ Phases[t] = "idle" /\ Phases' = [Phases EXCEPT ![t] = "working"]
        /\ UNCHANGED <<Answers, Lefts, Outsides>>
    <3>1. Phases[t] = "idle" /\ Phases' = [Phases EXCEPT ![t] = "working"]
      BY <2>2, <2>5
    <3>2. UNCHANGED Answers
      BY <2>2, <2>5
    <3>3. UNCHANGED <<Lefts, Outsides>>
      BY <2>4, <2>5
    <3> QED
      BY <3>1, <3>2, <3>3
  <2>7. Contract!Call(t)
    BY <1>c, <2>1, <2>6 DEF Contract!Call
  <2> QED
    BY <2>7 DEF Contract!ContractNext
<1>2. ASSUME Execute(t), pc[t] \in ExecutePC, pc'[t] \in ExecutePC
      PROVE  Contract!ContractNext \/ UNCHANGED Contract!contractVars
  <2>1. UNCHANGED <<Phases, Answers, Lefts, Outsides>>
    BY <1>a, <1>2, StaysAtWork
  <2>2. Phases[t] = "working"
    BY <1>2, SightAtWork
  <2>3. \/ UNCHANGED state
        \/ state' \in Contract!ProgressState \ {"DONE"}
    <3>1. CASE EmitPlan(t)
      BY <3>1 DEF EmitPlan, Contract!ProgressState
    <3>2. CASE EmitStep(t)
      <4>1. CurrentKind(t) \in Kind
        BY <3>2, StepKind DEF EmitStep, Placed, PlacedAt, Fits, InStep, AfterCancelCheck,
                              AfterFaultCheck
      <4>2. StepState[CurrentKind(t)] \in {"NAVIGATING", "MANIPULATING"}
        BY <4>1 DEF Kind, StepState
      <4> QED
        BY <3>2, <4>2 DEF EmitStep, Contract!ProgressState, Contract!StepState
    <3>3. CASE Finish(t)
      BY <1>2, <1>a, <3>3 DEF Finish, TypeOK, ExecutePC, AfterCancelCheck, AfterFaultCheck
    <3> QED
      BY <1>2, <3>1, <3>2, <3>3
      DEF Execute, Gate, Plan, CheckCancel, CheckFault, Admit, Send, StartReturns,
          PollAfterStart, WaitReturns, RaiseFaultCode, RaiseFaultMode
  <2>4. CASE UNCHANGED state
    BY <1>c, <2>1, <2>4 DEF Contract!contractVars, Contract!execVars
  <2>5. CASE state' \in Contract!ProgressState \ {"DONE"}
    <3>1. Contract!Publish(t)
      BY <1>c, <2>1, <2>2, <2>5 DEF Contract!Publish, Contract!execVars
    <3> QED
      BY <3>1 DEF Contract!ContractNext
  <2> QED
    BY <2>3, <2>4, <2>5
<1>3. ASSUME Execute(t), pc[t] \in ExecutePC, pc'[t] = "returned"
      PROVE  Contract!Returns(t)
  <2>1. /\ Phases[t] = "working"
        /\ Phases' = [Phases EXCEPT ![t] = "returned"]
        /\ Answers' = [Answers EXCEPT ![t] = Answered(t)']
        /\ Lefts' = [Lefts EXCEPT ![t] = Left(t)']
        /\ Outsides' = [Outsides EXCEPT ![t] = CanceledOutside(t)']
        /\ ~Left(t)' => UNCHANGED Lefts
        /\ ~CanceledOutside(t)' => UNCHANGED Outsides
    BY <1>3, <1>a, SightOfReturn
  <2>2. Left(t)' => Lefts' = [Lefts EXCEPT ![t] = TRUE]
    <3>1. Left(t)' \in BOOLEAN
      BY DEF Left
    <3> QED
      BY <2>1, <3>1
  <2>3. CanceledOutside(t)' => Outsides' = [Outsides EXCEPT ![t] = TRUE]
    <3>1. CanceledOutside(t)' \in BOOLEAN
      BY DEF CanceledOutside
    <3> QED
      BY <2>1, <3>1
  <2>4. pc'[t] = "returned" /\ ~entry'[t] => ~Left(t)'
    BY DEF FeedbackPossible
  <2>5. /\ status'[t] # "Canceled" => ~CanceledOutside(t)'
        /\ entry'[t] => ~CanceledOutside(t)'
    BY DEF CanceledOutside
  <2>6. Answered(t)' = IF status'[t] \in {"Ok", "Canceled"} THEN status'[t] ELSE "Failed"
    BY <1>3 DEF Answered
  <2>7. CASE Finish(t)
    <3>1. status'[t] = "Ok" /\ ~entry'[t] /\ state' = "DONE"
      BY <1>a, <1>b, <1>3, <2>7 DEF Finish, TypeOK
    <3>2. Contract!ReturnOk(t)
      BY <1>c, <1>3, <2>1, <2>4, <2>5, <2>6, <3>1 DEF Contract!ReturnOk, Contract!Answer
    <3> QED
      BY <3>2 DEF Contract!Returns
  <2>8. ASSUME UNCHANGED state, status'[t] \notin {"Ok", "Canceled"}
        PROVE  Contract!Returns(t)
    <3>1. Contract!ReturnFailed(t)
      BY <1>c, <2>1, <2>2, <2>5, <2>6, <2>8 DEF Contract!ReturnFailed, Contract!Answer
    <3> QED
      BY <3>1 DEF Contract!Returns
  <2>9. CASE Gate(t) \/ Plan(t) \/ CheckFault(t)
    <3>1. UNCHANGED state /\ status'[t] \notin {"Ok", "Canceled"}
      BY <1>a, <1>3, <2>9 DEF Gate, Plan, CheckFault, TypeOK
    <3> QED
      BY <2>8, <3>1
  <2>10. ASSUME UNCHANGED state, status'[t] = "Canceled", cancel_requested,
                ~CanceledOutside(t)'
         PROVE  Contract!Returns(t)
    <3>1. Contract!ReturnCanceled(t)
      BY <1>c, <2>1, <2>2, <2>6, <2>10 DEF Contract!ReturnCanceled, Contract!Answer
    <3> QED
      BY <3>1 DEF Contract!Returns
  <2>11. CASE CheckCancel(t)
    <3>1. /\ UNCHANGED <<state, step, backend>> /\ status'[t] = "Canceled" /\ cancel_requested
          /\ pc[t] = "cancel_check" /\ ~PlanDone(t)
      BY <1>a, <1>3, <2>11 DEF CheckCancel, TypeOK, local
    <3>2. step[t] \in StepIndex => Current(t) = "none"
      BY <1>a, <3>1 DEF ServedAt, NotSent, Current
    <3>3. ~CanceledOutside(t)'
      BY <3>1, <3>2 DEF CanceledOutside, Current
    <3> QED
      BY <2>10, <3>1, <3>3
  <2>12. CASE PollAfterStart(t)
    <3>1. /\ UNCHANGED <<state, entry>> /\ status'[t] = "Canceled" /\ cancel_requested
          /\ entry[t]
      BY <1>a, <1>3, <2>12 DEF PollAfterStart, TypeOK, ToldAt
    <3> QED
      BY <2>5, <2>10, <3>1
  <2>13. CASE RaiseFaultMode(t)
    <3>1. /\ UNCHANGED <<state, status, entry, step, backend>> /\ pc[t] = "raise_mode"
      BY <2>13 DEF RaiseFaultMode, local
    <3>2. status[t] # "Ok"
      BY <1>a, <3>1 DEF ServedAt
    <3>3. CASE status[t] = "Canceled"
      <4>1. step[t] \in StepIndex /\ ~entry[t] /\ Current(t) = "canceled"
        BY <1>a, <3>1, <3>3 DEF ToldAt, Raising
      <4>2. CanceledOutside(t)'
        BY <1>3, <3>1, <3>3, <4>1 DEF CanceledOutside, Current
      <4>3. Contract!ReturnOutsideCancel(t)
        BY <1>c, <1>3, <2>1, <2>3, <2>4, <2>6, <3>1, <3>3, <4>1, <4>2
        DEF Contract!ReturnOutsideCancel, Contract!Answer
      <4> QED
        BY <4>3 DEF Contract!Returns
    <3> QED
      BY <2>8, <3>1, <3>2, <3>3
  <2>14. ~(EmitPlan(t) \/ Admit(t) \/ EmitStep(t) \/ Send(t) \/ StartReturns(t)
             \/ WaitReturns(t) \/ RaiseFaultCode(t))
    BY <1>a, <1>3 DEF EmitPlan, Admit, EmitStep, Send, StartReturns, NoAnswer, WaitReturns,
                      GiveUp, RaiseFaultCode, TypeOK
  <2> QED
    BY <1>3, <2>7, <2>9, <2>11, <2>12, <2>13, <2>14 DEF Execute
<1>4. ASSUME Execute(t)
      PROVE  pc[t] \in ExecutePC /\ pc'[t] \in ExecutePC \cup {"returned"}
  BY <1>a, <1>4 DEF ExecutePC, AfterCancelCheck, AfterFaultCheck, TypeOK, Execute, Gate, EmitPlan,
     Plan, CheckCancel, CheckFault, Admit, EmitStep, Send, StartReturns, NoAnswer,
     PollAfterStart, WaitReturns, GiveUp, RaiseFaultCode, RaiseFaultMode, Finish
<1> QED
  BY <1>1, <1>2, <1>3, <1>4 DEF Contract!ContractNext

\* What the servers do is not seen, but for the end of a goal left behind.
LEMMA BackendSimulated ==
  ASSUME Placed, Told, BackendStep
  PROVE  Contract!ContractNext \/ UNCHANGED Contract!contractVars
<1> USE DEF Phases, Answers, Lefts, Outsides
<1> PICK t \in Task, j \in StepIndex : BackendAnswers(t, j) \/ BackendEnds(t, j)
  BY DEF BackendStep
<1>1. PICK b \in {"active", "refused"} \cup Outcome :
        /\ GoalBecomes(t, j, b)
        /\ b \notin Outcome => backend[t][j] = "requested"
  BY DEF BackendAnswers, BackendEnds, GoalBecomes
<1>2. /\ UNCHANGED <<pc, step, status, entry, state, cancel_requested>>
      /\ backend[t][j] \in {"requested", "active", "cancel_asked"}
  BY DEF BackendAnswers, BackendEnds, local
<1>3. OnlyGoalBecomes(t, j, b)
  BY <1>1, GoalAt DEF Placed
<1>4. ASSUME NEW u \in Task, ~(u = t /\ step[u] = j)
      PROVE  SameSight(u)
  <2>1. step[u] \in StepIndex => Current(u)' = Current(u)
    BY <1>2, <1>3, <1>4 DEF Current, OnlyGoalBecomes
  <2>2. entry[u] \/ pc[u] = "start_wait" => step[u] \in StepIndex
    BY StepInTable DEF Told, ToldAt, InStep
  <2> QED
    BY <1>2, <2>1, <2>2
    DEF SameSight, Phase, Answered, Left, FrameAlive, FeedbackPossible, CanceledOutside
<1>5. CASE step[t] = j
  <2>1. Current(t) = backend[t][j] /\ Current(t)' = b
    BY <1>2, <1>3, <1>5 DEF Current, OnlyGoalBecomes
  <2>2. Phase(t)' = Phase(t) /\ Answered(t)' = Answered(t)
    BY <1>2 DEF Phase, Answered
  <2>3. ~CanceledOutside(t) /\ ~CanceledOutside(t)'
    BY <1>2, <2>1 DEF Told, ToldAt, CanceledOutside
  <2>4. Left(t)' => Left(t)
    BY <1>1, <1>2, <2>1 DEF Told, ToldAt, Left, FrameAlive, ExecutePC, FeedbackPossible, Outcome,
                            Taken
  <2>5. CASE Left(t)' <=> Left(t)
    <3>1. \A u \in Task : SameSight(u)
      BY <1>4, <2>2, <2>3, <2>5 DEF SameSight
    <3> QED
      BY <1>2, <3>1, SightKept DEF Contract!contractVars, Contract!execVars, Left
  <2>6. CASE Left(t) /\ ~Left(t)'
    <3>1. ASSUME NEW u \in Task, u # t
          PROVE  /\ Phase(u)' = Phase(u) /\ Answered(u)' = Answered(u)
                 /\ Left(u)' = Left(u) /\ CanceledOutside(u)' = CanceledOutside(u)
      BY <1>4, <3>1 DEF SameSight, Left, CanceledOutside
    <3>2. Left(t) = TRUE /\ Left(t)' = FALSE /\ CanceledOutside(t)' = CanceledOutside(t)
      BY <2>3, <2>6 DEF Left, CanceledOutside
    <3>3. Lefts[t] /\ Lefts' = [Lefts EXCEPT ![t] = FALSE]
      BY <3>1, <3>2
    <3>4. UNCHANGED <<Phases, Answers>>
      BY <2>2, <3>1
    <3>5. UNCHANGED Outsides
      BY <3>1, <3>2
    <3>6. Contract!LeftGoalEnds(t)
      BY <1>2, <3>3, <3>4, <3>5 DEF Contract!LeftGoalEnds, Left
    <3> QED
      BY <3>6 DEF Contract!ContractNext
  <2> QED
    BY <2>4, <2>5, <2>6
<1>6. CASE step[t] # j
  <2>1. \A u \in Task : SameSight(u)
    BY <1>4, <1>6
  <2> QED
    BY <1>2, <2>1, SightKept DEF Contract!contractVars, Contract!execVars, Left
<1> QED
  BY <1>5, <1>6

\* A feedback is a publication of a call at work, or that of a goal left behind.
LEMMA FeedbackSimulated ==
  ASSUME Placed, Told, NEW t \in Task, Feedback(t) \/ LateFeedback(t)
  PROVE  Contract!ContractNext \/ UNCHANGED Contract!contractVars
<1> USE DEF Phases, Answers, Lefts, Outsides
<1>1. UNCHANGED <<pc, step, status, entry, backend, cancel_requested>>
  BY DEF Feedback, LateFeedback, local
<1>2. UNCHANGED <<Phases, Answers, Lefts, Outsides>>
  BY <1>1, SightStays, SightKept
<1>3. StepState[CurrentKind(t)] \in Contract!StepState
  <2>1. entry[t] \/ pc[t] = "start_wait"
    BY DEF Feedback, LateFeedback, FeedbackPossible
  <2>2. CurrentKind(t) \in Kind
    BY <2>1, StepKind DEF Placed, PlacedAt, Fits, InStep
  <2> QED
    BY <2>2 DEF Kind, StepState, Contract!StepState
<1>4. CASE Feedback(t)
  <2>1. Phases[t] = "working" /\ state' = StepState[CurrentKind(t)]
    BY <1>4, SightAtWork DEF Feedback, FrameAlive
  <2>2. state' \in Contract!ProgressState \ {"DONE"}
    BY <1>3, <2>1 DEF Contract!ProgressState, Contract!StepState
  <2>3. Contract!Publish(t)
    BY <1>1, <1>2, <2>1, <2>2 DEF Contract!Publish, Contract!execVars, Left
  <2> QED
    BY <2>3 DEF Contract!ContractNext
<1>5. CASE LateFeedback(t) /\ UNCHANGED state
  BY <1>1, <1>2, <1>5 DEF Contract!contractVars, Contract!execVars, Left
<1>6. CASE LateFeedback(t) /\ state' = StepState[CurrentKind(t)]
  <2>1. Lefts[t]
    BY <1>6 DEF LateFeedback, Left
  <2>2. Contract!LateFeedback(t)
    BY <1>1, <1>2, <1>3, <1>6, <2>1 DEF Contract!LateFeedback, Contract!execVars, Left
  <2> QED
    BY <2>2 DEF Contract!ContractNext
<1> QED
  BY <1>4, <1>5, <1>6 DEF LateFeedback

\* The orchestrator keeps the contract the node is built on, but for the promise to
\* return at all: whatever the servers, the other users of the FaultManager and
\* the holder of the flag do, every step of execute() is one that the contract
\* allows, or one that its caller does not see.
THEOREM KeepsContract ==
  Spec => Contract!ContractInit /\ [][Contract!ContractNext]_(Contract!contractVars)
<1>1. Init => Contract!ContractInit
  <2> SUFFICES ASSUME Init PROVE Contract!ContractInit
    OBVIOUS
  <2>1. ASSUME NEW t \in Task
        PROVE  /\ Phase(t) = "idle" /\ Answered(t) = "none"
               /\ (~FrameAlive(t) /\ FeedbackPossible(t)) = FALSE
               /\ CanceledOutside(t) = FALSE
    BY DEF Init, Phase, Answered, FeedbackPossible, CanceledOutside
  <2> QED
    BY <2>1 DEF Init, Contract!ContractInit
<1>2. Placed /\ Served /\ Told /\ [Next]_orchVars
        => [Contract!ContractNext]_(Contract!contractVars)
  <2> SUFFICES ASSUME Placed, Served, Told, [Next]_orchVars
               PROVE  Contract!ContractNext \/ UNCHANGED Contract!contractVars
    OBVIOUS
  <2>1. CASE \E t \in Task : Call(t) \/ Execute(t)
    BY <2>1, CallSimulated
  <2>2. CASE \E t \in Task : Feedback(t) \/ LateFeedback(t)
    BY <2>2, FeedbackSimulated
  <2>3. CASE BackendStep
    BY <2>3, BackendSimulated
  <2>4. CASE CallerSetsFlag
    <3>1. /\ UNCHANGED <<pc, step, status, entry, backend, state>>
          /\ cancel_requested' \in BOOLEAN
      BY <2>4 DEF CallerSetsFlag, StoreCancel, local
    <3>2. UNCHANGED <<Phases, Answers, Lefts, Outsides>>
      BY <3>1, SightStays, SightKept
    <3>3. Contract!CallerSetsFlag
      BY <3>1, <3>2
      DEF Contract!CallerSetsFlag, Contract!execVars, Phases, Answers, Lefts, Left, Outsides
    <3> QED
      BY <3>3 DEF Contract!ContractNext
  <2>5. CASE OtherFaults \/ UNCHANGED orchVars
    <3>1. UNCHANGED <<pc, step, status, entry, backend, state, cancel_requested>>
      BY <2>5 DEF OtherFaults, orchVars, local
    <3>2. UNCHANGED <<Phases, Answers, Lefts, Outsides>>
      BY <3>1, SightStays, SightKept
    <3> QED
      BY <3>1, <3>2
      DEF Contract!contractVars, Contract!execVars, Phases, Answers, Lefts, Left, Outsides
  <2> QED
    BY <2>1, <2>2, <2>3, <2>4, <2>5 DEF Next, AllReturned
<1> QED
  BY <1>1, <1>2, AlwaysPlaced, AlwaysServed, AlwaysTold, PTL DEF Spec

-------------------------------------------------------------------------------
(* The simulation of CapabilityPort by the calls execute() makes.           *)

PortPhases   == [c \in PortCall |-> PortPhase(c[1], c[2])]
PortMotions  == [c \in PortCall |-> PortMotion(c[1], c[2])]
PortStatuses == [c \in PortCall |-> PortStatus(c[1], c[2])]

\* A step that the port of step i of call t does not see.
PortKept(t, i) == /\ PortPhase(t, i)' = PortPhase(t, i)
                  /\ PortMotion(t, i)' = PortMotion(t, i)
                  /\ PortStatus(t, i)' = PortStatus(t, i)

LEMMA PortsKept ==
  ASSUME \A t \in Task, i \in StepIndex : PortKept(t, i)
  PROVE  UNCHANGED Ports!portVars
<1>1. \A c \in PortCall : c[1] \in Task /\ c[2] \in StepIndex
  BY DEF PortCall
<1> QED
  BY <1>1 DEF PortKept, Ports!portVars

\* A step that the port of one step sees, and no other.
LEMMA OnePort ==
  ASSUME NEW t \in Task, NEW i \in StepIndex,
         \A u \in Task, j \in StepIndex : u # t \/ j # i => PortKept(u, j)
  PROVE  /\ <<t, i>> \in PortCall
         /\ PortPhases[<<t, i>>] = PortPhase(t, i)
         /\ PortMotions[<<t, i>>] = PortMotion(t, i)
         /\ PortStatuses[<<t, i>>] = PortStatus(t, i)
         /\ PortPhases' = [PortPhases EXCEPT ![<<t, i>>] = PortPhase(t, i)']
         /\ PortMotions' = [PortMotions EXCEPT ![<<t, i>>] = PortMotion(t, i)']
         /\ PortStatuses' = [PortStatuses EXCEPT ![<<t, i>>] = PortStatus(t, i)']
         /\ PortPhase(t, i)' = PortPhase(t, i) => UNCHANGED PortPhases
         /\ PortMotion(t, i)' = PortMotion(t, i) => UNCHANGED PortMotions
         /\ PortStatus(t, i)' = PortStatus(t, i) => UNCHANGED PortStatuses
<1>1. <<t, i>> \in PortCall
  BY DEF PortCall
<1>2. \A c \in PortCall : c = <<t, i>> => c[1] = t /\ c[2] = i
  OBVIOUS
<1>3. \A c \in PortCall : c # <<t, i>> => PortKept(c[1], c[2])
  BY DEF PortCall
<1>4. /\ PortPhases[<<t, i>>] = PortPhase(t, i)
      /\ PortPhases' = [PortPhases EXCEPT ![<<t, i>>] = PortPhase(t, i)']
      /\ PortPhase(t, i)' = PortPhase(t, i) => UNCHANGED PortPhases
  <2>1. \A c \in PortCall :
          PortPhase(c[1], c[2])' = IF c = <<t, i>> THEN PortPhase(t, i)'
                                               ELSE PortPhase(c[1], c[2])
    BY <1>2, <1>3 DEF PortKept
  <2>2. PortPhases' = [c \in PortCall |-> IF c = <<t, i>> THEN PortPhase(t, i)'
                                                       ELSE PortPhases[c]]
    BY <2>1 DEF PortPhases
  <2>3. PortPhases[<<t, i>>] = PortPhase(t, i)
    BY <1>1 DEF PortPhases
  <2> QED
    BY <2>2, <2>3 DEF PortPhases
<1>5. /\ PortMotions[<<t, i>>] = PortMotion(t, i)
      /\ PortMotions' = [PortMotions EXCEPT ![<<t, i>>] = PortMotion(t, i)']
      /\ PortMotion(t, i)' = PortMotion(t, i) => UNCHANGED PortMotions
  <2>1. \A c \in PortCall :
          PortMotion(c[1], c[2])' = IF c = <<t, i>> THEN PortMotion(t, i)'
                                               ELSE PortMotion(c[1], c[2])
    BY <1>2, <1>3 DEF PortKept
  <2>2. PortMotions' = [c \in PortCall |-> IF c = <<t, i>> THEN PortMotion(t, i)'
                                                       ELSE PortMotions[c]]
    BY <2>1 DEF PortMotions
  <2>3. PortMotions[<<t, i>>] = PortMotion(t, i)
    BY <1>1 DEF PortMotions
  <2> QED
    BY <2>2, <2>3 DEF PortMotions
<1>6. /\ PortStatuses[<<t, i>>] = PortStatus(t, i)
      /\ PortStatuses' = [PortStatuses EXCEPT ![<<t, i>>] = PortStatus(t, i)']
      /\ PortStatus(t, i)' = PortStatus(t, i) => UNCHANGED PortStatuses
  <2>1. \A c \in PortCall :
          PortStatus(c[1], c[2])' = IF c = <<t, i>> THEN PortStatus(t, i)'
                                               ELSE PortStatus(c[1], c[2])
    BY <1>2, <1>3 DEF PortKept
  <2>2. PortStatuses' = [c \in PortCall |-> IF c = <<t, i>> THEN PortStatus(t, i)'
                                                       ELSE PortStatuses[c]]
    BY <2>1 DEF PortStatuses
  <2>3. PortStatuses[<<t, i>>] = PortStatus(t, i)
    BY <1>1 DEF PortStatuses
  <2> QED
    BY <2>2, <2>3 DEF PortStatuses
<1> QED
  BY <1>1, <1>4, <1>5, <1>6

\* The ports of the other calls, and of the other steps of a call that stays on its
\* step, see nothing of what the call does.
LEMMA OtherPorts ==
  ASSUME TypeOK, NEW t \in Task, Call(t) \/ Execute(t), NEW u \in Task, NEW j \in StepIndex,
         \/ u # t
         \/ j # step[t] /\ step'[t] = step[t] /\ backend'[t][j] = backend[t][j]
  PROVE  PortKept(u, j)
<1>1. CASE u # t
  <2>1. /\ pc'[u] = pc[u] /\ step'[u] = step[u] /\ status'[u] = status[u]
        /\ backend'[u] = backend[u]
    BY <1>1, OthersStay
  <2> QED
    BY <2>1 DEF PortKept, PortPhase, PortMotion, PortStatus, PortAnswered
<1>2. CASE u = t /\ j # step[t] /\ step'[t] = step[t] /\ backend'[t][j] = backend[t][j]
  BY <1>2 DEF PortKept, PortPhase, PortMotion, PortStatus
<1> QED
  BY <1>1, <1>2

\* A step of a call that the port of its step in progress does not see either.
LEMMA PortStays ==
  ASSUME Placed, NEW t \in Task, Call(t) \/ Execute(t), UNCHANGED <<step, backend>>,
         step[t] \in StepIndex => PortKept(t, step[t])
  PROVE  UNCHANGED Ports!portVars
<1>1. ASSUME NEW u \in Task, NEW j \in StepIndex PROVE PortKept(u, j)
  BY OtherPorts DEF Placed
<1> QED
  BY <1>1, PortsKept

\* What a call does where its port has not been started, or is no longer asked.
LEMMA AwayFromPort ==
  ASSUME Placed, Served, NEW t \in Task,
         \/ Call(t) \/ Gate(t) \/ EmitPlan(t) \/ Plan(t) \/ CheckCancel(t) \/ CheckFault(t)
         \/ Admit(t) \/ RaiseFaultCode(t) \/ RaiseFaultMode(t) \/ Finish(t)
  PROVE  UNCHANGED Ports!portVars
<1> USE DEF Goto, Return, RaiseThenReturn, local
<1>1. Call(t) \/ Execute(t)
  BY DEF Execute
<1>2. UNCHANGED <<step, backend>>
  BY DEF Call, Gate, EmitPlan, Plan, CheckCancel, CheckFault, Admit, RaiseFaultCode,
         RaiseFaultMode, Finish
<1>3. TypeOK
  BY DEF Placed
<1>4. ASSUME step[t] \in StepIndex PROVE PortKept(t, step[t])
  <2>1. ~(step[t] < step[t])
    BY <1>4 DEF StepIndex
  <2>2. PortMotion(t, step[t])' = PortMotion(t, step[t])
    BY <1>2 DEF PortMotion
  <2>3. CASE Call(t) \/ Gate(t) \/ EmitPlan(t) \/ Plan(t) \/ CheckCancel(t) \/ CheckFault(t)
             \/ Admit(t) \/ Finish(t)
    <3>1. /\ pc[t] \in NotSent \ {"send"}
          /\ \/ pc'[t] \in NotSent \ {"send"}
             \/ /\ pc'[t] \in {"returned", "raise_code"}
                /\ status'[t] \in {"RejectedBySafety", "InvalidConfiguration", "Canceled", "Ok"}
      BY <1>3, <2>3 DEF TypeOK, Call, Gate, EmitPlan, Plan, CheckCancel, CheckFault, Admit, Finish,
                        NotSent, BeforeLoop, AfterCancelCheck, AfterFaultCheck
    <3>2. backend'[t][step[t]] = "none"
      BY <1>2, <1>4, <3>1 DEF Served, ServedAt
    <3> QED
      BY <1>2, <2>1, <2>2, <3>1, <3>2
      DEF PortKept, PortPhase, PortStatus, PortAnswered, NotSent, BeforeLoop, AfterCancelCheck,
          AfterFaultCheck
  <2>4. CASE RaiseFaultCode(t) \/ RaiseFaultMode(t)
    <3>1. /\ pc[t] \in Raising /\ pc'[t] \in Ended /\ UNCHANGED status
      BY <1>3, <2>4 DEF RaiseFaultCode, RaiseFaultMode, TypeOK, Raising, Ended
    <3> QED
      BY <1>2, <2>1, <2>2, <3>1
      DEF PortKept, PortPhase, PortStatus, PortAnswered, Raising, Ended
  <2> QED
    BY <2>3, <2>4
<1> QED
  BY <1>1, <1>2, <1>4, PortStays

\* Where a call uses a port it takes one step of a user of a port, or the port sees
\* nothing: a request on its way is none of the interface's business.
LEMMA CallDrivesPort ==
  ASSUME Placed, Served, Told, NEW t \in Task,
         EmitStep(t) \/ Send(t) \/ StartReturns(t) \/ PollAfterStart(t) \/ WaitReturns(t)
  PROVE  Ports!PortNext \/ UNCHANGED Ports!portVars
<1> USE DEF Goto, Return, RaiseThenReturn, local
<1>1. Execute(t) /\ TypeOK /\ ToldAt(t) /\ ServedAt(t)
  BY DEF Execute, Placed, Told, Served
<1>2. PICK i \in StepIndex : i = step[t] /\ i \in Nat
  <2>1. pc[t] \in InStep
    BY DEF EmitStep, Send, StartReturns, PollAfterStart, WaitReturns, InStep, AfterCancelCheck,
           AfterFaultCheck
  <2> QED
    BY <2>1, StepInTable DEF StepIndex
<1> DEFINE c == <<t, i>>
<1>3. ASSUME ~WaitReturns(t)
      PROVE  \A u \in Task, j \in StepIndex : u # t \/ j # i => PortKept(u, j)
  <2>1. /\ UNCHANGED step
        /\ \A j \in StepIndex : j # i => backend'[t][j] = backend[t][j]
    BY <1>1, <1>2, <1>3 DEF EmitStep, Send, StartReturns, NoAnswer, PollAfterStart, SetCurrent,
                            CancelGoal, TypeOK
  <2> QED
    BY <1>1, <1>2, <2>1, OtherPorts
<1>4. CASE EmitStep(t)
  <2>1. /\ pc[t] = "emit_step" /\ pc'[t] = "send" /\ UNCHANGED <<step, backend, status>>
    BY <1>1, <1>4 DEF EmitStep, TypeOK
  <2>2. /\ PortPhase(t, i) = "idle" /\ PortPhase(t, i)' = "starting"
        /\ PortMotion(t, i)' = PortMotion(t, i) /\ PortStatus(t, i)' = PortStatus(t, i)
    BY <1>2, <2>1 DEF PortPhase, PortMotion, PortStatus, PortAnswered
  <2>3. ~WaitReturns(t)
    BY <2>1 DEF WaitReturns
  <2>4. /\ c \in PortCall /\ PortPhases[c] = "idle"
        /\ PortPhases' = [PortPhases EXCEPT ![c] = "starting"]
        /\ UNCHANGED <<PortMotions, PortStatuses>>
    BY <1>3, <2>2, <2>3, OnePort
  <2>5. Ports!BeginStart(c)
    BY <2>4 DEF Ports!BeginStart, PortPhases, PortMotions, PortStatuses
  <2> QED
    BY <2>4, <2>5 DEF Ports!PortNext
<1>5. CASE Send(t)
  <2>0. /\ pc[t] = "send" /\ UNCHANGED step /\ backend[t][i] = "none" /\ ~WaitReturns(t)
    BY <1>1, <1>2, <1>5 DEF Send, WaitReturns, ServedAt, NotSent, AfterCancelCheck, AfterFaultCheck
  <2>1. CASE SetCurrent(t, "requested") /\ pc'[t] = "start_wait"
    <3>1. backend'[t][i] = "requested"
      BY <1>1, <1>2, <2>1 DEF SetCurrent, TypeOK
    <3>2. PortKept(t, i)
      BY <1>2, <2>0, <2>1, <3>1 DEF PortKept, PortPhase, PortMotion, PortStatus, PortAnswered
    <3>3. UNCHANGED Ports!portVars
      BY <1>3, <2>0, <3>2, PortsKept
    <3> QED
      BY <3>3
  <2>2. CASE RaiseThenReturn(t, "Unavailable") /\ UNCHANGED backend
    <3>1. pc'[t] = "raise_code" /\ status'[t] = "Unavailable"
      BY <1>1, <2>2 DEF TypeOK
    <3>2. /\ PortPhase(t, i) = "starting" /\ PortPhase(t, i)' = "done"
          /\ PortMotion(t, i) = "none" /\ PortMotion(t, i)' = "none"
          /\ PortStatus(t, i)' = "Failed"
      BY <1>2, <2>0, <2>2, <3>1 DEF PortPhase, PortMotion, PortStatus, PortAnswered
    <3>3. /\ c \in PortCall /\ PortPhases[c] = "starting"
          /\ PortPhases' = [PortPhases EXCEPT ![c] = "done"]
          /\ PortStatuses' = [PortStatuses EXCEPT ![c] = PortStatus(t, i)']
          /\ PortMotions[c] = PortMotion(t, i) /\ UNCHANGED PortMotions
      BY <1>3, <2>0, <3>2, OnePort
    <3>4. Ports!StartFails(c)
      BY <3>2, <3>3 DEF Ports!StartFails, PortPhases, PortMotions, PortStatuses
    <3> QED
      BY <3>3, <3>4 DEF Ports!PortNext
  <2> QED
    BY <1>1, <1>5, <2>1, <2>2 DEF Send, TypeOK
<1>6. CASE StartReturns(t)
  <2>0. /\ pc[t] = "start_wait" /\ UNCHANGED <<step, backend>> /\ ~WaitReturns(t)
        /\ backend[t][i] \in BackendState /\ backend[t][i] # "none"
    BY <1>1, <1>2, <1>6 DEF StartReturns, NoAnswer, WaitReturns, TypeOK, ToldAt, Current
  <2>1. CASE Current(t) \notin {"requested", "refused"} /\ pc'[t] = "post_start"
    <3>1. /\ PortPhase(t, i) = "starting" /\ PortPhase(t, i)' = "started"
          /\ PortMotion(t, i) # "none" /\ PortMotion(t, i)' = PortMotion(t, i)
          /\ PortStatus(t, i)' = PortStatus(t, i)
      BY <1>2, <2>0, <2>1
      DEF PortPhase, PortMotion, PortStatus, PortAnswered, Current, BackendState
    <3>2. /\ c \in PortCall /\ PortPhases[c] = "starting"
          /\ PortPhases' = [PortPhases EXCEPT ![c] = "started"]
          /\ PortMotions[c] # "none" /\ UNCHANGED <<PortMotions, PortStatuses>>
      BY <1>3, <2>0, <3>1, OnePort
    <3>3. Ports!StartSucceeds(c)
      BY <3>2 DEF Ports!StartSucceeds, PortPhases, PortMotions, PortStatuses
    <3> QED
      BY <3>2, <3>3 DEF Ports!PortNext
  <2>2. CASE \/ Current(t) = "refused" /\ RaiseThenReturn(t, "Unavailable")
             \/ RaiseThenReturn(t, "Timeout")
    <3>1. /\ pc'[t] = "raise_code"
          /\ \/ status'[t] = "Unavailable" /\ backend[t][i] = "refused"
             \/ status'[t] = "Timeout"
      BY <1>1, <1>2, <2>2 DEF TypeOK, Current
    <3>2. /\ PortPhase(t, i) = "starting" /\ PortPhase(t, i)' = "done"
          /\ PortMotion(t, i)' = PortMotion(t, i)
          /\ \/ PortStatus(t, i)' = "Timeout"
             \/ PortStatus(t, i)' = "Failed" /\ PortMotion(t, i) = "none"
      BY <1>2, <2>0, <3>1 DEF PortPhase, PortMotion, PortStatus, PortAnswered
    <3>3. /\ c \in PortCall /\ PortPhases[c] = "starting"
          /\ PortPhases' = [PortPhases EXCEPT ![c] = "done"]
          /\ PortStatuses' = [PortStatuses EXCEPT ![c] = PortStatus(t, i)']
          /\ PortMotions[c] = PortMotion(t, i) /\ UNCHANGED PortMotions
      BY <1>3, <2>0, <3>2, OnePort
    <3>4. Ports!StartFails(c)
      BY <3>2, <3>3 DEF Ports!StartFails, PortPhases, PortMotions, PortStatuses
    <3> QED
      BY <3>3, <3>4 DEF Ports!PortNext
  <2> QED
    BY <1>1, <1>6, <2>1, <2>2 DEF StartReturns, NoAnswer, TypeOK
<1>7. CASE PollAfterStart(t)
  <2>0. /\ pc[t] = "post_start" /\ UNCHANGED step /\ ~WaitReturns(t)
        /\ backend[t][i] \in Taken
    BY <1>1, <1>2, <1>7 DEF PollAfterStart, WaitReturns, ToldAt, Current
  <2>1. CASE CancelGoal(t) /\ Return(t, "Canceled")
    <3>1. pc'[t] = "returned" /\ status'[t] = "Canceled"
      BY <1>1, <2>1 DEF TypeOK
    <3>2. /\ backend'[t][i] \in Taken
          /\ backend'[t][i] = IF backend[t][i] = "active" THEN "cancel_asked" ELSE backend[t][i]
      BY <1>1, <1>2, <2>0, <2>1 DEF CancelGoal, Current, TypeOK, Taken
    <3>3. /\ PortPhase(t, i) = "started" /\ PortPhase(t, i)' = "done"
          /\ PortStatus(t, i)' = "Canceled"
      BY <1>2, <2>0, <3>1, <3>2 DEF PortPhase, PortStatus, PortAnswered, Taken
    <3>4. PortMotion(t, i)' = PortMotion(t, i)
      BY <2>0, <3>2 DEF PortMotion
    <3>5. /\ c \in PortCall /\ PortPhases[c] = "started"
          /\ PortPhases' = [PortPhases EXCEPT ![c] = "done"]
          /\ PortStatuses' = [PortStatuses EXCEPT ![c] = "Canceled"]
          /\ UNCHANGED PortMotions
      BY <1>3, <2>0, <3>3, <3>4, OnePort
    <3>6. Ports!CancelGoal(c)
      BY <3>5 DEF Ports!CancelGoal, PortPhases, PortMotions, PortStatuses
    <3> QED
      BY <3>5, <3>6 DEF Ports!PortNext
  <2>2. CASE pc'[t] = "waiting" /\ UNCHANGED <<backend, status>>
    <3>1. /\ PortPhase(t, i) = "started" /\ PortPhase(t, i)' = "waiting"
          /\ PortMotion(t, i)' = PortMotion(t, i) /\ PortStatus(t, i)' = PortStatus(t, i)
      BY <1>2, <2>0, <2>2 DEF PortPhase, PortMotion, PortStatus, PortAnswered
    <3>2. /\ c \in PortCall /\ PortPhases[c] = "started"
          /\ PortPhases' = [PortPhases EXCEPT ![c] = "waiting"]
          /\ UNCHANGED <<PortMotions, PortStatuses>>
      BY <1>3, <2>0, <3>1, OnePort
    <3>3. Ports!BeginWait(c)
      BY <3>2 DEF Ports!BeginWait, PortPhases, PortMotions, PortStatuses
    <3> QED
      BY <3>2, <3>3 DEF Ports!PortNext
  <2> QED
    BY <1>1, <1>7, <2>1, <2>2 DEF PollAfterStart, TypeOK
<1>8. CASE WaitReturns(t)
  <2>0. pc[t] = "waiting" /\ UNCHANGED backend
    BY <1>8 DEF WaitReturns
  <2>1. PortPhase(t, i) = "waiting" /\ PortMotion(t, i)' = PortMotion(t, i)
    <3>1. PortPhase(t, i) = "waiting"
      BY <1>2, <2>0 DEF PortPhase, PortAnswered
    <3>2. PortMotion(t, i)' = PortMotion(t, i)
      BY <2>0 DEF PortMotion
    <3> QED
      BY <3>1, <3>2
  <2>2. CASE /\ backend[t][i] = "succeeded" /\ step'[t] = i + 1
             /\ pc'[t] = "cancel_check"
    <3>1. /\ PortPhase(t, i)' = "done" /\ PortStatus(t, i)' = "Ok"
          /\ PortMotion(t, i) = "succeeded"
      BY <1>2, <2>2 DEF PortPhase, PortStatus, PortMotion
    <3>2. ASSUME NEW j \in StepIndex, j # i PROVE PortKept(t, j)
      <4>1. j \in Nat
        BY DEF StepIndex
      <4>2. PortMotion(t, j)' = PortMotion(t, j)
        BY <2>0 DEF PortMotion
      <4>3. CASE j < i
        BY <1>2, <2>2, <4>1, <4>2, <4>3 DEF PortKept, PortPhase, PortStatus
      <4>4. CASE j > i
        BY <1>2, <2>2, <4>1, <4>2, <4>4 DEF PortKept, PortPhase, PortStatus, PortAnswered
      <4> QED
        BY <1>2, <3>2, <4>1, <4>3, <4>4
    <3>3. \A u \in Task, j \in StepIndex : u # t \/ j # i => PortKept(u, j)
      BY <1>1, <3>2, OtherPorts
    <3>4. /\ c \in PortCall /\ PortPhases[c] = "waiting"
          /\ PortPhases' = [PortPhases EXCEPT ![c] = "done"]
          /\ PortStatuses' = [PortStatuses EXCEPT ![c] = "Ok"]
          /\ PortMotions[c] = "succeeded" /\ UNCHANGED PortMotions
      BY <2>1, <3>1, <3>3, OnePort
    <3>5. Ports!WaitReturns(c)
      BY <3>4 DEF Ports!WaitReturns, PortPhases, PortMotions, PortStatuses
    <3> QED
      BY <3>4, <3>5 DEF Ports!PortNext
  <2>3. CASE /\ UNCHANGED step /\ pc'[t] = "raise_code"
             /\ \/ backend[t][i] = "failed" /\ status'[t] = "InternalError"
                \/ backend[t][i] = "canceled" /\ status'[t] = "Canceled"
                \/ status'[t] = "Timeout"
    <3>1. /\ PortPhase(t, i)' = "done"
          /\ \/ PortStatus(t, i)' = "Failed" /\ PortMotion(t, i) = "failed"
             \/ PortStatus(t, i)' = "Canceled" /\ PortMotion(t, i) = "canceled"
             \/ PortStatus(t, i)' = "Timeout"
      BY <1>2, <2>0, <2>3 DEF PortPhase, PortStatus, PortMotion, PortAnswered
    <3>2. \A u \in Task, j \in StepIndex : u # t \/ j # i => PortKept(u, j)
      BY <1>1, <1>2, <2>0, <2>3, OtherPorts
    <3>3. /\ c \in PortCall /\ PortPhases[c] = "waiting"
          /\ PortPhases' = [PortPhases EXCEPT ![c] = "done"]
          /\ PortStatuses' = [PortStatuses EXCEPT ![c] = PortStatus(t, i)']
          /\ PortMotions[c] = PortMotion(t, i) /\ UNCHANGED PortMotions
      BY <2>1, <3>1, <3>2, OnePort
    <3>4. Ports!WaitReturns(c)
      BY <3>1, <3>3 DEF Ports!WaitReturns, PortPhases, PortMotions, PortStatuses
    <3> QED
      BY <3>3, <3>4 DEF Ports!PortNext
  <2> QED
    BY <1>1, <1>2, <1>8, <2>2, <2>3 DEF WaitReturns, GiveUp, TypeOK, Current
<1> QED
  BY <1>4, <1>5, <1>6, <1>7, <1>8

\* A server takes a goal while start() waits or after a time-out, and ends one it has
\* taken; a refusal is seen by start() alone.
LEMMA BackendDrivesPort ==
  ASSUME Placed, Served, BackendStep
  PROVE  Ports!PortNext \/ UNCHANGED Ports!portVars
<1> PICK t \in Task, i \in StepIndex : BackendAnswers(t, i) \/ BackendEnds(t, i)
  BY DEF BackendStep
<1>1. PICK b \in {"active", "refused"} \cup Outcome :
        /\ GoalBecomes(t, i, b)
        /\ IF b \in Outcome THEN backend[t][i] \in {"active", "cancel_asked"}
                            ELSE backend[t][i] = "requested"
  BY DEF BackendAnswers, BackendEnds, GoalBecomes, Outcome
<1>2. UNCHANGED <<pc, step, status>>
  BY DEF BackendAnswers, BackendEnds, local
<1>3. OnlyGoalBecomes(t, i, b)
  BY <1>1, GoalAt DEF Placed
<1>4. backend[t][i] # "none" /\ backend'[t][i] = b /\ b # "none"
  BY <1>1, <1>3 DEF OnlyGoalBecomes, Outcome
<1>5. \A u \in Task, j \in StepIndex : u # t \/ j # i => PortKept(u, j)
  BY <1>2, <1>3 DEF OnlyGoalBecomes, PortKept, PortPhase, PortMotion, PortStatus, PortAnswered
<1>6. /\ PortPhase(t, i)' = PortPhase(t, i) /\ PortStatus(t, i)' = PortStatus(t, i)
  BY <1>2, <1>4 DEF PortPhase, PortStatus, PortAnswered
<1>7. CASE b = "refused"
  <2>1. PortKept(t, i)
    BY <1>1, <1>4, <1>6, <1>7 DEF PortKept, PortMotion, Outcome
  <2> QED
    BY <1>5, <2>1, PortsKept
<1>8. CASE b = "active"
  <2>1. backend[t][i] = "requested"
    BY <1>1, <1>8 DEF Outcome
  <2>2. ServedAt(t)
    BY DEF Served
  <2>3. i = step[t] /\ step[t] \in Nat
    <3>1. i \in Nat /\ step[t] \in Nat
      BY GraphsAssumption DEF Placed, TypeOK, StepIndex
    <3> QED
      BY <2>1, <2>2, <3>1 DEF ServedAt
  <2>4. pc[t] \in {"start_wait"} \cup Ended
    <3>1. pc[t] \notin NotSent /\ pc[t] \notin {"post_start", "waiting"}
      BY <2>1, <2>2, <2>3 DEF ServedAt
    <3> QED
      BY <3>1 DEF Placed, TypeOK, ExecutePC, NotSent, BeforeLoop, AfterCancelCheck,
                  AfterFaultCheck, Ended, Raising
  <2>5. pc[t] \in Ended => status[t] = "Timeout"
    BY <2>1, <2>2 DEF ServedAt, Open
  <2>6. PortPhase(t, i) = "starting" \/ PortStatus(t, i) = "Timeout"
    BY <2>3, <2>4, <2>5 DEF PortPhase, PortStatus, PortAnswered, Ended, Raising
  <2>7. PortMotion(t, i) = "none" /\ PortMotion(t, i)' = "running"
    BY <1>4, <1>8, <2>1 DEF PortMotion
  <2>8. Ports!TakeGoal(<<t, i>>)
    BY <1>5, <1>6, <2>6, <2>7, OnePort DEF Ports!TakeGoal, PortPhases, PortMotions, PortStatuses
  <2> QED
    BY <2>8, OnePort, <1>5 DEF Ports!PortNext
<1>9. CASE b \in Outcome
  <2>1. PortMotion(t, i) = "running" /\ PortMotion(t, i)' = b
    BY <1>1, <1>4, <1>9 DEF PortMotion, Outcome
  <2>2. b \in Ports!Ended
    BY <1>9 DEF Outcome, Ports!Ended
  <2>3. Ports!GoalEnds(<<t, i>>)
    BY <1>5, <1>6, <2>1, <2>2, OnePort DEF Ports!GoalEnds, PortPhases, PortMotions, PortStatuses
  <2> QED
    BY <2>3, OnePort, <1>5 DEF Ports!PortNext
<1> QED
  BY <1>7, <1>8, <1>9

\* execute() uses each port as the adapters are modelled to be used, for any number of
\* calls, any plans, and whatever the servers, the flag and the faults do: one start
\* for a step, then one cancel or one wait on the goal that start returned.
THEOREM PortsWellUsed == Spec => UsesPorts
<1>1. Init => Ports!PortInit
  <2> SUFFICES ASSUME Init PROVE Ports!PortInit
    OBVIOUS
  <2>1. ASSUME NEW t \in Task, NEW i \in StepIndex
        PROVE  PortPhase(t, i) = "idle" /\ PortMotion(t, i) = "none" /\ PortStatus(t, i) = "none"
    <3>1. ~(i < 1) /\ step[t] = 1
      BY DEF Init, StepIndex
    <3> QED
      BY <3>1 DEF Init, PortPhase, PortMotion, PortStatus, PortAnswered
  <2> QED
    BY <2>1 DEF Ports!PortInit, PortCall
<1>2. Placed /\ Served /\ Told /\ [Next]_orchVars => [Ports!PortNext]_(Ports!portVars)
  <2> SUFFICES ASSUME Placed, Served, Told, [Next]_orchVars
               PROVE  Ports!PortNext \/ UNCHANGED Ports!portVars
    OBVIOUS
  <2>1. CASE \E t \in Task : Call(t) \/ Execute(t)
    <3>1. PICK t \in Task : Call(t) \/ Execute(t)
      BY <2>1
    <3> QED
      BY <3>1, AwayFromPort, CallDrivesPort DEF Execute
  <2>2. CASE BackendStep
    BY <2>2, BackendDrivesPort
  <2>3. CASE \/ \E t \in Task : Feedback(t) \/ LateFeedback(t)
             \/ CallerSetsFlag \/ OtherFaults \/ UNCHANGED orchVars
    <3>1. UNCHANGED <<pc, step, status, backend>>
      BY <2>3 DEF Feedback, LateFeedback, CallerSetsFlag, OtherFaults, orchVars, local
    <3>2. \A t \in Task, i \in StepIndex : PortKept(t, i)
      BY <3>1 DEF PortKept, PortPhase, PortMotion, PortStatus, PortAnswered
    <3> QED
      BY <3>2, PortsKept
  <2> QED
    BY <2>1, <2>2, <2>3 DEF Next, AllReturned
<1> QED
  BY <1>1, <1>2, AlwaysPlaced, AlwaysServed, AlwaysTold, PTL DEF Spec, UsesPorts, Ports!PortSpec

-------------------------------------------------------------------------------
(* How long a call can work.                                               *)

\* What is left of a call is a number of steps.
LEMMA WorkIsLeft ==
  ASSUME TypeOK, NEW t \in Task
  PROVE  WorkLeft(t) \in Nat
<1>1. step[t] \in 1 .. MaxSteps + 1 /\ MaxSteps \in Nat
  BY GraphsAssumption DEF TypeOK
<1>2. 8 * (MaxSteps + 1 - step[t]) \in Nat
  BY <1>1
<1>3. pc[t] \in ExecutePC \cup {"idle", "returned"}
  BY DEF TypeOK
<1> QED
  BY <1>2, <1>3 DEF WorkLeft, ExecutePC, AfterCancelCheck, AfterFaultCheck

\* A step of a call brings it nearer to its return.
LEMMA WorkDone ==
  ASSUME Placed, Placed', NEW t \in Task, Call(t) \/ Execute(t)
  PROVE  WorkLeft(t)' < WorkLeft(t)
<1> USE DEF Goto, Return, RaiseThenReturn, local
<1>1. /\ TypeOK /\ MaxSteps \in Nat
      /\ step[t] \in 1 .. MaxSteps + 1 /\ step'[t] \in 1 .. MaxSteps + 1
  BY GraphsAssumption DEF Placed, TypeOK
<1>2. CASE WaitReturns(t) /\ Current(t) = "succeeded" /\ step' = [step EXCEPT ![t] = @ + 1]
           /\ pc' = [pc EXCEPT ![t] = "cancel_check"]
  <2>1. pc[t] = "waiting" /\ pc'[t] = "cancel_check" /\ step'[t] = step[t] + 1
    BY <1>1, <1>2 DEF WaitReturns, TypeOK
  <2>2. 8 * (MaxSteps + 1 - step'[t]) = 8 * (MaxSteps + 1 - step[t]) - 8
    BY <1>1, <2>1
  <2>3. 8 * (MaxSteps + 1 - step[t]) \in Nat
    BY <1>1
  <2> QED
    BY <2>1, <2>2, <2>3 DEF WorkLeft
<1>3. ASSUME NEW k \in Nat, k = 8 * (MaxSteps + 1 - step[t]), UNCHANGED step
      PROVE  WorkLeft(t)' < WorkLeft(t)
  <2>1. 8 * (MaxSteps + 1 - step'[t]) = k
    BY <1>3
  <2>2. \/ pc[t] = "idle" /\ pc'[t] = "gate"
        \/ pc[t] = "gate" /\ pc'[t] \in {"emit_plan", "returned"}
        \/ pc[t] = "emit_plan" /\ pc'[t] = "plan"
        \/ pc[t] = "plan" /\ pc'[t] \in {"cancel_check", "returned"}
        \/ pc[t] = "cancel_check" /\ pc'[t] \in {"fault_check", "done", "returned"}
        \/ pc[t] = "fault_check" /\ pc'[t] \in {"admit", "returned"}
        \/ pc[t] = "admit" /\ pc'[t] \in {"emit_step", "raise_code"}
        \/ pc[t] = "emit_step" /\ pc'[t] = "send"
        \/ pc[t] = "send" /\ pc'[t] \in {"start_wait", "raise_code"}
        \/ pc[t] = "start_wait" /\ pc'[t] \in {"post_start", "raise_code"}
        \/ pc[t] = "post_start" /\ pc'[t] \in {"waiting", "returned"}
        \/ pc[t] = "waiting" /\ pc'[t] = "raise_code"
        \/ pc[t] = "raise_code" /\ pc'[t] = "raise_mode"
        \/ pc[t] = "raise_mode" /\ pc'[t] = "returned"
        \/ pc[t] = "done" /\ pc'[t] = "returned"
    BY <1>1, <1>3 DEF TypeOK, Call, Execute, Gate, EmitPlan, Plan, CheckCancel, CheckFault, Admit,
       EmitStep, Send, StartReturns, NoAnswer, PollAfterStart, WaitReturns, GiveUp,
       RaiseFaultCode, RaiseFaultMode, Finish
  <2> QED
    BY <1>3, <2>1, <2>2 DEF WorkLeft
<1>4. \/ UNCHANGED step
      \/ WaitReturns(t) /\ Current(t) = "succeeded" /\ step' = [step EXCEPT ![t] = @ + 1]
           /\ pc' = [pc EXCEPT ![t] = "cancel_check"]
  BY DEF Call, Execute, Gate, EmitPlan, Plan, CheckCancel, CheckFault, Admit,
       EmitStep, Send, StartReturns, NoAnswer, PollAfterStart, WaitReturns, GiveUp,
       RaiseFaultCode, RaiseFaultMode, Finish
<1>5. 8 * (MaxSteps + 1 - step[t]) \in Nat
  BY <1>1
<1> QED
  BY <1>2, <1>3, <1>4, <1>5

\* Whoever steps, the work left stays as it is or gets less, and a step of the call
\* itself makes it less.
LEMMA WorkOnward ==
  ASSUME Placed, Placed', NEW t \in Task, NEW n \in Nat, WorkLeft(t) = n,
         [Next]_orchVars
  PROVE  /\ WorkLeft(t)' < n \/ (WorkLeft(t)' = n /\ pc'[t] = pc[t])
         /\ Execute(t) => WorkLeft(t)' < n
<1>1. CASE Call(t) \/ Execute(t)
  <2>1. WorkLeft(t)' < WorkLeft(t)
    BY <1>1, WorkDone
  <2> QED
    BY <2>1
<1>2. CASE ~(Call(t) \/ Execute(t))
  <2>1. pc'[t] = pc[t] /\ step'[t] = step[t]
    <3>1. CASE \E u \in Task : Call(u) \/ Execute(u)
      BY <1>2, <3>1, OthersStay DEF Placed
    <3>2. CASE ~(\E u \in Task : Call(u) \/ Execute(u))
      BY <3>2 DEF Next, Feedback, LateFeedback, BackendStep, BackendAnswers, BackendEnds,
                  CallerSetsFlag, OtherFaults, AllReturned, orchVars, local
    <3> QED
      BY <3>1, <3>2
  <2>2. WorkLeft(t)' = WorkLeft(t)
    BY <2>1 DEF WorkLeft
  <2> QED
    BY <1>2, <2>1, <2>2
<1> QED
  BY <1>1, <1>2

\* A call returns after a bounded number of its own steps, whatever the other calls,
\* the servers, the flag and the faults do.
THEOREM ExecuteIsBounded == Spec => BoundedWork
<1>1. Placed /\ Placed' /\ [Next]_orchVars
        => [\A t \in Task : /\ WorkLeft(t)' \in 0 .. WorkLeft(t)
                            /\ Execute(t) => WorkLeft(t)' < WorkLeft(t)]_orchVars
  <2> SUFFICES ASSUME Placed, Placed', [Next]_orchVars, ~UNCHANGED orchVars, NEW t \in Task
               PROVE  /\ WorkLeft(t)' \in 0 .. WorkLeft(t)
                      /\ Execute(t) => WorkLeft(t)' < WorkLeft(t)
    OBVIOUS
  <2>1. WorkLeft(t) \in Nat /\ WorkLeft(t)' \in Nat
    <3>1. TypeOK /\ TypeOK'
      BY DEF Placed
    <3>2. WorkLeft(t) \in Nat
      BY <3>1, WorkIsLeft
    <3>3. step'[t] \in 1 .. MaxSteps + 1 /\ MaxSteps \in Nat
          /\ pc'[t] \in ExecutePC \cup {"idle", "returned"}
      BY <3>1, GraphsAssumption DEF TypeOK
    <3>4. 8 * (MaxSteps + 1 - step'[t]) \in Nat
      BY <3>3
    <3>5. WorkLeft(t)' \in Nat
      BY <3>3, <3>4 DEF WorkLeft, ExecutePC, AfterCancelCheck, AfterFaultCheck
    <3> QED
      BY <3>2, <3>5
  <2> QED
    BY <2>1, WorkOnward
<1> QED
  BY <1>1, AlwaysPlaced, PTL DEF Spec, BoundedWork

-------------------------------------------------------------------------------
(* Liveness.                                                               *)

\* A call in progress with n of its steps left to do.
WorkingWith(t, n) == pc[t] \in ExecutePC /\ WorkLeft(t) = n

\* A call never stays where it is: whatever the work left, it gets less in the end, for
\* any plans, however the servers keep silent and the other calls, the flag and the
\* faults come in between.  With ExecuteIsBounded this is all of termination but the
\* induction over the work left.  That the thread can always step is NeverStuck.
THEOREM WorkGetsDone ==
  Spec /\ []NeverStuck => \A t \in Task, n \in Nat : WorkingWith(t, n) ~> WorkLeft(t) < n
<1> SUFFICES ASSUME NEW t \in Task, NEW n \in Nat
             PROVE  Spec /\ []NeverStuck => (WorkingWith(t, n) ~> WorkLeft(t) < n)
  OBVIOUS
<1> DEFINE A == WorkingWith(t, n)
           Z == WorkLeft(t) < n
<1>1. Placed /\ Placed' /\ A /\ [Next]_orchVars => A' \/ Z'
  BY WorkOnward DEF WorkingWith
<1>2. Placed /\ Placed' /\ A /\ [Next]_orchVars /\ <<Execute(t)>>_orchVars => Z'
  BY WorkOnward DEF WorkingWith
<1>3. NeverStuck /\ A => ENABLED <<Execute(t)>>_orchVars
  BY DEF NeverStuck, WorkingWith
<1>4. Fairness => CallRuns(t)
  BY DEF Fairness
<1> HIDE DEF A, Z
<1>5. Spec /\ []NeverStuck => (A ~> Z)
  BY <1>1, <1>2, <1>3, <1>4, AlwaysPlaced, PTL DEF Spec, CallRuns
<1> QED
  BY <1>5 DEF A, Z

===============================================================================
