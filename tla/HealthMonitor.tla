----------------------------- MODULE HealthMonitor ----------------------------
(***************************************************************************)
(* HealthMonitor::on_rt_loop_stats, the callback that turns the statistics *)
(* of the RT loop into faults and takes those faults back, together with   *)
(* what it races with and what feeds it:                                   *)
(*   - the task threads, which raise task faults in the same FaultManager; *)
(*   - the RT loop, whose deadline counter and last error are sampled      *)
(*     into /robot/rt_loop_stats messages that the topic may overwrite.    *)
(* Every call of raise() and clear() is two writes, and the monitor's test *)
(* before clear() is two reads: each is a step.                            *)
(*                                                                         *)
(* RtExchangeForgets, AfterReceiveOnce, MissedTotal and AnyFault are       *)
(* faulty variants of the definitions that stand next to them; no action   *)
(* uses them.                                                              *)
(***************************************************************************)
EXTENDS Naturals, FaultManager

CONSTANTS
  Raiser,      \* task threads that may raise a fault
  RaisedCode,  \* the codes they raise
  Threshold,   \* kMissedDeltaFaultThreshold
  MaxMissed    \* bound on the RT loop's deadline counter

ASSUME RaiserAssumption    == RaisedCode \subseteq TaskCode
ASSUME ThresholdAssumption == Threshold \in Nat \ {0} /\ MaxMissed \in Nat

VARIABLES
  \* RtControlLoop and the statistics topic
  rt_running, missed_deadlines, rt_error, bus_ok,
  topic,              \* the last message published and not yet received
  \* HealthMonitor
  mpc,                \* where the callback is
  msg,                \* the message it handles
  last_seen_missed, have_missed_baseline, last_error,
  \* the task threads
  rpc,                \* where each raise() is
  \* history
  open,               \* a task fault has been raised and never acknowledged
  raced,              \* a raise() ran into the monitor's clear()
  masked              \* an RT code replaced the code of a task fault

rtVars      == <<rt_running, missed_deadlines, rt_error, bus_ok>>
monitorVars == <<last_seen_missed, have_missed_baseline, last_error>>
faultVars   == <<mode, fault_code>>
history     == <<open, raced, masked>>
vars == <<rtVars, topic, mpc, msg, monitorVars, rpc, faultVars, history>>

Message   == [running : BOOLEAN, missed : 0 .. MaxMissed, error : BOOLEAN]
Stats     == [running |-> rt_running, missed |-> missed_deadlines,
              error |-> rt_error]
NoMessage == [running |-> FALSE, missed |-> 0, error |-> FALSE]

MonitorPC == {"idle", "error_code", "error_mode", "error_base", "judge",
              "missed_code", "missed_mode", "check_mode", "check_code",
              "clear_code", "clear_mode"}
Clearing  == mpc \in {"clear_code", "clear_mode"}

-------------------------------------------------------------------------------
(* The RT side.                                                            *)

\* A cycle overruns its period.
RtMisses ==
  /\ rt_running /\ missed_deadlines < MaxMissed
  /\ missed_deadlines' = missed_deadlines + 1
  /\ UNCHANGED <<rt_running, rt_error, bus_ok, topic, mpc, msg, monitorVars,
                 rpc, faultVars, history>>

RtExchangeForgets ==
  /\ rt_running
  /\ bus_ok' \in BOOLEAN
  /\ rt_error' = ~bus_ok'
  /\ UNCHANGED <<rt_running, missed_deadlines, topic, mpc, msg, monitorVars,
                 rpc, faultVars, history>>

\* The bus begins or ceases to fail its exchanges.  last_error_ keeps the text of
\* a failure: no good cycle, stop() or start() ever empties it.
RtExchange ==
  /\ rt_running
  /\ bus_ok' \in BOOLEAN
  /\ rt_error' = (rt_error \/ ~bus_ok')
  /\ UNCHANGED <<rt_running, missed_deadlines, topic, mpc, msg, monitorVars,
                 rpc, faultVars, history>>

\* on_deactivate, and on_activate: start() zeroes the counter.
RtStops ==
  /\ rt_running
  /\ rt_running' = FALSE
  /\ UNCHANGED <<missed_deadlines, rt_error, bus_ok, topic, mpc, msg,
                 monitorVars, rpc, faultVars, history>>

RtStarts ==
  /\ ~rt_running
  /\ rt_running' = TRUE
  /\ missed_deadlines' = 0
  /\ UNCHANGED <<rt_error, bus_ok, topic, mpc, msg, monitorVars, rpc,
                 faultVars, history>>

\* on_cleanup and on_configure: a new loop object, without an error.
RtReconfigured ==
  /\ ~rt_running
  /\ missed_deadlines' = 0
  /\ rt_error' = FALSE
  /\ bus_ok' = TRUE
  /\ UNCHANGED <<rt_running, topic, mpc, msg, monitorVars, rpc, faultVars,
                 history>>

\* read() publishes the statistics; an unread message is overwritten.
Publish ==
  /\ topic' = {Stats}
  /\ UNCHANGED <<rtVars, mpc, msg, monitorVars, rpc, faultVars, history>>

-------------------------------------------------------------------------------
(* on_rt_loop_stats                                                        *)

AfterReceiveOnce == IF msg'.error /\ mode = "Ok" THEN "error_code" ELSE "judge"
AfterReceive     == IF msg'.error THEN "error_code" ELSE "judge"

Receive ==
  /\ mpc = "idle"
  /\ \E m \in topic : msg' = m
  /\ topic' = {}
  /\ last_error' = msg'.error
  /\ mpc' = AfterReceive
  /\ UNCHANGED <<rtVars, last_seen_missed, have_missed_baseline, rpc, faultVars,
                 history>>

\* The monitor's raise(Fault, c): from place "here" to "next".
MonitorRaiseCode(here, c, next) ==
  /\ mpc = here
  /\ RaiseCode(c)
  /\ masked' = (masked \/ fault_code \in TaskCode)
  /\ mpc' = next
  /\ UNCHANGED <<rtVars, topic, msg, monitorVars, rpc, mode, open, raced>>

MonitorRaiseMode(here, next) ==
  /\ mpc = here
  /\ RaiseMode("Fault")
  /\ mpc' = next
  /\ UNCHANGED <<rtVars, topic, msg, monitorVars, rpc, fault_code, history>>

\* The last use of the message.
SetBaseline == /\ last_seen_missed' = msg.missed
               /\ have_missed_baseline' = TRUE
               /\ msg' = NoMessage

\* The error path re-bases the counter after raising.
ErrorBaseline ==
  /\ mpc = "error_base"
  /\ SetBaseline
  /\ mpc' = "idle"
  /\ UNCHANGED <<rtVars, topic, last_error, rpc, faultVars, history>>

MissedTotal == msg.missed
MissedDelta == IF msg.missed >= last_seen_missed
                 THEN msg.missed - last_seen_missed ELSE 0

\* The block under mutex_ that decides between raising and clearing.
Judge ==
  /\ mpc = "judge"
  /\ mpc' = CASE have_missed_baseline /\ MissedDelta >= Threshold -> "missed_code"
              [] have_missed_baseline /\ MissedDelta < Threshold /\ msg.running
                   -> "check_mode"
              [] OTHER -> "idle"
  /\ SetBaseline
  /\ UNCHANGED <<rtVars, topic, last_error, rpc, faultVars, history>>

\* mode() == Fault, then fault_code() is an RT code, then clear().
CheckMode ==
  /\ mpc = "check_mode"
  /\ mpc' = IF mode = "Fault" THEN "check_code" ELSE "idle"
  /\ UNCHANGED <<rtVars, topic, msg, monitorVars, rpc, faultVars, history>>

AnyFault == fault_code # NoCode
RtFault  == fault_code \in RtCode

CheckCode ==
  /\ mpc = "check_code"
  /\ mpc' = IF RtFault THEN "clear_code" ELSE "idle"
  /\ UNCHANGED <<rtVars, topic, msg, monitorVars, rpc, faultVars, history>>

MonitorClearCode ==
  /\ mpc = "clear_code"
  /\ ClearCode
  /\ mpc' = "clear_mode"
  /\ raced' = (raced \/ \E r \in Raiser : rpc[r] = "mode")
  /\ UNCHANGED <<rtVars, topic, msg, monitorVars, rpc, mode, open, masked>>

MonitorClearMode ==
  /\ mpc = "clear_mode"
  /\ ClearMode
  /\ mpc' = "idle"
  /\ raced' = (raced \/ \E r \in Raiser : rpc[r] = "mode")
  /\ UNCHANGED <<rtVars, topic, msg, monitorVars, rpc, fault_code, open, masked>>

Monitor ==
  \/ Receive
  \/ MonitorRaiseCode("error_code", "RT_LOOP_ERROR", "error_mode")
  \/ MonitorRaiseMode("error_mode", "error_base")
  \/ ErrorBaseline
  \/ Judge
  \/ MonitorRaiseCode("missed_code", "RT_LOOP_MISSED", "missed_mode")
  \/ MonitorRaiseMode("missed_mode", "idle")
  \/ CheckMode \/ CheckCode
  \/ MonitorClearCode \/ MonitorClearMode

-------------------------------------------------------------------------------
(* A task thread's faults_->raise(Fault, code, ...).                       *)

TaskRaiseCode(r) ==
  /\ rpc[r] = "idle"
  /\ \E c \in RaisedCode : RaiseCode(c)
  /\ rpc' = [rpc EXCEPT ![r] = "mode"]
  /\ raced' = (raced \/ Clearing)
  /\ UNCHANGED <<rtVars, topic, mpc, msg, monitorVars, mode, open, masked>>

TaskRaiseMode(r) ==
  /\ rpc[r] = "mode"
  /\ RaiseMode("Fault")
  /\ rpc' = [rpc EXCEPT ![r] = "idle"]
  /\ open' = TRUE
  /\ raced' = (raced \/ Clearing)
  /\ UNCHANGED <<rtVars, topic, mpc, msg, monitorVars, fault_code, masked>>

-------------------------------------------------------------------------------
Init ==
  /\ FaultInit
  /\ rt_running = FALSE /\ missed_deadlines = 0 /\ rt_error = FALSE /\ bus_ok = TRUE
  /\ topic = {}
  /\ mpc = "idle"
  /\ msg = NoMessage
  /\ last_seen_missed = 0 /\ have_missed_baseline = FALSE /\ last_error = FALSE
  /\ rpc = [r \in Raiser |-> "idle"]
  /\ open = FALSE /\ raced = FALSE /\ masked = FALSE

Rt == RtMisses \/ RtExchange \/ RtStops \/ RtStarts \/ RtReconfigured

Next ==
  \/ Rt \/ Publish
  \/ Monitor
  \/ \E r \in Raiser : TaskRaiseCode(r) \/ TaskRaiseMode(r)

\* controller_manager calls read() at its update rate, the executor spins, and a
\* thread inside raise() is scheduled.
Fairness ==
  /\ WF_vars(Publish) /\ WF_vars(Monitor)
  /\ \A r \in Raiser : WF_vars(TaskRaiseMode(r))

Spec == Init /\ [][Next]_vars /\ Fairness

-------------------------------------------------------------------------------
(* Properties.                                                             *)

TypeOK ==
  /\ FaultTypeOK
  /\ rt_running \in BOOLEAN /\ missed_deadlines \in 0 .. MaxMissed
  /\ rt_error \in BOOLEAN /\ bus_ok \in BOOLEAN
  /\ topic \subseteq Message
  /\ mpc \in MonitorPC
  /\ msg \in Message
  /\ last_seen_missed \in 0 .. MaxMissed
  /\ have_missed_baseline \in BOOLEAN /\ last_error \in BOOLEAN
  /\ rpc \in [Raiser -> {"idle", "mode"}]
  /\ open \in BOOLEAN /\ raced \in BOOLEAN /\ masked \in BOOLEAN

AtRest == mpc = "idle" /\ \A r \in Raiser : rpc[r] = "idle"

\* Whenever no call is in progress, the mode and the code of the FaultManager
\* tell the same story, a fault with a code or Ok without one, unless a raise()
\* and the monitor's clear() have run into each other.
GateAgreesAtRest ==
  AtRest /\ ~raced => /\ mode = "Ok" <=> fault_code = NoCode
                      /\ mode \in {"Ok", "Fault"}

\* The types, and the agreement of mode and code at rest.
GateSound == TypeOK /\ GateAgreesAtRest

\* Nothing in the system acknowledges a task fault, so motion should stay
\* forbidden after one.  It comes back in two ways only: the code was replaced by
\* that of an RT fault, which the monitor later clears, or clear() overtook
\* raise().
TaskFaultLatches ==
  AtRest /\ open /\ allows_motion => raced \/ masked

\* From the message that reports an error of the RT loop to the next one that
\* reports none, motion is forbidden, whatever the task threads raise.
ErrorForbidsMotion ==
  last_error /\ mpc = "idle" => ~allows_motion

\* Motion stays forbidden after a task fault and during an error of the RT loop,
\* with the exceptions the two definitions name.
MotionWithheld == TaskFaultLatches /\ ErrorForbidsMotion

\* Nothing holds the callback for good: no lock, and no fault that stands when it
\* raises or clears another.  read() can always publish.
NeverStuck ==
  /\ mpc # "idle" \/ topic # {} => ENABLED <<Monitor>>_vars
  /\ topic # {Stats}            => ENABLED <<Publish>>_vars

Calm(m) == rt_running /\ ~rt_error /\ missed_deadlines = m

\* A fault raised for missed deadlines is taken back once the RT loop runs
\* without an error and its deadline counter has come to rest, at whatever value
\* and whatever the task threads raise.
RtFaultClears ==
  \A m \in 0 .. MaxMissed :
    <>[]Calm(m) => <>[](AtRest => fault_code \notin RtCode)

\* One failed exchange is heard of, although the messages about it may be lost and
\* the exchanges after it succeed: motion is forbidden in the end, and stays so for
\* as long as the loop runs, whatever the task threads raise and whichever clear()
\* the monitor had begun.
FailureIsHeard == [](~bus_ok /\ []rt_running => <>[]~allows_motion)

===============================================================================
