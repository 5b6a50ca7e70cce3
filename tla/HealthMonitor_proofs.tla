-------------------------- MODULE HealthMonitor_proofs -------------------------
(***************************************************************************)
(* Proofs about module HealthMonitor, for any number of task threads, any  *)
(* threshold and any counter of missed deadlines.                          *)
(*                                                                         *)
(* The parts of the inductive invariant Inv are the types; which places of *)
(* the callback an error leads through, and where motion is forbidden for  *)
(* it (Erring); how mode and code stand to each other while calls of       *)
(* raise() and clear() are half done (Agreeing); and what a task fault     *)
(* leaves in both (Latched).                                               *)
(*                                                                         *)
(* Two things come about by the fairness of publisher and callback, given  *)
(* that neither is stuck (NeverStuck), which is TLC's to check.  A fault   *)
(* of the RT loop clears: the topic turns fresh, the monitor settles, the  *)
(* code is cleared.  And a failed exchange is heard of: no message omits   *)
(* it any more, one is received, and from then on motion is forbidden.     *)
(***************************************************************************)
EXTENDS HealthMonitor, TLAPS

\* raise() has written its code and not yet the mode.
TaskHalfway == \E r \in Raiser : rpc[r] = "mode"
Halfway     == TaskHalfway \/ mpc \in {"error_mode", "missed_mode"}

\* An error takes the callback through the three places of its branch, and never
\* near a clear().
Erring ==
  /\ last_error => mpc \in {"idle", "error_code", "error_mode", "error_base"}
  /\ last_error /\ mpc \in {"idle", "error_base"} => mode = "Fault"

\* A code stands for a Fault, now or as soon as a raise() goes on, and between the
\* two writes of clear() no raise() is in progress.
Agreeing ==
  /\ mode \in {"Ok", "Fault"}
  /\ ~raced /\ mpc = "clear_code" => fault_code \in RtCode
  /\ ~raced /\ mpc = "clear_mode" => fault_code = NoCode /\ ~TaskHalfway
  /\ ~raced /\ mpc # "clear_mode" =>
       (fault_code # NoCode <=> mode = "Fault" \/ Halfway)

\* The code of a task fault stands until clear() meets raise() or an RT fault
\* takes its place.
Latched ==
  ~raced /\ ~masked =>
    /\ open => mode = "Fault" /\ fault_code \in TaskCode
    /\ TaskHalfway => fault_code \in TaskCode

Inv == TypeOK /\ Erring /\ Agreeing /\ Latched

-------------------------------------------------------------------------------
LEMMA InitInv == Init => Inv
<1> SUFFICES ASSUME Init PROVE Inv
  OBVIOUS
<1> USE DEF Init, FaultInit
<1>a. FaultTypeOK
  BY DEF FaultTypeOK, FaultMode, FaultCode
<1>b. 0 \in 0 .. MaxMissed
  BY ThresholdAssumption
<1>c. msg \in Message
  BY <1>b DEF Message, NoMessage
<1>1. TypeOK
  BY <1>a, <1>b, <1>c DEF TypeOK, MonitorPC
<1>2. Erring /\ Agreeing /\ Latched
  BY DEF Erring, Agreeing, Latched, TaskHalfway, Halfway
<1> QED
  BY <1>1, <1>2 DEF Inv

\* What the RT loop and the topic do is not seen before the next Receive.
LEMMA RtStep ==
  ASSUME Inv, Rt \/ Publish
  PROVE  Inv'
<1>. /\ UNCHANGED <<mpc, msg, monitorVars, rpc, faultVars, history>>
  BY DEF Rt, RtMisses, RtExchange, RtStops, RtStarts, RtReconfigured, Publish
<1>. UNCHANGED <<mpc, msg, last_seen_missed, have_missed_baseline, last_error, rpc,
                 mode, fault_code, open, raced, masked>>
  BY DEF monitorVars, faultVars, history
<1>1. /\ rt_running' \in BOOLEAN /\ missed_deadlines' \in 0 .. MaxMissed
      /\ rt_error' \in BOOLEAN /\ bus_ok' \in BOOLEAN /\ topic' \subseteq Message
  <2> USE DEF Inv, TypeOK
  <2>1. CASE RtMisses
    BY <2>1, ThresholdAssumption DEF RtMisses
  <2>2. CASE RtExchange
    BY <2>2 DEF RtExchange
  <2>3. CASE RtStops
    BY <2>3 DEF RtStops
  <2>4. CASE RtStarts
    BY <2>4, ThresholdAssumption DEF RtStarts
  <2>5. CASE RtReconfigured
    <3>1. /\ missed_deadlines' = 0 /\ rt_error' = FALSE /\ bus_ok' = TRUE
          /\ UNCHANGED <<rt_running, topic>>
      BY <2>5 DEF RtReconfigured
    <3>2. missed_deadlines' \in 0 .. MaxMissed
      BY <3>1, ThresholdAssumption
    <3> QED
      BY <3>1, <3>2
  <2>6. CASE Publish
    BY <2>6 DEF Publish, Stats, Message, rtVars
  <2> QED
    BY <2>1, <2>2, <2>3, <2>4, <2>5, <2>6 DEF Rt
<1>2. TypeOK'
  BY <1>1 DEF Inv, TypeOK, FaultTypeOK
<1>3. Erring' /\ Agreeing' /\ Latched'
  BY DEF Inv, Erring, Agreeing, Latched, TaskHalfway, Halfway
<1> QED
  BY <1>2, <1>3 DEF Inv

\* The callback, statement by statement.
LEMMA MonitorStep ==
  ASSUME Inv, Monitor
  PROVE  Inv'
<1> USE DEF Inv
<1>a. UNCHANGED rtVars /\ UNCHANGED rpc /\ UNCHANGED open
  BY DEF Monitor, Receive, MonitorRaiseCode, MonitorRaiseMode, ErrorBaseline, Judge,
         CheckMode, CheckCode, MonitorClearCode, MonitorClearMode, history
<1>b. /\ rt_running' \in BOOLEAN /\ missed_deadlines' \in 0 .. MaxMissed
      /\ rt_error' \in BOOLEAN /\ bus_ok' \in BOOLEAN
      /\ rpc' \in [Raiser -> {"idle", "mode"}] /\ open' \in BOOLEAN
  BY <1>a DEF TypeOK, rtVars
<1>1. CASE Receive
  <2>1. /\ UNCHANGED <<last_seen_missed, have_missed_baseline, mode, fault_code, raced, masked>>
        /\ msg' \in Message /\ topic' = {} /\ last_error' = msg'.error
        /\ mpc = "idle" /\ mpc' = IF msg'.error THEN "error_code" ELSE "judge"
    BY <1>1 DEF Receive, AfterReceive, faultVars, history, TypeOK
  <2>2. TypeOK'
    BY <1>b, <2>1 DEF TypeOK, FaultTypeOK, Message, MonitorPC
  <2>3. Erring' /\ Agreeing' /\ Latched'
    BY <1>a, <2>1 DEF Erring, Agreeing, Latched, TaskHalfway, Halfway
  <2> QED
    BY <2>2, <2>3
<1>2. ASSUME NEW here, NEW c \in RtCode, NEW next, MonitorRaiseCode(here, c, next),
             \/ here = "error_code" /\ next = "error_mode"
             \/ here = "missed_code" /\ next = "missed_mode"
      PROVE  Inv'
  <2>1. /\ UNCHANGED <<topic, msg, last_seen_missed, have_missed_baseline, last_error,
                       mode, raced>>
        /\ mpc = here /\ mpc' = next /\ fault_code' = c
        /\ masked' = (masked \/ fault_code \in TaskCode)
    BY <1>2 DEF MonitorRaiseCode, RaiseCode, monitorVars
  <2>2. TypeOK'
    BY <1>2, <1>b, <2>1 DEF TypeOK, FaultTypeOK, FaultCode, MonitorPC
  <2>3. Erring' /\ Agreeing'
    BY <1>2, <1>a, <2>1 DEF Erring, Agreeing, TaskHalfway, Halfway, RtCode, NoCode
  <2>4. Latched'
    BY <1>2, <1>a, <2>1 DEF Latched, Agreeing, TaskHalfway, TypeOK
  <2> QED
    BY <2>2, <2>3, <2>4
<1>3. ASSUME NEW here, NEW next, MonitorRaiseMode(here, next),
             \/ here = "error_mode" /\ next = "error_base"
             \/ here = "missed_mode" /\ next = "idle"
      PROVE  Inv'
  <2>1. /\ UNCHANGED <<topic, msg, last_seen_missed, have_missed_baseline, last_error,
                       fault_code, raced, masked>>
        /\ mpc = here /\ mpc' = next /\ mode' = "Fault"
    BY <1>3 DEF MonitorRaiseMode, RaiseMode, monitorVars, history
  <2>2. TypeOK'
    BY <1>3, <1>b, <2>1 DEF TypeOK, FaultTypeOK, FaultMode, MonitorPC
  <2>3. Erring' /\ Agreeing' /\ Latched'
    BY <1>3, <1>a, <2>1 DEF Erring, Agreeing, Latched, TaskHalfway, Halfway
  <2> QED
    BY <2>2, <2>3
<1>4. CASE ErrorBaseline \/ Judge
  <2>1. /\ UNCHANGED <<topic, last_error, mode, fault_code, raced, masked>>
        /\ last_seen_missed' = msg.missed /\ have_missed_baseline' = TRUE
        /\ msg' = NoMessage
    BY <1>4 DEF ErrorBaseline, Judge, SetBaseline, faultVars, history
  <2>2. \/ mpc = "error_base" /\ mpc' = "idle"
        \/ mpc = "judge" /\ mpc' \in {"missed_code", "check_mode", "idle"}
    BY <1>4 DEF ErrorBaseline, Judge
  <2>3. TypeOK'
    BY <1>b, <2>1, <2>2, ThresholdAssumption
    DEF TypeOK, FaultTypeOK, MonitorPC, Message, NoMessage
  <2>4. Erring' /\ Agreeing' /\ Latched'
    BY <1>a, <2>1, <2>2 DEF Erring, Agreeing, Latched, TaskHalfway, Halfway
  <2> QED
    BY <2>3, <2>4
<1>5. CASE CheckMode \/ CheckCode
  <2>1. UNCHANGED <<topic, msg, last_seen_missed, have_missed_baseline, last_error,
                    mode, fault_code, raced, masked>>
    BY <1>5 DEF CheckMode, CheckCode, monitorVars, faultVars, history
  <2>2. \/ mpc = "check_mode" /\ mpc' \in {"check_code", "idle"}
        \/ mpc = "check_code" /\ mpc' = "clear_code" /\ fault_code \in RtCode
        \/ mpc = "check_code" /\ mpc' = "idle"
    BY <1>5 DEF CheckMode, CheckCode, RtFault
  <2>3. TypeOK'
    BY <1>b, <2>1, <2>2 DEF TypeOK, FaultTypeOK, MonitorPC
  <2>4. Erring' /\ Agreeing' /\ Latched'
    BY <1>a, <2>1, <2>2 DEF Erring, Agreeing, Latched, TaskHalfway, Halfway
  <2> QED
    BY <2>3, <2>4
<1>6. CASE MonitorClearCode
  <2>1. /\ UNCHANGED <<topic, msg, last_seen_missed, have_missed_baseline, last_error,
                       mode, masked>>
        /\ mpc = "clear_code" /\ mpc' = "clear_mode" /\ fault_code' = NoCode
        /\ raced' = (raced \/ TaskHalfway)
    BY <1>6 DEF MonitorClearCode, ClearCode, monitorVars, TaskHalfway
  <2>2. TypeOK'
    BY <1>b, <2>1 DEF TypeOK, FaultTypeOK, FaultCode, MonitorPC
  <2>3. Erring' /\ Agreeing'
    BY <1>a, <2>1 DEF Erring, Agreeing, TaskHalfway, Halfway
  <2>4. Latched'
    BY <1>a, <2>1 DEF Latched, Agreeing, TaskHalfway, RtCode, TaskCode
  <2> QED
    BY <2>2, <2>3, <2>4
<1>7. CASE MonitorClearMode
  <2>1. /\ UNCHANGED <<topic, msg, last_seen_missed, have_missed_baseline, last_error,
                       fault_code, masked>>
        /\ mpc = "clear_mode" /\ mpc' = "idle" /\ mode' = "Ok"
        /\ raced' = (raced \/ TaskHalfway)
    BY <1>7 DEF MonitorClearMode, ClearMode, monitorVars, TaskHalfway
  <2>2. TypeOK'
    BY <1>b, <2>1 DEF TypeOK, FaultTypeOK, FaultMode, MonitorPC
  <2>3. Erring' /\ Agreeing'
    BY <1>a, <2>1 DEF Erring, Agreeing, TaskHalfway, Halfway
  <2>4. Latched'
    BY <1>a, <2>1 DEF Latched, Agreeing, TaskHalfway, NoCode, TaskCode
  <2> QED
    BY <2>2, <2>3, <2>4
<1> QED
  BY <1>1, <1>2, <1>3, <1>4, <1>5, <1>6, <1>7 DEF Monitor, RtCode

\* The two writes of a task thread's raise().
LEMMA TaskStep ==
  ASSUME Inv, NEW r \in Raiser, TaskRaiseCode(r) \/ TaskRaiseMode(r)
  PROVE  Inv'
<1> USE DEF Inv
<1>1. CASE TaskRaiseCode(r)
  <2>1. /\ UNCHANGED <<rt_running, missed_deadlines, rt_error, bus_ok, topic, mpc, msg,
                       last_seen_missed, have_missed_baseline, last_error, mode, open, masked>>
        /\ fault_code' \in TaskCode /\ rpc' = [rpc EXCEPT ![r] = "mode"]
        /\ raced' = (raced \/ Clearing)
    BY <1>1, RaiserAssumption DEF TaskRaiseCode, RaiseCode, rtVars, monitorVars
  <2>2. TypeOK'
    BY <2>1 DEF TypeOK, FaultTypeOK, FaultCode
  <2>3. TaskHalfway'
    BY <2>1 DEF TypeOK, TaskHalfway
  <2>4. Erring' /\ Agreeing' /\ Latched'
    BY <2>1, <2>3 DEF Erring, Agreeing, Latched, Halfway, Clearing, TaskCode, NoCode
  <2> QED
    BY <2>2, <2>4
<1>2. CASE TaskRaiseMode(r)
  <2>1. /\ UNCHANGED <<rt_running, missed_deadlines, rt_error, bus_ok, topic, mpc, msg,
                       last_seen_missed, have_missed_baseline, last_error, fault_code, masked>>
        /\ rpc[r] = "mode" /\ rpc' = [rpc EXCEPT ![r] = "idle"]
        /\ mode' = "Fault" /\ open' = TRUE /\ raced' = (raced \/ Clearing)
    BY <1>2 DEF TaskRaiseMode, RaiseMode, rtVars, monitorVars
  <2>2. TypeOK'
    BY <2>1 DEF TypeOK, FaultTypeOK, FaultMode
  <2>3. TaskHalfway
    BY <2>1 DEF TaskHalfway
  <2>4. Erring' /\ Agreeing' /\ Latched'
    BY <2>1, <2>3 DEF Erring, Agreeing, Latched, Halfway, Clearing
  <2> QED
    BY <2>2, <2>4
<1> QED
  BY <1>1, <1>2

LEMMA Invariance == Spec => []Inv
<1>1. Inv /\ [Next]_vars => Inv'
  <2> SUFFICES ASSUME Inv, [Next]_vars PROVE Inv'
    OBVIOUS
  <2>1. CASE Next
    BY <2>1, RtStep, MonitorStep, TaskStep DEF Next
  <2>2. CASE UNCHANGED vars
    BY <2>2
    DEF Inv, TypeOK, FaultTypeOK, Erring, Agreeing, Latched, TaskHalfway, Halfway,
        vars, rtVars, monitorVars, faultVars, history
  <2> QED
    BY <2>1, <2>2
<1> QED
  BY <1>1, InitInv, PTL DEF Spec

-------------------------------------------------------------------------------
\* With no call in progress, mode and code tell the same story unless a raise()
\* and the monitor's clear() have run into each other: for any number of task
\* threads.
THEOREM ModeAgreesWithCode == Spec => []GateSound
<1>1. Inv => GateSound
  BY DEF Inv, Agreeing, GateSound, GateAgreesAtRest, AtRest, TaskHalfway, Halfway
<1> QED
  BY <1>1, Invariance, PTL

\* Motion comes back after a task fault only by an RT code in place of the task's,
\* or by a clear() that overtook a raise().
THEOREM TaskFaultsStay == Spec => []TaskFaultLatches
<1>1. Inv => TaskFaultLatches
  BY DEF Inv, Latched, TaskFaultLatches, allows_motion, ModeAllowsMotion
<1> QED
  BY <1>1, Invariance, PTL

\* Between a message that reports an error and the next one without, motion is
\* forbidden, whatever task threads raise and the RT loop does: with the theorem
\* before, the two reasons to withhold motion.
THEOREM MotionIsWithheld == Spec => []MotionWithheld
<1>1. Inv => ErrorForbidsMotion
  BY DEF Inv, Erring, ErrorForbidsMotion, allows_motion, ModeAllowsMotion
<1> QED
  BY <1>1, TaskFaultsStay, Invariance, PTL DEF MotionWithheld

-------------------------------------------------------------------------------
(* The fault of the RT loop is taken back.  Once the loop is calm, every   *)
(* message says the same; the monitor takes one to base its counter on,    *)
(* raises nothing from then on, and clears the code at the next.           *)

\* An RT code stands for a Fault: only the callback, which is sequential, writes
\* either, apart from the codes of task faults.
CodeStands ==
  /\ fault_code \in RtCode => mode = "Fault" \/ mpc \in {"error_mode", "missed_mode"}
  /\ mpc = "clear_mode" => fault_code \notin RtCode

LEMMA CodesStand == Spec => []CodeStands
<1>1. Init => CodeStands
  BY DEF Init, FaultInit, CodeStands, RtCode, NoCode
<1>2. ASSUME CodeStands, [Next]_vars PROVE CodeStands'
  <2> USE DEF CodeStands
  <2>1. CASE Rt \/ Publish \/ UNCHANGED vars
    BY <1>2, <2>1
    DEF Rt, RtMisses, RtExchange, RtStops, RtStarts, RtReconfigured, Publish, vars, faultVars
  <2>2. CASE Receive \/ ErrorBaseline \/ Judge \/ CheckMode \/ CheckCode
    BY <1>2, <2>2 DEF Receive, AfterReceive, ErrorBaseline, Judge, CheckMode, CheckCode, faultVars
  <2>3. CASE MonitorRaiseMode("error_mode", "error_base") \/ MonitorRaiseMode("missed_mode", "idle")
    BY <1>2, <2>3 DEF MonitorRaiseMode, RaiseMode
  <2>4. CASE MonitorClearCode \/ MonitorClearMode
    BY <1>2, <2>4 DEF MonitorClearCode, ClearCode, MonitorClearMode, ClearMode, RtCode, NoCode
  <2>5. CASE \/ MonitorRaiseCode("error_code", "RT_LOOP_ERROR", "error_mode")
             \/ MonitorRaiseCode("missed_code", "RT_LOOP_MISSED", "missed_mode")
    BY <2>5 DEF MonitorRaiseCode
  <2>6. ASSUME NEW r \in Raiser, TaskRaiseCode(r) \/ TaskRaiseMode(r) PROVE CodeStands'
    BY <1>2, <2>6, RaiserAssumption
    DEF TaskRaiseCode, RaiseCode, TaskRaiseMode, RaiseMode, TaskCode, RtCode
  <2> QED
    BY <1>2, <2>1, <2>2, <2>3, <2>4, <2>5, <2>6 DEF Next, Monitor
<1> QED
  BY <1>1, <1>2, PTL DEF Spec

\* The one message of a calm loop, and nothing else on the topic.
Good(m)       == [running |-> TRUE, missed |-> m, error |-> FALSE]
FreshTopic(m) == topic \subseteq {Good(m)}

\* What the callback goes through at most before it waits for a message again.
Stage1 == {"error_code", "judge"}
Stage2 == {"error_mode", "missed_code", "check_mode"}
Stage3 == {"error_base", "missed_mode", "check_code"}
Stage4 == {"clear_code"}
Stage5 == {"clear_mode"}

\* It has been given the message, and has taken its counter for the baseline; it
\* may still raise a fault for the misses before it.
Told(m)    == mpc = "judge" /\ msg = Good(m)
Based(m)   == last_seen_missed = m /\ have_missed_baseline
Burst(m)   == Based(m) /\ mpc \in {"missed_code", "missed_mode"}
Settled(m) == /\ Based(m)
              /\ mpc \in {"idle", "check_mode", "check_code", "clear_code", "clear_mode"}
                   \/ Told(m)

\* Where the callback goes.
LEMMA MonitorMoves ==
  ASSUME Monitor
  PROVE  /\ mpc = "idle" => mpc' \in Stage1
         /\ mpc \in Stage1 => mpc' \in Stage2 \cup {"idle"}
         /\ mpc \in Stage2 => mpc' \in Stage3 \cup {"idle"}
         /\ mpc \in Stage3 => mpc' \in Stage4 \cup {"idle"}
         /\ mpc \in Stage4 => mpc' \in Stage5
         /\ mpc \in Stage5 => mpc' = "idle"
         /\ mpc = "missed_code" => mpc' = "missed_mode"
         /\ mpc = "missed_mode" => mpc' = "idle"
         /\ topic' \in {topic, {}}
<1> USE DEF Stage1, Stage2, Stage3, Stage4, Stage5
<1>1. CASE Receive
  BY <1>1 DEF Receive, AfterReceive
<1>2. CASE \/ MonitorRaiseCode("error_code", "RT_LOOP_ERROR", "error_mode")
           \/ MonitorRaiseCode("missed_code", "RT_LOOP_MISSED", "missed_mode")
  BY <1>2 DEF MonitorRaiseCode
<1>3. CASE MonitorRaiseMode("error_mode", "error_base") \/ MonitorRaiseMode("missed_mode", "idle")
  BY <1>3 DEF MonitorRaiseMode
<1>4. CASE ErrorBaseline \/ Judge
  BY <1>4 DEF ErrorBaseline, Judge
<1>5. CASE CheckMode \/ CheckCode \/ MonitorClearCode \/ MonitorClearMode
  BY <1>5 DEF CheckMode, CheckCode, MonitorClearCode, MonitorClearMode
<1> QED
  BY <1>1, <1>2, <1>3, <1>4, <1>5 DEF Monitor

\* Everybody else leaves the callback alone, and writes no RT code.
LEMMA OthersWait ==
  ASSUME [Next]_vars, ~Monitor
  PROVE  /\ UNCHANGED <<mpc, msg, last_seen_missed, have_missed_baseline>>
         /\ topic' \in {topic, {Stats}}
         /\ fault_code' = fault_code \/ fault_code' \notin RtCode
<1>1. CASE Rt \/ Publish \/ UNCHANGED vars
  BY <1>1
  DEF Rt, RtMisses, RtExchange, RtStops, RtStarts, RtReconfigured, Publish, vars, monitorVars,
      faultVars
<1>2. ASSUME NEW r \in Raiser, TaskRaiseCode(r) \/ TaskRaiseMode(r)
      PROVE  /\ UNCHANGED <<mpc, msg, monitorVars, topic>>
             /\ fault_code' = fault_code \/ fault_code' \notin RtCode
  BY <1>2, RaiserAssumption DEF TaskRaiseCode, RaiseCode, TaskRaiseMode, TaskCode, RtCode
<1> QED
  BY <1>1, <1>2 DEF Next, monitorVars

\* Calm is what read() publishes from then on.
LEMMA CalmStats ==
  ASSUME Inv, NEW m, Calm(m)
  PROVE  Stats = Good(m)
  BY DEF Calm, Stats, Good, Inv, TypeOK

LEMMA CalmTopic ==
  ASSUME Inv, NEW m, Calm(m), [Next]_vars
  PROVE  /\ FreshTopic(m) => FreshTopic(m)'
         /\ Publish => FreshTopic(m)' /\ topic' # {}
         /\ ~Monitor => topic' = topic \/ (FreshTopic(m)' /\ topic' # {})
<1>1. topic' \in {topic, {}, {Good(m)}} /\ (~Monitor => topic' \in {topic, {Good(m)}})
  BY CalmStats, MonitorMoves, OthersWait
<1>2. Good(m)' = Good(m)
  BY DEF Good
<1>3. Publish => topic' = {Good(m)}
  BY CalmStats DEF Publish
<1> HIDE DEF Good
<1> QED
  BY <1>1, <1>2, <1>3 DEF FreshTopic

\* The callback receives it.
LEMMA MessageTaken ==
  ASSUME NEW m, FreshTopic(m), mpc = "idle", Monitor
  PROVE  Told(m)'
<1>1. Receive
  BY DEF Monitor, MonitorRaiseCode, MonitorRaiseMode, ErrorBaseline, Judge, CheckMode,
         CheckCode, MonitorClearCode, MonitorClearMode
<1>2. msg' = Good(m) /\ mpc' = "judge"
  BY <1>1 DEF Receive, FreshTopic, AfterReceive, Good
<1> QED
  BY <1>2 DEF Told, Good

\* With the message in hand it takes the baseline.
LEMMA BaseTaken ==
  ASSUME Inv, NEW m, Told(m), Monitor
  PROVE  Burst(m)' \/ Settled(m)'
<1>1. Judge
  BY DEF Told, Monitor, Receive, MonitorRaiseCode, MonitorRaiseMode, ErrorBaseline, CheckMode,
         CheckCode, MonitorClearCode, MonitorClearMode
<1>2. last_seen_missed' = m /\ have_missed_baseline'
  BY <1>1 DEF Judge, SetBaseline, Told, Good
<1>3. mpc' \in {"missed_code", "check_mode", "idle"}
  BY <1>1 DEF Judge
<1> QED
  BY <1>2, <1>3 DEF Burst, Settled, Based

\* A monitor that has settled raises nothing more.
LEMMA SettledStep ==
  ASSUME Inv, CodeStands, NEW m \in Nat, FreshTopic(m), Settled(m), [Next]_vars
  PROVE  /\ Settled(m)'
         /\ fault_code' \in RtCode => fault_code \in RtCode
         /\ Monitor /\ fault_code \in RtCode =>
              /\ mpc = "idle"       => mpc' = "judge"
              /\ mpc = "judge"      => mpc' = "check_mode"
              /\ mpc = "check_mode" => mpc' = "check_code"
              /\ mpc = "check_code" => mpc' = "clear_code"
              /\ mpc = "clear_code" => fault_code' \notin RtCode
<1> USE DEF Settled, Based, Told
<1>1. CASE Receive
  <2>1. /\ msg' = Good(m) /\ mpc = "idle"
        /\ UNCHANGED <<last_seen_missed, have_missed_baseline, fault_code>>
    BY <1>1 DEF Receive, FreshTopic, faultVars
  <2>2. mpc' = "judge"
    BY <1>1, <2>1 DEF Receive, AfterReceive, Good
  <2> QED
    BY <2>1, <2>2
<1>2. CASE Judge
  <2>1. mpc = "judge" /\ msg.missed = m /\ msg.running
    BY <1>2 DEF Judge, Good
  <2>2. MissedDelta = 0
    BY <2>1 DEF MissedDelta
  <2>3. 0 < Threshold /\ ~(0 >= Threshold)
    BY ThresholdAssumption
  <2>4. mpc' = "check_mode"
    BY <1>2, <2>1, <2>2, <2>3 DEF Judge
  <2>5. last_seen_missed' = m /\ have_missed_baseline' = TRUE /\ UNCHANGED fault_code
    BY <1>2, <2>1 DEF Judge, SetBaseline, faultVars
  <2> QED
    BY <2>1, <2>4, <2>5
<1>3. CASE CheckMode \/ CheckCode
  <2>1. UNCHANGED <<last_seen_missed, have_missed_baseline, fault_code>>
    BY <1>3 DEF CheckMode, CheckCode, monitorVars, faultVars
  <2>2. /\ mpc = "check_mode" /\ mpc' \in {"check_code", "idle"}
             /\ (mode = "Fault" => mpc' = "check_code")
        \/ /\ mpc = "check_code" /\ mpc' \in {"clear_code", "idle"}
           /\ (fault_code \in RtCode => mpc' = "clear_code")
    BY <1>3 DEF CheckMode, CheckCode, RtFault
  <2> QED
    BY <2>1, <2>2 DEF CodeStands
<1>4. CASE MonitorClearCode \/ MonitorClearMode
  <2>1. /\ UNCHANGED <<last_seen_missed, have_missed_baseline>>
        /\ \/ mpc = "clear_code" /\ mpc' = "clear_mode" /\ fault_code' \notin RtCode
           \/ mpc = "clear_mode" /\ mpc' = "idle" /\ fault_code' = fault_code
    BY <1>4 DEF MonitorClearCode, ClearCode, MonitorClearMode, monitorVars, RtCode, NoCode
  <2> QED
    BY <2>1 DEF CodeStands
<1>5. CASE ~Monitor
  BY <1>5, OthersWait
<1> QED
  BY <1>1, <1>2, <1>3, <1>4, <1>5
  DEF Monitor, MonitorRaiseCode, MonitorRaiseMode, ErrorBaseline

\* What holds of every run, from any moment on.
Going ==
  /\ []Inv /\ [][Next]_vars /\ []NeverStuck
  /\ WF_vars(Publish) /\ WF_vars(Monitor)

\* What holds from the moment the loop is calm for good.
CalmForGood(m) == Going /\ []CodeStands /\ []Calm(m)

LEMMA TopicTurnsFresh ==
  ASSUME NEW m
  PROVE  CalmForGood(m) => <>[]FreshTopic(m)
<1>1. Inv /\ Calm(m) /\ [Next]_vars => (FreshTopic(m) => FreshTopic(m)')
  BY CalmTopic
<1>2. Inv /\ Calm(m) /\ [Next]_vars /\ <<Publish>>_vars => FreshTopic(m)'
  BY CalmTopic
<1>3. Inv /\ Calm(m) /\ NeverStuck /\ ~FreshTopic(m) => ENABLED <<Publish>>_vars
  BY CalmStats DEF FreshTopic, NeverStuck
<1> QED
  BY <1>1, <1>2, <1>3, PTL DEF CalmForGood, Going

\* The callback in progress comes to its end, and a message is there for the next.
LEMMA CallbackEnds == Going => (TRUE ~> mpc = "idle" /\ topic # {})
<1> DEFINE A == mpc \in Stage1
           B == mpc \in Stage2
           C == mpc \in Stage3
           D == mpc \in Stage4
           E == mpc \in Stage5
           I == mpc = "idle"
           T == topic # {}
<1>1. Monitor => /\ A => B' \/ I'
                 /\ B => C' \/ I'
                 /\ C => D' \/ I'
                 /\ D => E'
                 /\ E => I'
  BY MonitorMoves
<1>2. [Next]_vars /\ ~Monitor =>
        (A => A') /\ (B => B') /\ (C => C') /\ (D => D') /\ (E => E') /\ (I => I')
  BY OthersWait
<1>3. Inv => A \/ B \/ C \/ D \/ E \/ I
  BY DEF Inv, TypeOK, MonitorPC, Stage1, Stage2, Stage3, Stage4, Stage5
<1>4. A \/ B \/ C \/ D \/ E => ~I
  BY DEF Stage1, Stage2, Stage3, Stage4, Stage5
<1>5. [Next]_vars /\ ~Monitor => (Publish => T') /\ (T => T')
  BY OthersWait DEF Publish
<1>6. NeverStuck /\ (~I \/ T) => ENABLED <<Monitor>>_vars
  BY DEF NeverStuck
<1>7. NeverStuck /\ ~T => ENABLED <<Publish>>_vars
  BY DEF NeverStuck
<1>8. I /\ ~T => ~Monitor
  BY DEF Monitor, Receive, MonitorRaiseCode, MonitorRaiseMode, ErrorBaseline, Judge, CheckMode,
         CheckCode, MonitorClearCode, MonitorClearMode
<1>9. Publish => ~Monitor
  BY DEF Publish, Monitor, Receive, MonitorRaiseCode, MonitorRaiseMode, ErrorBaseline, Judge,
         CheckMode, CheckCode, MonitorClearCode, MonitorClearMode
<1> HIDE DEF A, B, C, D, E, I, T
<1>10. Going => (TRUE ~> I)
  BY <1>1, <1>2, <1>3, <1>4, <1>6, PTL DEF Going
<1>11. Going => (I ~> I /\ T)
  BY <1>2, <1>5, <1>7, <1>8, <1>9, PTL DEF Going
<1>12. Going => (TRUE ~> I /\ T)
  BY <1>10, <1>11, PTL
<1> QED
  BY <1>12 DEF I, T

\* The monitor settles, whatever the burst before the calm made it raise.
LEMMA MonitorSettles ==
  ASSUME NEW m \in Nat
  PROVE  CalmForGood(m) => <>[]Settled(m)
<1> DEFINE R == mpc = "idle" /\ topic # {}
           B == Burst(m) /\ mpc = "missed_code"
           C == Burst(m) /\ mpc = "missed_mode"
<1>1. FreshTopic(m) /\ [Next]_vars /\ R /\ Monitor => Told(m)'
  BY MessageTaken
<1>2. Inv /\ Calm(m) /\ [Next]_vars /\ R /\ ~Monitor => R'
  BY CalmTopic, OthersWait
<1>3. Inv /\ Told(m) /\ Monitor => B' \/ C' \/ Settled(m)'
  BY BaseTaken DEF Burst
<1>4. [Next]_vars /\ ~Monitor => (Told(m) => Told(m)') /\ (B => B') /\ (C => C')
  BY OthersWait DEF Told, Burst, Based, Good
<1>5. Monitor => (B => C') /\ (C => Settled(m)')
  <2>1. ASSUME Monitor, B \/ C PROVE UNCHANGED <<last_seen_missed, have_missed_baseline>>
    BY <2>1 DEF Burst, Monitor, Receive, MonitorRaiseCode, MonitorRaiseMode, ErrorBaseline,
           Judge, CheckMode, CheckCode, MonitorClearCode, MonitorClearMode, monitorVars
  <2> QED
    BY <2>1, MonitorMoves DEF Burst, Settled, Based
<1>6. Inv /\ CodeStands /\ FreshTopic(m) /\ Settled(m) /\ [Next]_vars => Settled(m)'
  BY SettledStep
<1>7. NeverStuck /\ (R \/ Told(m) \/ B \/ C) => ENABLED <<Monitor>>_vars
  BY DEF NeverStuck, Told
<1>8. CalmForGood(m) => (TRUE ~> R)
  BY CallbackEnds DEF CalmForGood
<1> HIDE DEF R, B, C
<1>9. CalmForGood(m) /\ []FreshTopic(m) => (R ~> Settled(m))
  BY <1>1, <1>2, <1>3, <1>4, <1>5, <1>7, PTL DEF CalmForGood, Going
<1>10. CalmForGood(m) /\ []FreshTopic(m) => [](Settled(m) => []Settled(m))
  BY <1>6, PTL DEF CalmForGood, Going
<1>11. CalmForGood(m) => []CalmForGood(m)
  BY PTL DEF CalmForGood, Going
<1> QED
  BY <1>8, <1>9, <1>10, <1>11, TopicTurnsFresh, PTL

\* A fault of the RT loop is taken back once the loop is calm: for any number of
\* task threads, whatever they raise, and any count of misses before.  That the
\* callback can always go on is NeverStuck.
THEOREM RtFaultsClear == Spec /\ []NeverStuck => RtFaultClears
<1> SUFFICES ASSUME NEW m \in 0 .. MaxMissed
             PROVE  Spec /\ []NeverStuck
                      => (<>[]Calm(m) => <>[](AtRest => fault_code \notin RtCode))
  BY DEF RtFaultClears
<1>m. m \in Nat
  BY ThresholdAssumption
<1> DEFINE K == fault_code \in RtCode
           I == mpc = "idle"
           T == topic # {}
           J == mpc = "judge"
           M == mpc = "check_mode"
           C == mpc = "check_code"
           E == mpc = "clear_code"
<1>1. Inv /\ CodeStands /\ FreshTopic(m) /\ Settled(m) /\ [Next]_vars =>
        /\ K' => K
        /\ Monitor /\ K =>
             (I => J') /\ (J => M') /\ (M => C') /\ (C => E') /\ (E => ~K')
  BY <1>m, SettledStep
<1>2. [Next]_vars /\ ~Monitor =>
        (I => I') /\ (J => J') /\ (M => M') /\ (C => C') /\ (E => E')
  BY OthersWait
<1>3. NeverStuck /\ ((I /\ T) \/ J \/ M \/ C \/ E) => ENABLED <<Monitor>>_vars
  BY DEF NeverStuck
<1>4. Inv /\ Calm(m) /\ [Next]_vars /\ ~Monitor => (T => T')
  BY CalmTopic
<1>5. CalmForGood(m) => (TRUE ~> I /\ T)
  BY CallbackEnds DEF CalmForGood
<1>6. CalmForGood(m) => <>[]FreshTopic(m) /\ <>[]Settled(m)
  BY <1>m, TopicTurnsFresh, MonitorSettles, PTL
<1>7. ~K => (AtRest => fault_code \notin RtCode)
  OBVIOUS
<1> HIDE DEF K, I, T, J, M, C, E
<1>8. CalmForGood(m) /\ []FreshTopic(m) /\ []Settled(m) => (I /\ T ~> ~K)
  BY <1>1, <1>2, <1>3, <1>4, PTL DEF CalmForGood, Going
<1>9. CalmForGood(m) /\ []FreshTopic(m) /\ []Settled(m) => [](~K => []~K)
  BY <1>1, PTL DEF CalmForGood, Going
<1>10. CalmForGood(m) => []CalmForGood(m)
  BY PTL DEF CalmForGood, Going
<1>11. CalmForGood(m) => <>[]~K
  BY <1>5, <1>6, <1>8, <1>9, <1>10, PTL
<1> QED
  BY <1>7, <1>11, Invariance, CodesStand, PTL DEF Spec, Fairness, CalmForGood, Going

-------------------------------------------------------------------------------
(* A failed exchange is heard of.                                          *)

\* The loop remembers a failure at least until the exchange succeeds again.
FailureKept == ~bus_ok => rt_error

LEMMA FailuresKept == Spec => []FailureKept
<1>1. Init => FailureKept
  BY DEF Init, FailureKept
<1>2. FailureKept /\ [Next]_vars => FailureKept'
  BY DEF FailureKept, Next, Rt, RtMisses, RtExchange, RtStops, RtStarts, RtReconfigured,
         Publish, Monitor, Receive, MonitorRaiseCode, MonitorRaiseMode, ErrorBaseline, Judge,
         CheckMode, CheckCode, MonitorClearCode, MonitorClearMode, TaskRaiseCode,
         TaskRaiseMode, vars, rtVars
<1> QED
  BY <1>1, <1>2, PTL DEF Spec

\* No message on the topic says that all is well.
Telling == \A m \in topic : m.error

\* Where the message of a failure leaves the monitor and the mode.
Alarmed == last_error /\ mode = "Fault"

LEMMA FailureStep ==
  ASSUME [Next]_vars
  PROVE  /\ rt_error /\ rt_running => rt_error'
         /\ rt_error /\ Telling => Telling'
         /\ rt_error /\ Publish => Telling'
         /\ Telling /\ last_error => last_error'
         /\ Telling /\ mpc = "idle" /\ topic # {} /\ Monitor => last_error'
<1>1. rt_error /\ rt_running => rt_error'
  BY DEF Next, Rt, RtMisses, RtExchange, RtStops, RtStarts, RtReconfigured, Publish, Monitor,
         Receive, MonitorRaiseCode, MonitorRaiseMode, ErrorBaseline, Judge, CheckMode,
         CheckCode, MonitorClearCode, MonitorClearMode, TaskRaiseCode, TaskRaiseMode, vars,
         rtVars
<1>2. topic' \in {topic, {}, {Stats}}
  BY MonitorMoves, OthersWait
<1>3. rt_error => Stats.error
  BY DEF Stats
<1>4. Publish => topic' = {Stats}
  BY DEF Publish
<1>5. UNCHANGED last_error \/ Receive
  BY DEF Next, Rt, RtMisses, RtExchange, RtStops, RtStarts, RtReconfigured, Publish, Monitor,
         MonitorRaiseCode, MonitorRaiseMode, ErrorBaseline, Judge, CheckMode, CheckCode,
         MonitorClearCode, MonitorClearMode, TaskRaiseCode, TaskRaiseMode, vars, monitorVars
<1>6. Receive /\ Telling => last_error'
  BY DEF Receive, Telling
<1>7. mpc = "idle" /\ Monitor => Receive
  BY DEF Monitor, MonitorRaiseCode, MonitorRaiseMode, ErrorBaseline, Judge, CheckMode,
         CheckCode, MonitorClearCode, MonitorClearMode
<1> QED
  BY <1>1, <1>2, <1>3, <1>4, <1>5, <1>6, <1>7 DEF Telling

\* The mode stays Fault as long as the monitor clears nothing.
LEMMA AlarmStays ==
  ASSUME Inv, [Next]_vars, Telling, Alarmed
  PROVE  Alarmed'
<1>1. last_error'
  BY FailureStep DEF Alarmed
<1>2. mpc # "clear_mode"
  BY DEF Inv, Erring, Alarmed
<1>3. mode' = "Fault"
  BY <1>2
  DEF Alarmed, Next, Rt, RtMisses, RtExchange, RtStops, RtStarts, RtReconfigured, Publish,
      Monitor, Receive, MonitorRaiseCode, RaiseCode, MonitorRaiseMode, RaiseMode,
      ErrorBaseline, Judge, CheckMode, CheckCode, MonitorClearCode, ClearCode,
      MonitorClearMode, TaskRaiseCode, TaskRaiseMode, vars, faultVars
<1> QED
  BY <1>1, <1>3 DEF Alarmed

\* One failed exchange forbids motion for as long as the loop runs, whichever messages
\* about it are lost and whatever the bus, the monitor and the task threads do
\* meanwhile.  That callback and publisher can always go on is NeverStuck.
THEOREM FailuresAreHeard == Spec /\ []NeverStuck => FailureIsHeard
<1> DEFINE I == mpc = "idle"
           T == topic # {}
<1>1. [Next]_vars => /\ rt_error /\ rt_running => rt_error'
                     /\ rt_error /\ Telling => Telling'
                     /\ rt_error /\ Publish => Telling'
                     /\ Telling /\ last_error => last_error'
                     /\ Telling /\ I /\ T /\ Monitor => last_error'
  BY FailureStep
<1>2. [Next]_vars /\ ~Monitor => (I => I') /\ (T => T')
  BY OthersWait
<1>3. NeverStuck /\ I /\ T => ENABLED <<Monitor>>_vars
  BY DEF NeverStuck
<1>4. NeverStuck /\ rt_error /\ ~Telling => ENABLED <<Publish>>_vars
  BY DEF NeverStuck, Telling, Stats
<1>5. Inv /\ last_error /\ I => Alarmed
  BY DEF Inv, Erring, Alarmed
<1>6. Inv /\ [Next]_vars /\ Telling /\ Alarmed => Alarmed'
  BY AlarmStays
<1>7. Alarmed => ~allows_motion
  BY DEF Alarmed, allows_motion, ModeAllowsMotion
<1>8. FailureKept /\ ~bus_ok => rt_error
  BY DEF FailureKept
<1>9. Going => (TRUE ~> I /\ T)
  BY CallbackEnds
<1> HIDE DEF I, T
<1>10. Going /\ []rt_error => <>[]Telling
  BY <1>1, <1>4, PTL DEF Going
<1>11. Going /\ []Telling => <>[]last_error
  BY <1>1, <1>2, <1>3, <1>9, PTL DEF Going
<1>12. Going /\ []Telling /\ []last_error => <>[]Alarmed
  BY <1>5, <1>6, <1>9, PTL DEF Going
<1>13. Going => []Going
  BY PTL DEF Going
<1>14. Going /\ rt_error /\ []rt_running => <>[]~allows_motion
  BY <1>1, <1>7, <1>10, <1>11, <1>12, <1>13, PTL DEF Going
<1> QED
  BY <1>8, <1>13, <1>14, Invariance, FailuresKept, PTL
  DEF Spec, Fairness, Going, FailureIsHeard

===============================================================================
