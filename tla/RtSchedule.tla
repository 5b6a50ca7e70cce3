------------------------------ MODULE RtSchedule ------------------------------
(***************************************************************************)
(* The timing of RtControlLoop::run: an absolute schedule of ticks, one    *)
(* every Period from the start of the thread, the skipping of ticks that   *)
(* have passed, and the frequency measurement.  Times are integers counted *)
(* from "start"; the work of a cycle (limiter, exchange, state publication)*)
(* and the latency of waking up take any time up to a bound.  The counter  *)
(* of overrunning cycles is in module HealthMonitor, which watches it.     *)
(*                                                                         *)
(* next_tick_early, SleepFromNow, NotSkipped, CyclesEver, CyclesBackwards  *)
(* and LeaveAfterACycle are faulty variants of the definitions that stand  *)
(* next to them; no action uses them.                                      *)
(***************************************************************************)
EXTENDS Naturals

CONSTANTS
  Period,         \* the period, 1e9 / loop_hz
  MeasureWindow,  \* one second
  MaxWork,        \* bound on the work of a cycle
  MaxLatency,     \* bound on the latency of a wake-up
  MaxTime         \* bound on the time at which a cycle may still begin

ASSUME PeriodAssumption == Period \in Nat \ {0} /\ MeasureWindow \in Nat \ {0}
ASSUME TimeAssumption   == MaxWork \in Nat /\ MaxLatency \in Nat /\ MaxTime \in Nat

VARIABLES
  pc,                \* "head" of the loop, at "work", or "stopped"
  now,               \* the steady clock
  tick,              \* the tick the next cycle belongs to
  loop_count,
  last_measure, last_count,
  measured,          \* measured_frequency_hz, as cycles over elapsed time
  stop_requested,
  begins             \* history: when the last three cycles began, latest first

measureVars == <<last_measure, last_count, measured>>
vars == <<pc, now, tick, loop_count, measureVars, stop_requested, begins>>

next_tick_early(t) == (t - 1) * Period
next_tick(t) == t * Period
slots(now0)  == now0 \div Period
loop_begin   == begins[1]

Init ==
  /\ pc = "head"
  /\ now = 0 /\ tick = 1 /\ loop_count = 0
  /\ last_measure = 0 /\ last_count = 0
  /\ measured = [cycles |-> 0, elapsed |-> 0]
  /\ stop_requested = FALSE
  /\ begins = <<0, 0, 0>>

-------------------------------------------------------------------------------
BeginAt(t) == /\ now' = t
              /\ begins' = <<t, begins[1], begins[2]>>

SleepFromNow(now0) ==
  /\ next_tick(tick) > now0
  /\ \E late \in 0 .. MaxLatency : BeginAt(now0 + Period + late)
  /\ UNCHANGED tick

\* sleep_until(wake_time), which may return late.
Sleep(now0) ==
  /\ next_tick(tick) > now0
  /\ \E late \in 0 .. MaxLatency : BeginAt(next_tick(tick) + late)
  /\ UNCHANGED tick

NotSkipped(now0) == tick
Skipped(now0)    == IF slots(now0) + 1 > tick THEN slots(now0) ELSE tick

\* The tick has passed: skip to the slot the clock is in, and begin at once.
Skip(now0) ==
  /\ next_tick(tick) <= now0
  /\ tick' = Skipped(now0)
  /\ \E late \in 0 .. MaxLatency : BeginAt(now0 + late)

\* now0 is read some time after the end of the cycle before.
BeginCycle ==
  /\ pc = "head" /\ ~stop_requested
  /\ now <= MaxTime
  /\ \E late \in 0 .. MaxLatency : Sleep(now + late) \/ Skip(now + late)
  /\ pc' = "work"
  /\ UNCHANGED <<loop_count, measureVars, stop_requested>>

CyclesEver      == loop_count'
CyclesBackwards == last_count - loop_count'
CyclesSince     == loop_count' - last_count

\* The measurement is taken by the first cycle that ends a window or more after
\* the last one.
Measure ==
  IF now' - last_measure >= MeasureWindow
    THEN /\ measured' = [cycles  |-> CyclesSince,
                         elapsed |-> now' - last_measure]
         /\ last_measure' = now'
         /\ last_count' = loop_count'
    ELSE UNCHANGED measureVars

EndCycle ==
  /\ pc = "work"
  /\ \E work \in 0 .. MaxWork : now' = now + work
  /\ loop_count' = loop_count + 1
  /\ Measure
  /\ tick' = tick + 1
  /\ pc' = "head"
  /\ UNCHANGED <<stop_requested, begins>>

\* stop(), from another thread; the loop looks at the flag between cycles.
RequestStop ==
  /\ ~stop_requested
  /\ stop_requested' = TRUE
  /\ UNCHANGED <<pc, now, tick, loop_count, measureVars, begins>>

LeaveAfterACycle ==
  /\ pc = "head" /\ stop_requested /\ loop_count > 0
  /\ pc' = "stopped"
  /\ UNCHANGED <<now, tick, loop_count, measureVars, stop_requested, begins>>

Leave ==
  /\ pc = "head" /\ stop_requested
  /\ pc' = "stopped"
  /\ UNCHANGED <<now, tick, loop_count, measureVars, stop_requested, begins>>

Joined == pc = "stopped" /\ UNCHANGED vars

Next == BeginCycle \/ EndCycle \/ RequestStop \/ Leave \/ Joined

\* The RT thread is scheduled; nobody has to stop it.
Fairness == WF_vars(BeginCycle) /\ WF_vars(EndCycle) /\ WF_vars(Leave)

Spec == Init /\ [][Next]_vars /\ Fairness

-------------------------------------------------------------------------------
(* Properties.                                                             *)

TypeOK ==
  /\ pc \in {"head", "work", "stopped"}
  /\ now \in Nat /\ tick \in Nat /\ loop_count \in Nat
  /\ last_measure \in Nat /\ last_count \in Nat
  /\ measured \in [cycles : Nat, elapsed : Nat]
  /\ stop_requested \in BOOLEAN
  /\ begins \in Nat \X Nat \X Nat

\* The loop never runs ahead of its schedule: by any moment it has begun at most
\* one cycle per period elapsed since the start, so lost ticks are not made up for.
RateBound == loop_count * Period <= now

\* After a late wake-up a second cycle may begin in the same period; a third
\* never does.
TwoBeginsPerSlot ==
  begins[1] > 0 => begins[1] \div Period > begins[3] \div Period

\* However its cycles overrun, are late or skip ticks, the loop never makes up for
\* lost time by a burst of exchanges: not in the long run, and not by more than two
\* exchanges in any one period.
NoBurst == RateBound /\ TwoBeginsPerSlot

\* The frequency the loop reports is never inflated by more than two cycles in a
\* measurement window, although late wake-ups are followed by early cycles.
MeasuredRateHonest ==
  measured.cycles * Period <= measured.elapsed + 2 * Period

\* The longest cycle ends, and the thread is back at its clock, before the next tick.
CyclesFit == MaxWork + 2 * MaxLatency < Period

\* A loop whose cycles fit into the period loses no tick and does not drift: its n-th
\* cycle begins n periods after the start, later only by the latency of one wake-up,
\* however long it has run.
EveryTickServed ==
  CyclesFit /\ pc = "work" =>
    begins[1] - (loop_count + 1) * Period \in 0 .. MaxLatency

\* stop() joins: the thread leaves its loop once it is asked to.
StopLeaves == stop_requested ~> pc = "stopped"

-------------------------------------------------------------------------------
\* The comment in run() says that skipping ticks keeps the absolute phase from
\* the start, so that exchanges that often overrun do not make the loop run
\* freely: with prompt wake-ups, one of any three cycles begins on a tick.
KeepsPhase == \E i \in 1 .. 3 : begins[i] % Period = 0

===============================================================================
