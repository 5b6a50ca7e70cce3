--------------------------- MODULE RtSchedule_proofs ---------------------------
(***************************************************************************)
(* Proofs about RtSchedule, for any period, measurement window, work and   *)
(* latency.  The loop never runs ahead of its schedule because a cycle     *)
(* begins at or after its tick and no tick serves two cycles (OnSchedule); *)
(* the measurement and the bound on beginnings follow from where the tick  *)
(* stands against an earlier moment (Since, AfterBegin).  Where cycles fit *)
(* into the period, no tick is skipped (InTime).  That the loop obeys a    *)
(* stop is proved from its fairness and from what the guards of two        *)
(* actions say about ENABLED (CanStep).                                    *)
(***************************************************************************)
EXTENDS RtSchedule, TLAPS

\* Ticks are in the order of their numbers, a period apart.
LEMMA TickOrder ==
  ASSUME NEW a \in Nat, NEW b \in Nat
  PROVE  /\ next_tick(a) \in Nat
         /\ next_tick(a + 1) = next_tick(a) + Period
         /\ a <= b => next_tick(a) <= next_tick(b)
BY PeriodAssumption DEF next_tick

\* A moment lies in its slot: not before the slot's tick, before the next one.
LEMMA SlotBounds ==
  ASSUME NEW a \in Nat
  PROVE  /\ a \div Period \in Nat
         /\ next_tick(a \div Period) <= a
         /\ a < next_tick(a \div Period) + Period
BY PeriodAssumption DEF next_tick

\* Where the tick stands against the clock and the cycles: at work it has been
\* reached, elsewhere the one before it has, and no tick served two cycles.
OnSchedule ==
  /\ tick >= 1 /\ loop_count + 1 <= tick
  /\ pc = "work" => next_tick(tick) <= now
  /\ pc # "work" => next_tick(tick) <= now + Period

\* Against the last measurement: a period ahead of it by at least as many ticks
\* as cycles have ended since.
Since ==
  /\ last_measure <= now /\ last_count <= loop_count
  /\ pc = "work" \/ loop_count > last_count =>
       next_tick(tick) + Period > last_measure + next_tick(loop_count - last_count)

\* Against the begin of the previous cycle.
AfterBegin ==
  /\ begins[1] <= now
  /\ pc = "work" => next_tick(tick) + Period > begins[2]
  /\ pc # "work" => next_tick(tick) > begins[2]

Inv == TypeOK /\ OnSchedule /\ Since /\ AfterBegin

\* The tick a cycle begins at, by sleeping or by skipping.
LEMMA Begin ==
  ASSUME Inv, BeginCycle
  PROVE  /\ tick' \in Nat /\ tick' >= tick
         /\ now' \in Nat /\ now' >= now
         /\ next_tick(tick') <= now'
         /\ next_tick(tick') + Period > now
         /\ begins' = <<now', begins[1], begins[2]>>
<1> USE PeriodAssumption, TimeAssumption
<1>0. now \in Nat /\ tick \in Nat
  BY DEF Inv, TypeOK
<1>t. next_tick(tick) \in Nat
  BY <1>0, TickOrder
<1>p. PICK pause \in 0 .. MaxLatency : Sleep(now + pause) \/ Skip(now + pause)
  BY DEF BeginCycle
<1> DEFINE now0 == now + pause
<1>n. now0 \in Nat /\ now0 >= now
  BY <1>0
<1> HIDE DEF now0
<1>1. CASE Sleep(now0)
  <2>1. PICK late \in 0 .. MaxLatency : BeginAt(next_tick(tick) + late)
    BY <1>1 DEF Sleep
  <2>2. next_tick(tick) > now0 /\ tick' = tick
    BY <1>1 DEF Sleep
  <2> QED
    BY <1>0, <1>n, <1>t, <2>1, <2>2 DEF BeginAt
<1>2. CASE Skip(now0)
  <2>1. PICK late \in 0 .. MaxLatency : BeginAt(now0 + late)
    BY <1>2 DEF Skip, Skipped
  <2>2. /\ slots(now0) \in Nat /\ next_tick(slots(now0)) <= now0
        /\ now0 < next_tick(slots(now0)) + Period
    BY <1>n, SlotBounds DEF slots
  <2>3. next_tick(slots(now0)) \in Nat /\ next_tick(tick) <= now0
    BY <1>2, <2>2, TickOrder DEF Skip, Skipped
  <2>4. slots(now0) >= tick
    <3> SUFFICES ASSUME slots(now0) + 1 <= tick PROVE FALSE
      BY <1>0, <2>2
    <3>1. /\ next_tick(slots(now0) + 1) = next_tick(slots(now0)) + Period
          /\ next_tick(slots(now0) + 1) <= next_tick(tick)
      BY <1>0, <2>2, TickOrder
    <3> QED
      BY <1>n, <1>t, <2>2, <2>3, <3>1
  <2>5. tick' = slots(now0)
    BY <1>0, <1>2, <2>2, <2>4 DEF Skip, Skipped
  <2> QED
    BY <1>0, <1>n, <2>1, <2>2, <2>3, <2>4, <2>5 DEF BeginAt
<1> QED
  BY <1>p, <1>1, <1>2 DEF now0

\* The time since an earlier moment is a number.
LEMMA Difference ==
  ASSUME NEW a \in Nat, NEW b \in Nat, a <= b
  PROVE  b - a \in Nat
OBVIOUS

\* A measurement is two numbers.
LEMMA Measurement ==
  ASSUME NEW c \in Nat, NEW e \in Nat
  PROVE  [cycles |-> c, elapsed |-> e] \in [cycles : Nat, elapsed : Nat]
OBVIOUS

\* The schedule, the measurement and the begins stay in step with the clock.
LEMMA Invariance == Spec => []Inv
<1> USE PeriodAssumption, TimeAssumption
<1>1. Init => Inv
  <2> SUFFICES ASSUME Init PROVE Inv
    OBVIOUS
  <2>1. next_tick(1) = Period
    BY DEF next_tick
  <2>2. TypeOK
    BY DEF Init, TypeOK
  <2> QED
    BY <2>1, <2>2 DEF Init, Inv, OnSchedule, Since, AfterBegin
<1>2. Inv /\ [Next]_vars => Inv'
  <2> SUFFICES ASSUME Inv, [Next]_vars PROVE Inv'
    OBVIOUS
  <2>0. /\ now \in Nat /\ tick \in Nat /\ loop_count \in Nat
        /\ last_measure \in Nat /\ last_count \in Nat
        /\ last_count <= loop_count /\ last_measure <= now
        /\ loop_count + 1 <= tick /\ tick >= 1
        /\ begins \in Nat \X Nat \X Nat
    BY DEF Inv, TypeOK, OnSchedule, Since
  <2>n. loop_count - last_count \in Nat
    BY <2>0
  <2>t. next_tick(tick) \in Nat /\ next_tick(loop_count - last_count) \in Nat
    BY <2>0, <2>n, TickOrder
  <2>1. CASE BeginCycle
    <3>1. /\ tick' \in Nat /\ tick' >= tick
          /\ now' \in Nat /\ now' >= now
          /\ next_tick(tick') <= now'
          /\ next_tick(tick') + Period > now
          /\ begins' = <<now', begins[1], begins[2]>>
      BY <2>1, Begin
    <3>2. /\ pc # "work" /\ pc' = "work"
          /\ UNCHANGED <<loop_count, measureVars, stop_requested>>
      BY <2>1 DEF BeginCycle
    <3>3. next_tick(tick') \in Nat /\ next_tick(tick) <= next_tick(tick')
      BY <2>0, <3>1, TickOrder
    <3>4. TypeOK'
      BY <2>0, <3>1, <3>2 DEF Inv, TypeOK, measureVars
    <3>5. OnSchedule'
      BY <2>0, <3>1, <3>2 DEF OnSchedule
    <3>6. Since'
      <4>1. CASE loop_count > last_count
        BY <2>0, <2>t, <3>1, <3>2, <3>3, <4>1 DEF Inv, Since, measureVars
      <4>2. CASE loop_count = last_count
        <5>1. next_tick(loop_count - last_count) = 0
          BY <2>0, <4>2 DEF next_tick
        <5> QED
          BY <2>0, <3>1, <3>2, <3>3, <5>1 DEF Since, measureVars
      <4> QED
        BY <2>0, <4>1, <4>2
    <3>7. AfterBegin'
      BY <2>0, <3>1, <3>2, <3>3 DEF Inv, AfterBegin
    <3> QED
      BY <3>4, <3>5, <3>6, <3>7 DEF Inv
  <2>2. CASE EndCycle
    <3>1. /\ pc = "work" /\ pc' = "head"
          /\ tick' = tick + 1 /\ loop_count' = loop_count + 1
          /\ UNCHANGED <<stop_requested, begins>>
      BY <2>2 DEF EndCycle
    <3>2. now' \in Nat /\ now' >= now
      BY <2>0, <2>2 DEF EndCycle
    <3>3. /\ next_tick(tick') = next_tick(tick) + Period
          /\ next_tick(tick) <= now
          /\ next_tick(tick) + Period > last_measure + next_tick(loop_count - last_count)
          /\ next_tick(tick) + Period > begins[2] /\ begins[1] <= now
      BY <2>0, <3>1, TickOrder DEF Inv, OnSchedule, Since, AfterBegin
    <3>4. /\ loop_count' - last_count = (loop_count - last_count) + 1
          /\ next_tick(loop_count' - last_count) =
               next_tick(loop_count - last_count) + Period
      BY <2>0, <2>n, <3>1, TickOrder
    <3>5. CASE UNCHANGED measureVars
      <4>1. TypeOK'
        BY <2>0, <3>1, <3>2, <3>5 DEF Inv, TypeOK, measureVars
      <4>2. OnSchedule' /\ AfterBegin'
        BY <2>0, <2>t, <3>1, <3>2, <3>3 DEF OnSchedule, AfterBegin
      <4>3. Since'
        BY <2>0, <2>t, <3>1, <3>2, <3>3, <3>4, <3>5 DEF Since, measureVars
      <4> QED
        BY <4>1, <4>2, <4>3 DEF Inv
    <3>6. CASE /\ measured' = [cycles  |-> loop_count' - last_count,
                               elapsed |-> now' - last_measure]
               /\ last_measure' = now'
               /\ last_count' = loop_count'
      <4>1. measured' \in [cycles : Nat, elapsed : Nat]
        <5>1. loop_count' - last_count \in Nat /\ now' - last_measure \in Nat
          <6>1. /\ now' \in Nat /\ last_measure \in Nat
                /\ last_measure <= now'
            BY <2>0, <3>2
          <6>2. now' - last_measure \in Nat
            BY <6>1, Difference
          <6> QED
            BY <2>0, <2>n, <3>4, <6>2
        <5>2. [cycles  |-> loop_count' - last_count,
               elapsed |-> now' - last_measure] \in [cycles : Nat, elapsed : Nat]
          BY <5>1, Measurement
        <5>3. measured' = [cycles  |-> loop_count' - last_count,
                           elapsed |-> now' - last_measure]
          BY <3>6
        <5> QED
          BY ONLY <5>2, <5>3
      <4>2. TypeOK'
        <5>1. pc' \in {"head", "work", "stopped"} /\ stop_requested' \in BOOLEAN
          BY <3>1 DEF Inv, TypeOK
        <5>2. /\ loop_count' \in Nat /\ tick' \in Nat /\ last_measure' \in Nat
              /\ last_count' \in Nat /\ begins' \in Nat \X Nat \X Nat
          BY <2>0, <3>1, <3>2, <3>6
        <5> QED
          BY <3>2, <4>1, <5>1, <5>2 DEF TypeOK
      <4>3. OnSchedule' /\ AfterBegin'
        BY <2>0, <2>t, <3>1, <3>2, <3>3 DEF OnSchedule, AfterBegin
      <4>4. Since'
        BY <2>0, <3>1, <3>2, <3>6 DEF Since
      <4> QED
        BY <4>2, <4>3, <4>4 DEF Inv
    <3> QED
      BY <2>2, <3>5, <3>6 DEF EndCycle, Measure, CyclesSince
  <2>3. CASE RequestStop \/ Leave \/ Joined \/ UNCHANGED vars
    <3>1. /\ UNCHANGED <<now, tick, loop_count, measureVars, begins>>
          /\ pc' \in {pc, "stopped"} /\ (pc = "work") = (pc' = "work")
          /\ stop_requested' \in BOOLEAN
      BY <2>3 DEF RequestStop, Leave, Joined, vars, Inv, TypeOK
    <3>2. TypeOK'
      BY <3>1 DEF Inv, TypeOK, measureVars
    <3> QED
      BY <3>1, <3>2 DEF Inv, OnSchedule, Since, AfterBegin, measureVars
  <2> QED
    BY <2>1, <2>2, <2>3 DEF Next
<1> QED
  BY <1>1, <1>2, PTL DEF Spec

-------------------------------------------------------------------------------
\* The variables of the schedule keep their types.
THEOREM TypeCorrect == Spec => []TypeOK
BY Invariance, PTL DEF Inv

\* The loop has never begun more cycles than periods have passed, for any period,
\* work and latency.
THEOREM NeverAhead == Spec => []RateBound
<1>1. Inv => RateBound
  <2> SUFFICES ASSUME Inv PROVE loop_count * Period <= now
    BY DEF RateBound
  <2>0. now \in Nat /\ tick \in Nat /\ loop_count \in Nat /\ loop_count + 1 <= tick
    BY DEF Inv, TypeOK, OnSchedule
  <2>1. /\ next_tick(loop_count + 1) = next_tick(loop_count) + Period
        /\ next_tick(loop_count + 1) <= next_tick(tick)
        /\ next_tick(loop_count) \in Nat /\ next_tick(tick) \in Nat
    BY <2>0, TickOrder
  <2>2. next_tick(tick) <= now + Period
    BY <2>0, <2>1, PeriodAssumption DEF Inv, OnSchedule
  <2>3. next_tick(loop_count) <= now
    BY <2>0, <2>1, <2>2, PeriodAssumption
  <2> QED
    BY <2>3 DEF next_tick
<1> QED
  BY <1>1, Invariance, PTL

\* A frequency the loop reports exceeds its schedule by less than two cycles per
\* measurement, however late its wake-ups and long its work.
THEOREM NeverInflated == Spec => []MeasuredRateHonest
<1> USE PeriodAssumption
<1>1. Init => MeasuredRateHonest
  BY DEF Init, MeasuredRateHonest
<1>2. Inv /\ MeasuredRateHonest /\ [Next]_vars => MeasuredRateHonest'
  <2> SUFFICES ASSUME Inv, MeasuredRateHonest, [Next]_vars
               PROVE  MeasuredRateHonest'
    OBVIOUS
  <2>1. CASE UNCHANGED measured
    BY <2>1 DEF MeasuredRateHonest
  <2>2. CASE /\ EndCycle
             /\ measured' = [cycles  |-> loop_count' - last_count,
                             elapsed |-> now' - last_measure]
    <3>1. /\ now \in Nat /\ tick \in Nat /\ loop_count \in Nat
          /\ last_measure \in Nat /\ last_count \in Nat
          /\ loop_count - last_count \in Nat /\ last_measure <= now
      BY DEF Inv, TypeOK, Since
    <3>2. /\ next_tick(tick) <= now
          /\ next_tick(tick) + Period > last_measure + next_tick(loop_count - last_count)
      BY <2>2 DEF EndCycle, Inv, OnSchedule, Since
    <3>3. /\ loop_count' - last_count = (loop_count - last_count) + 1
          /\ now' \in Nat /\ now' >= now
      BY <2>2, <3>1, TimeAssumption DEF EndCycle
    <3>4. /\ next_tick(loop_count' - last_count) =
               next_tick(loop_count - last_count) + Period
          /\ next_tick(loop_count - last_count) \in Nat /\ next_tick(tick) \in Nat
      BY <3>1, <3>3, TickOrder
    <3>5. next_tick(loop_count' - last_count) <= (now' - last_measure) + 2 * Period
      BY <3>1, <3>2, <3>3, <3>4
    <3> QED
      BY <2>2, <3>5 DEF MeasuredRateHonest, next_tick
  <2> QED
    BY <2>1, <2>2 DEF Next, BeginCycle, EndCycle, Measure, CyclesSince, RequestStop, Leave,
                      Joined, vars, measureVars
<1> QED
  BY <1>1, <1>2, Invariance, PTL DEF Spec

\* No more than two cycles begin in the same period, even after a late wake-up.
THEOREM TwoPerSlot == Spec => []TwoBeginsPerSlot
<1> USE PeriodAssumption
<1>1. Init => TwoBeginsPerSlot
  BY DEF Init, TwoBeginsPerSlot
<1>2. Inv /\ TwoBeginsPerSlot /\ [Next]_vars => TwoBeginsPerSlot'
  <2> SUFFICES ASSUME Inv, TwoBeginsPerSlot, [Next]_vars
               PROVE  TwoBeginsPerSlot'
    OBVIOUS
  <2>1. CASE UNCHANGED begins
    BY <2>1 DEF TwoBeginsPerSlot
  <2>2. CASE BeginCycle
    <3>1. /\ tick' \in Nat /\ tick' >= tick /\ now' \in Nat
          /\ next_tick(tick') <= now'
          /\ begins' = <<now', begins[1], begins[2]>>
      BY <2>2, Begin
    <3>2. /\ tick \in Nat /\ begins[2] \in Nat /\ next_tick(tick) > begins[2]
      BY <2>2 DEF Inv, TypeOK, AfterBegin, BeginCycle
    <3>3. next_tick(tick) <= next_tick(tick') /\ next_tick(tick') \in Nat
          /\ next_tick(tick) \in Nat
      BY <3>1, <3>2, TickOrder
    <3> DEFINE a == begins[2] \div Period
               b == now' \div Period
    <3>4. a \in Nat /\ next_tick(a) <= begins[2]
      BY <3>2, SlotBounds
    <3>5. b \in Nat /\ now' < next_tick(b) + Period
      BY <3>1, SlotBounds
    <3> HIDE DEF a, b
    <3>6. next_tick(b + 1) = next_tick(b) + Period /\ next_tick(b) \in Nat
          /\ next_tick(a) \in Nat
      BY <3>4, <3>5, TickOrder
    <3>7. tick' <= b
      <4> SUFFICES ASSUME b + 1 <= tick' PROVE FALSE
        BY <3>1, <3>5
      <4>1. next_tick(b + 1) <= next_tick(tick')
        BY <3>1, <3>5, TickOrder
      <4> QED
        BY <3>1, <3>3, <3>5, <3>6, <4>1
    <3>8. a < tick'
      <4> SUFFICES ASSUME tick' <= a PROVE FALSE
        BY <3>1, <3>4
      <4>1. next_tick(tick') <= next_tick(a)
        BY <3>1, <3>4, TickOrder
      <4> QED
        BY <3>2, <3>3, <3>4, <3>6, <4>1
    <3>9. b > a
      BY <3>1, <3>4, <3>5, <3>7, <3>8
    <3> QED
      BY <3>1, <3>9 DEF TwoBeginsPerSlot, a, b
  <2> QED
    BY <2>1, <2>2 DEF Next, EndCycle, RequestStop, Leave, Joined, vars
<1> QED
  BY <1>1, <1>2, Invariance, PTL DEF Spec

\* The loop never makes up for lost time by a burst of exchanges.
THEOREM BurstFree == Spec => []NoBurst
BY NeverAhead, TwoPerSlot, PTL DEF NoBurst

-------------------------------------------------------------------------------
(* Cycles that fit into their period.                                      *)

\* No tick has been skipped: each cycle begins at its own, and between two cycles the
\* one to come has not passed yet.
InTime ==
  /\ tick = loop_count + 1
  /\ pc = "work" => begins[1] \in next_tick(tick) .. next_tick(tick) + MaxLatency
  /\ pc = "work" => now = begins[1]
  /\ pc # "work" => now + Period <= next_tick(tick) + MaxLatency + MaxWork

\* A loop whose cycles fit into the period skips no tick and keeps its phase to the
\* start of the thread, for as long as it runs: the drift that the run rt_schedule_phase
\* shows has no other cause than cycles that overrun.
THEOREM FittingCyclesKeepPhase == Spec => []EveryTickServed
<1> USE PeriodAssumption, TimeAssumption
<1>1. Init => InTime
  <2> SUFFICES ASSUME Init PROVE InTime
    OBVIOUS
  <2>1. next_tick(1) = Period
    BY DEF next_tick
  <2> QED
    BY <2>1 DEF Init, InTime
<1>2. Inv /\ CyclesFit /\ InTime /\ [Next]_vars => InTime'
  <2> SUFFICES ASSUME Inv, CyclesFit, InTime, [Next]_vars
               PROVE  InTime'
    OBVIOUS
  <2>0. now \in Nat /\ tick \in Nat /\ loop_count \in Nat /\ next_tick(tick) \in Nat
    BY TickOrder DEF Inv, TypeOK
  <2>1. CASE BeginCycle
    <3>1. now + Period <= next_tick(tick) + MaxLatency + MaxWork
      BY <2>1 DEF BeginCycle, InTime
    <3>2. PICK pause \in 0 .. MaxLatency : Sleep(now + pause) \/ Skip(now + pause)
      BY <2>1 DEF BeginCycle
    <3>3. now + pause < next_tick(tick)
      BY <2>0, <3>1 DEF CyclesFit
    <3>4. Sleep(now + pause)
      BY <2>0, <3>2, <3>3 DEF Skip
    <3>5. PICK late \in 0 .. MaxLatency : BeginAt(next_tick(tick) + late)
      BY <3>4 DEF Sleep
    <3>6. /\ UNCHANGED <<tick, loop_count>> /\ pc' = "work"
          /\ begins'[1] = next_tick(tick) + late /\ now' = next_tick(tick) + late
      BY <2>1, <3>4, <3>5 DEF BeginCycle, Sleep, BeginAt
    <3> QED
      BY <2>0, <3>6 DEF InTime
  <2>2. CASE EndCycle
    <3>1. /\ pc = "work" /\ pc' = "head"
          /\ tick' = tick + 1 /\ loop_count' = loop_count + 1
      BY <2>2 DEF EndCycle
    <3>2. PICK work \in 0 .. MaxWork : now' = now + work
      BY <2>2 DEF EndCycle
    <3>3. next_tick(tick') = next_tick(tick) + Period
      BY <2>0, <3>1, TickOrder
    <3>4. now \in next_tick(tick) .. next_tick(tick) + MaxLatency
      BY <3>1 DEF InTime
    <3> QED
      BY <2>0, <3>1, <3>2, <3>3, <3>4 DEF InTime
  <2>3. CASE RequestStop \/ Leave \/ Joined \/ UNCHANGED vars
    <3>1. UNCHANGED <<now, tick, loop_count, begins>> /\ (pc = "work") = (pc' = "work")
      BY <2>3 DEF RequestStop, Leave, Joined, vars
    <3> QED
      BY <3>1 DEF InTime
  <2> QED
    BY <2>1, <2>2, <2>3 DEF Next
<1>3. Inv /\ InTime => EveryTickServed
  <2> SUFFICES ASSUME Inv, InTime, pc = "work" PROVE EveryTickServed
    BY DEF EveryTickServed
  <2>1. loop_count + 1 \in Nat /\ begins[1] \in Nat
    BY DEF Inv, TypeOK
  <2>2. next_tick(loop_count + 1) = (loop_count + 1) * Period
    BY DEF next_tick
  <2>3. next_tick(loop_count + 1) \in Nat
    BY <2>1, TickOrder
  <2>4. /\ begins[1] >= next_tick(loop_count + 1)
        /\ begins[1] <= next_tick(loop_count + 1) + MaxLatency
    BY <2>1, <2>3 DEF InTime
  <2>5. begins[1] - next_tick(loop_count + 1) \in 0 .. MaxLatency
    BY <2>1, <2>3, <2>4
  <2> QED
    BY <2>2, <2>5 DEF EveryTickServed
<1>4. CASE CyclesFit
  BY <1>1, <1>2, <1>3, <1>4, Invariance, PTL DEF Spec
<1>5. CASE ~CyclesFit
  BY <1>5, PTL DEF EveryTickServed
<1> QED
  BY <1>4, <1>5

-------------------------------------------------------------------------------
(* Liveness.                                                               *)

\* A cycle that has begun can end, and at the head of the loop the thread can leave
\* once it is asked to.  These are the guards of EndCycle and Leave written out: both
\* change a variable in every state they apply to, but ENABLED is beyond the provers.
CanStep ==
  /\ pc = "work" => ENABLED <<EndCycle>>_vars
  /\ pc = "head" /\ stop_requested => ENABLED <<Leave>>_vars

\* The thread leaves its loop once it is asked to, by its own fairness alone, for any
\* period, work and latency: a request that comes while it works is met at the head
\* of the loop, where no further cycle begins.
THEOREM StopIsObeyed == Spec /\ []CanStep => StopLeaves
<1>1. stop_requested /\ [Next]_vars => stop_requested'
  BY DEF Next, BeginCycle, EndCycle, RequestStop, Leave, Joined, vars, measureVars
<1>2. TypeOK => pc \in {"head", "work", "stopped"}
  BY DEF TypeOK
<1>3. pc = "work" /\ [Next]_vars => (pc = "work")' \/ (pc = "head")'
  BY DEF Next, BeginCycle, EndCycle, RequestStop, Leave, Joined, vars, measureVars
<1>4. pc = "work" /\ <<EndCycle>>_vars => (pc = "head")'
  BY DEF EndCycle
<1>5. pc = "head" /\ stop_requested /\ [Next]_vars => (pc = "head")' \/ (pc = "stopped")'
  BY DEF Next, BeginCycle, EndCycle, RequestStop, Leave, Joined, vars, measureVars
<1>6. <<Leave>>_vars => (pc = "stopped")'
  BY DEF Leave
<1>7. pc \in {"head", "work", "stopped"} => pc = "head" \/ pc = "work" \/ pc = "stopped"
  OBVIOUS
<1>8. CanStep => /\ pc = "work" => ENABLED <<EndCycle>>_vars
                 /\ pc = "head" /\ stop_requested => ENABLED <<Leave>>_vars
  BY DEF CanStep
<1> QED
  BY <1>1, <1>2, <1>3, <1>4, <1>5, <1>6, <1>7, <1>8, TypeCorrect, PTL
  DEF Spec, Fairness, StopLeaves

===============================================================================
