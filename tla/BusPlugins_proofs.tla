--------------------------- MODULE BusPlugins_proofs --------------------------
(***************************************************************************)
(* Proofs about module BusPlugins, for all parameters, gains, limits and   *)
(* commands.                                                               *)
(*                                                                         *)
(* The parts of the inductive invariant Inv are the types; what the order  *)
(* of calls, the flags and the master say of each other (Owned); when a    *)
(* safety event may still be unaccepted (Guarded); that whatever is on its *)
(* way to a joint has passed the limit (Moved); and the clock of the       *)
(* watchdog (WatchdogExact itself, with the types).                        *)
(***************************************************************************)
EXTENDS BusPlugins, TLAPS

\* A setpoint is followed by a configured adapter that runs, and by nobody else.
Owned ==
  /\ exchanging => bus = "started"
  /\ bus = "started" => running_
  /\ EtherCat /\ bus = "started" => configured_ /\ master # "none"
  /\ EtherCat /\ configured_ => build_axis_configs
  /\ ~EtherCat => master = "none"
  /\ master = "none" \/ bus \in {"none", "new"} => driven = Empty
  /\ at # "head" => EtherCat
  /\ driven # Empty => running_ /\ configured_ /\ EtherCat

\* While the bus is started an event has left the latch set; only EcStart, which
\* accepts the event, starts an adapter.
Guarded ==
  /\ event => EtherCat /\ driven = Empty
  /\ event /\ bus = "started" => latched

\* Of a velocity that has passed the limit.
InLimit(v) ==
  Leq(0, params.max_velocity) => v = NaN \/ Leq(Magnitude(v), params.max_velocity)

LimitedSetpoints ==
  {x \in [Joint -> [position : Double, velocity : Double]] :
     \A j \in Joint : InLimit(x[j].velocity)}

\* What is measured is always a number.
Moved ==
  /\ plant \in [Joint -> [position : Int, velocity : Int]]
  /\ \A j \in Joint : InLimit(plant[j].velocity)
  /\ command \in LimitedSetpoints \cup {Empty}
  /\ driven \in LimitedSetpoints \cup {Empty}

Inv == TypeOK /\ Owned /\ Guarded /\ Moved /\ WatchdogExact

-------------------------------------------------------------------------------
(* The functions of <algorithm>.                                           *)

\* The limit of a command: std::min with the limit, then std::max with its
\* negative, whatever the sign of the limit, NaN included.
LEMMA ClampLimits ==
  ASSUME NEW v \in Int, NEW limit \in Double
  PROVE  /\ Clamp(v, limit) \in Double
         /\ Leq(0, limit) => Leq(Magnitude(Clamp(v, limit)), limit)
<1>1. CASE limit = NaN
  BY <1>1, NaNAssumption
  DEF Clamp, StdMax, StdMin, Negated, Less, Leq, Double
<1>2. CASE limit \in Int
  <2>. /\ v # NaN /\ limit # NaN /\ -limit # NaN
       /\ Negated(limit) = -limit /\ -limit \in Int
    BY <1>2, NaNAssumption DEF Negated
  <2>. DEFINE m == IF limit < v THEN limit ELSE v
  <2>1. StdMin(v, limit) = m /\ m \in Int /\ m # NaN
    BY <1>2, NaNAssumption DEF StdMin, Less
  <2>2. Clamp(v, limit) = IF -limit < m THEN m ELSE -limit
    BY <1>2, <2>1 DEF Clamp, StdMax, Less
  <2>. DEFINE w == IF -limit < m THEN m ELSE -limit
  <2>3. w \in Int /\ w # NaN
    BY <1>2, <2>1, NaNAssumption
  <2>4. Magnitude(w) = IF w < 0 THEN -w ELSE w
    BY <2>3 DEF Magnitude
  <2>5. ASSUME Leq(0, limit) PROVE Leq(Magnitude(w), limit)
    BY <1>2, <2>1, <2>3, <2>4, <2>5, NaNAssumption DEF Leq
  <2> QED
    BY <2>2, <2>3, <2>5 DEF Double
<1> QED
  BY <1>1, <1>2 DEF Double

\* std::clamp with the limit and its negative.
LEMMA StdClampLimits ==
  ASSUME NEW v \in Int, NEW limit \in Double
  PROVE  LET w == StdClamp(v, Negated(limit), limit)
         IN  w \in Int /\ (Leq(0, limit) => Leq(Magnitude(w), limit))
<1>1. CASE limit = NaN
  BY <1>1, NaNAssumption DEF StdClamp, Negated, Less, Leq
<1>2. CASE limit \in Int
  <2>. /\ v # NaN /\ limit # NaN /\ -limit # NaN
       /\ Negated(limit) = -limit /\ -limit \in Int
    BY <1>2, NaNAssumption DEF Negated
  <2>. DEFINE w == IF v < -limit THEN -limit ELSE IF limit < v THEN limit ELSE v
  <2>1. StdClamp(v, Negated(limit), limit) = w
    BY <1>2 DEF StdClamp, Less
  <2>2. w \in Int /\ w # NaN
    BY <1>2, NaNAssumption
  <2>3. Magnitude(w) = IF w < 0 THEN -w ELSE w
    BY <2>2 DEF Magnitude
  <2>4. ASSUME Leq(0, limit) PROVE Leq(Magnitude(w), limit)
    BY <1>2, <2>2, <2>3, <2>4, NaNAssumption DEF Leq
  <2> QED
    BY <2>1, <2>2, <2>4
<1> QED
  BY <1>1, <1>2 DEF Double

-------------------------------------------------------------------------------
(* The initial states.                                                     *)

LEMMA InitInv == Init => Inv
<1> SUFFICES ASSUME Init PROVE Inv
  OBVIOUS
<1> USE DEF Init, BusInit
<1>1. TypeOK
  BY DEF TypeOK, BusPhase
<1>2. Owned /\ Guarded
  BY DEF Owned, Guarded
<1>3. params.max_velocity \in Double /\ params.timeout \in Nat
  BY ParamsAssumption
<1>4. InLimit(0)
  BY <1>3, NaNAssumption DEF InLimit, Leq, Magnitude, Double
<1>5. Moved
  BY <1>4 DEF Moved, AtRest
<1>6. WatchdogExact
  BY <1>3 DEF WatchdogExact
<1> QED
  BY <1>1, <1>2, <1>5, <1>6 DEF Inv

-------------------------------------------------------------------------------
(* The types.                                                              *)

LEMMA TypeStep ==
  ASSUME TypeOK, [Next]_vars
  PROVE  TypeOK'
<1> USE DEF TypeOK
<1>1. CASE Create
  BY <1>1 DEF Create, CreateBus, BusPhase, flagVars, callVars, simVars, masterVars
<1>2. CASE Destroy
  BY <1>2 DEF Destroy, DestroyBus, BusPhase
<1>3. CASE PlainConfigure
  <2>1. configured_' \in BOOLEAN
    BY <1>3 DEF PlainConfigure
  <2>2. time' \in Nat
    BY <1>3 DEF PlainConfigure
  <2> QED
    BY <1>3, <2>1, <2>2
    DEF PlainConfigure, ConfigureBus, CallFails, busVars, BusPhase, callVars, masterVars
<1>4. CASE EcConfigure
  <2>1. /\ bus' \in BusPhase /\ exchanging' = exchanging
        /\ configured_' \in BOOLEAN /\ master' \in {"none", "ready"}
    BY <1>4 DEF EcConfigure, ConfigureBus, CallFails, busVars, BusPhase
  <2> QED
    BY <1>4, <2>1 DEF EcConfigure, callVars, simVars
<1>5. CASE PlainStart
  <2>1. time' \in Nat
    BY <1>5 DEF PlainStart, MockStart, SkeletonStart, ReferenceSimStart
  <2>2. /\ bus' = "started" /\ exchanging' = exchanging /\ running_' = TRUE
        /\ silent' = 0 /\ outcome' = "none"
        /\ UNCHANGED <<params, configured_, at, master, latched, dwelled, safe_output, event>>
    BY <1>5 DEF PlainStart, StartBus, masterVars
  <2> QED
    BY <2>1, <2>2 DEF BusPhase
<1>6. CASE EcStart
  <2>1. UNCHANGED <<params, configured_, at, outcome, time, silent>>
    BY <1>6 DEF EcStart, callVars, simVars
  <2>2. bus' \in BusPhase /\ exchanging' = exchanging /\ running_' \in BOOLEAN
    BY <1>6 DEF EcStart, StartBus, CallFails, busVars, BusPhase
  <2>3. /\ master' \in {master, "cycling"} /\ latched' \in BOOLEAN /\ dwelled' \in BOOLEAN
        /\ safe_output' \in BOOLEAN /\ event' \in BOOLEAN
    BY <1>6 DEF EcStart, MasterStart, masterVars
  <2> QED
    BY <2>1, <2>2, <2>3
<1>7. CASE Stop
  <2>1. UNCHANGED <<params, configured_, at, outcome, time, silent>>
    BY <1>7 DEF Stop, callVars, simVars
  <2>2. bus' \in BusPhase /\ exchanging' = exchanging /\ running_' = FALSE
    BY <1>7 DEF Stop, StopBus, BusPhase
  <2>3. /\ master' \in {master, "down"} /\ latched' \in BOOLEAN /\ dwelled' \in BOOLEAN
        /\ safe_output' \in BOOLEAN /\ event' = event
    BY <1>7 DEF Stop, Shutdown, masterVars
  <2> QED
    BY <2>1, <2>2, <2>3
<1>8. CASE Cycle
  BY <1>8 DEF Cycle, BeginExchange, flagVars, simVars, masterVars
<1>9. CASE ExchangeRefused
  BY <1>9 DEF ExchangeRefused, ExchangeReturns, EndExchange, flagVars, simVars, masterVars
<1>10. CASE PlainExchange
  <2>1. /\ bus' = bus /\ exchanging' = FALSE /\ params' = params
        /\ configured_' = configured_ /\ running_' = running_ /\ at' = at
        /\ UNCHANGED masterVars
    BY <1>10 DEF PlainExchange, MockExchange, SkeletonExchange, ReferenceSimExchange,
                 ExchangeReturns, EndExchange, flagVars
  <2>2. outcome' \in {"ok", "watchdog"}
    BY <1>10 DEF PlainExchange, MockExchange, SkeletonExchange, ReferenceSimExchange,
                 ExchangeReturns
  <2>3. \A t \in Nat : Later(t) \in Nat
    BY DEF Later
  <2>4. time' \in Nat /\ silent' \in Nat
    BY <1>10, <2>3
    DEF PlainExchange, MockExchange, SkeletonExchange, ReferenceSimExchange
  <2>5. /\ master' = master /\ latched' = latched /\ dwelled' = dwelled
        /\ safe_output' = safe_output /\ event' = event
    BY <2>1 DEF masterVars
  <2>6. bus' \in BusPhase /\ exchanging' \in BOOLEAN /\ params' = params
    BY <2>1
  <2> QED
    BY <2>1, <2>2, <2>4, <2>5, <2>6
<1>11. CASE EcCheck
  BY <1>11 DEF EcCheck, EcHead, busVars, flagVars, simVars
<1>12. CASE EcRelease
  BY <1>12 DEF EcRelease, busVars, flagVars, simVars
<1>13. CASE EcCycle
  BY <1>13 DEF EcCycle, ExchangeReturns, EndExchange, flagVars, simVars
<1>14. CASE SafetyEvent
  BY <1>14 DEF SafetyEvent, busVars, flagVars, callVars, simVars
<1>15. CASE DwellPasses
  BY <1>15 DEF DwellPasses, busVars, flagVars, callVars, simVars
<1>16. CASE UNCHANGED vars
  BY <1>16 DEF vars, busVars, flagVars, callVars, simVars, masterVars
<1> QED
  BY <1>1, <1>2, <1>3, <1>4, <1>5, <1>6, <1>7, <1>8, <1>9, <1>10, <1>11, <1>12,
     <1>13, <1>14, <1>15, <1>16 DEF Next

LEMMA ParamsStay ==
  ASSUME [Next]_vars
  PROVE  params' = params
BY DEF Next, vars, Create, Destroy, PlainConfigure, EcConfigure, PlainStart, EcStart,
       Stop, Cycle, ExchangeRefused, PlainExchange, MockExchange, SkeletonExchange,
       ReferenceSimExchange, ExchangeReturns, EcCheck, EcRelease, EcCycle, SafetyEvent,
       DwellPasses

-------------------------------------------------------------------------------
(* Who may set drives in motion.                                           *)

LEMMA OwnedStep ==
  ASSUME TypeOK, Owned, Guarded, [Next]_vars
  PROVE  Owned' /\ Guarded'
<1>a. params' = params
  BY ParamsStay
<1>b. /\ EtherCat' = EtherCat
      /\ build_axis_configs' = build_axis_configs
  BY <1>a DEF EtherCat, build_axis_configs, Joint, Model
<1> USE <1>a, <1>b DEF TypeOK, Owned, Guarded
<1>1. CASE Create
  BY <1>1 DEF Create, CreateBus, BusPhase, flagVars, callVars, masterVars
<1>2. CASE Destroy
  BY <1>2 DEF Destroy, DestroyBus, BusPhase
<1>3. CASE PlainConfigure
  BY <1>3 DEF PlainConfigure, ConfigureBus, CallFails, busVars, BusPhase, callVars, masterVars
<1>4. CASE EcConfigure
  BY <1>4 DEF EcConfigure, ConfigureBus, CallFails, busVars, BusPhase, callVars
<1>5. CASE PlainStart
  <2>1. ~EtherCat
    BY <1>5 DEF PlainStart, EtherCat
  <2> QED
    BY <1>5, <2>1 DEF PlainStart, StartBus, BusPhase, masterVars
<1>6. CASE EcStart
  BY <1>6 DEF EcStart, StartBus, CallFails, MasterStart, busVars, BusPhase,
              callVars, masterVars
<1>7. CASE Stop
  BY <1>7 DEF Stop, StopBus, Shutdown, BusPhase, callVars, masterVars
<1>8. CASE Cycle
  BY <1>8 DEF Cycle, BeginExchange, flagVars, masterVars
<1>9. CASE ExchangeRefused
  BY <1>9 DEF ExchangeRefused, ExchangeReturns, EndExchange, flagVars, masterVars
<1>10. CASE PlainExchange
  BY <1>10 DEF PlainExchange, MockExchange, SkeletonExchange, ReferenceSimExchange,
               ExchangeReturns, EndExchange, flagVars, masterVars
<1>11. CASE EcCheck
  BY <1>11 DEF EcCheck, EcHead, busVars, flagVars
<1>12. CASE EcRelease
  BY <1>12 DEF EcRelease, busVars, flagVars
<1>13. CASE EcCycle
  <2>1. /\ exchanging /\ at = "cycle" /\ ~exchanging'
        /\ UNCHANGED <<bus, configured_, running_, at, master, latched, event>>
    BY <1>13 DEF EcCycle, ExchangeReturns, EndExchange, flagVars
  <2>2. ~latched \/ driven' = driven
    BY <1>13 DEF EcCycle
  <2>3. EtherCat /\ bus = "started" /\ running_ /\ configured_ /\ master # "none"
    BY <2>1
  <2>4. event => latched
    BY <2>3
  <2>5. Owned'
    BY <2>1, <2>3
  <2>6. Guarded'
    BY <2>1, <2>2, <2>3, <2>4
  <2> QED
    BY <2>5, <2>6
<1>14. CASE SafetyEvent
  BY <1>14 DEF SafetyEvent, busVars, flagVars, callVars
<1>15. CASE DwellPasses
  BY <1>15 DEF DwellPasses, busVars, flagVars, callVars
<1>16. CASE UNCHANGED vars
  BY <1>16 DEF vars, busVars, flagVars, callVars, masterVars
<1> QED
  BY <1>1, <1>2, <1>3, <1>4, <1>5, <1>6, <1>7, <1>8, <1>9, <1>10, <1>11, <1>12,
     <1>13, <1>14, <1>15, <1>16 DEF Next

-------------------------------------------------------------------------------
(* What is on its way to a joint.                                          *)

\* A command that has passed the SafetyLimiter.
LEMMA CommandsLimited ==
  ASSUME TypeOK, NEW cmd \in Commands
  PROVE  Limited(cmd) \in LimitedSetpoints \cup {Empty}
<1>1. CASE cmd = Empty
  BY <1>1 DEF Limited
<1>2. CASE cmd # Empty
  <2>1. cmd \in [Joint -> [position : Double, velocity : Double]]
    BY <1>2, SetpointAssumption DEF Commands
  <2>2. params.max_velocity \in Double
    BY ParamsAssumption DEF TypeOK
  <2>. DEFINE bounded(v) == IF v = NaN THEN NaN ELSE Clamp(v, params.max_velocity)
  <2>3. ASSUME NEW v \in Double
        PROVE  bounded(v) \in Double /\ InLimit(bounded(v))
    <3>1. CASE v = NaN
      BY <3>1 DEF InLimit, Double
    <3>2. CASE v \in Int
      <4>1. v # NaN
        BY <3>2, NaNAssumption
      <4> HIDE DEF Clamp
      <4> QED
        BY <3>2, <4>1, <2>2, ClampLimits DEF InLimit
    <3> QED
      BY <3>1, <3>2 DEF Double
  <2>. DEFINE x == [j \in Joint |-> [cmd[j] EXCEPT !.velocity = bounded(@)]]
  <2>4. Limited(cmd) = x
    BY <1>2 DEF Limited
  <2>5. ASSUME NEW j \in Joint
        PROVE  x[j] \in [position : Double, velocity : Double] /\ InLimit(x[j].velocity)
    <3>1. cmd[j] \in [position : Double, velocity : Double]
      BY <2>1
    <3>. HIDE DEF bounded
    <3>2. x[j] = [cmd[j] EXCEPT !.velocity = bounded(cmd[j].velocity)]
      OBVIOUS
    <3>3. /\ x[j] = [position |-> cmd[j].position, velocity |-> bounded(cmd[j].velocity)]
          /\ cmd[j].position \in Double /\ cmd[j].velocity \in Double
      BY <3>1, <3>2
    <3> QED
      BY <3>3, <2>3
  <2> QED
    <3>. HIDE DEF x
    <3>1. x \in [Joint -> [position : Double, velocity : Double]]
      <4>1. x = [j \in Joint |-> x[j]]
        BY DEF x
      <4> QED
        BY <4>1, <2>5
    <3> QED
      BY <3>1, <2>4, <2>5 DEF LimitedSetpoints
<1> QED
  BY <1>1, <1>2

\* The controller of the mock, and the other plugins' echo of the last command.
LEMMA MeasuredLimited ==
  ASSUME TypeOK, Moved, Accepts, PlainExchange
  PROVE  /\ plant' \in [Joint -> [position : Int, velocity : Int]]
         /\ \A j \in Joint : InLimit(plant'[j].velocity)
<1>1. /\ command \in [Joint -> [position : Double, velocity : Double]]
      /\ \A j \in Joint : InLimit(command[j].velocity)
  BY DEF Accepts, Moved, LimitedSetpoints
<1>2. params.max_velocity \in Double
  BY ParamsAssumption DEF TypeOK
<1>3. ASSUME NEW j \in Joint
      PROVE  /\ plant[j] \in [position : Int, velocity : Int]
             /\ plant[j].position \in Int /\ plant[j].velocity \in Int
             /\ InLimit(plant[j].velocity)
             /\ command[j].position \in Double /\ command[j].velocity \in Double
  BY <1>1 DEF Moved
<1>4. CASE MockExchange
  <2>1. ASSUME NEW j \in Joint
        PROVE  MockVelocity(j) \in Int /\ InLimit(MockVelocity(j))
    <3>1. /\ Held(command[j].position, plant[j].position) \in Int
          /\ OrZero(command[j].velocity) \in Int
      BY <1>3 DEF Held, OrZero, Double
    <3>. DEFINE error == Held(command[j].position, plant[j].position) - plant[j].position
                damping == Kd * plant[j].velocity
                velocity == Kp * error + OrZero(command[j].velocity) - damping
    <3>2. error \in Int /\ Kp \in Int /\ Kd \in Int
      BY <3>1, <1>3, GainsAssumption
    <3>3. Kp * error \in Int /\ damping \in Int
      <4>. HIDE DEF error
      <4> QED
        BY <3>2, <1>3
    <3>4. velocity \in Int
      <4>. DEFINE push == Kp * error
      <4>. HIDE DEF push, damping
      <4> QED
        BY <3>1, <3>3 DEF push
    <3>5. MockVelocity(j) = StdClamp(velocity, Negated(params.max_velocity),
                                     params.max_velocity)
      BY DEF MockVelocity
    <3> QED
      <4>. HIDE DEF velocity
      <4> QED
        BY <3>4, <3>5, <1>2, StdClampLimits DEF InLimit
  <2>2. plant' = [j \in Joint |-> [position |-> plant[j].position + MockVelocity(j),
                                   velocity |-> MockVelocity(j)]]
    BY <1>4 DEF MockExchange
  <2>3. ASSUME NEW j \in Joint
        PROVE  plant[j].position + MockVelocity(j) \in Int
    BY <2>1, <1>3
  <2> QED
    BY <2>1, <2>2, <2>3
<1>5. CASE SkeletonExchange \/ ReferenceSimExchange
  <2>1. plant' = [j \in Joint |->
                    [position |-> Held(command[j].position, plant[j].position),
                     velocity |-> Held(command[j].velocity, plant[j].velocity)]]
    BY <1>5 DEF SkeletonExchange, ReferenceSimExchange, Echo
  <2>2. ASSUME NEW j \in Joint
        PROVE  /\ Held(command[j].position, plant[j].position) \in Int
               /\ Held(command[j].velocity, plant[j].velocity) \in Int
               /\ InLimit(Held(command[j].velocity, plant[j].velocity))
    BY <1>1, <1>3 DEF Held, Double
  <2> QED
    BY <2>1, <2>2
<1> QED
  BY <1>4, <1>5 DEF PlainExchange

LEMMA MovedStep ==
  ASSUME TypeOK, Moved, [Next]_vars
  PROVE  Moved'
<1>1. params' = params
  BY ParamsStay
<1>2. ASSUME plant' \in [Joint -> [position : Int, velocity : Int]],
             \A j \in Joint : InLimit(plant'[j].velocity),
             command' \in LimitedSetpoints \cup {Empty},
             driven' \in LimitedSetpoints \cup {Empty}
      PROVE  Moved'
  BY <1>1, <1>2 DEF Moved, LimitedSetpoints, InLimit, Joint
<1>3. CASE Destroy
  <2>1. params.max_velocity \in Double
    BY ParamsAssumption DEF TypeOK
  <2>2. InLimit(0)
    BY <2>1, NaNAssumption DEF InLimit, Leq, Magnitude, Double
  <2>3. plant' = AtRest /\ command' = Empty /\ driven' = Empty
    BY <1>3 DEF Destroy
  <2> QED
    BY <1>2, <2>2, <2>3 DEF AtRest
<1>4. CASE Cycle
  <2>1. \E cmd \in Commands : command' = Limited(cmd)
    BY <1>4 DEF Cycle
  <2>2. plant' = plant /\ driven' = driven
    BY <1>4 DEF Cycle, simVars, masterVars
  <2> QED
    BY <1>2, <2>1, <2>2, CommandsLimited DEF Moved
<1>5. CASE PlainExchange
  <2>1. command' = command /\ driven' = driven
    BY <1>5 DEF PlainExchange, MockExchange, SkeletonExchange, ReferenceSimExchange,
                ExchangeReturns, masterVars
  <2>2. Accepts
    BY <1>5 DEF PlainExchange, MockExchange, SkeletonExchange, ReferenceSimExchange
  <2> QED
    BY <1>2, <1>5, <2>1, <2>2, MeasuredLimited DEF Moved
<1>6. ASSUME plant' = plant, command' = command, driven' \in {driven, Empty, command}
      PROVE  Moved'
  BY <1>2, <1>6 DEF Moved
<1>7. CASE Create \/ PlainConfigure \/ EcConfigure \/ PlainStart
  BY <1>6, <1>7 DEF Create, PlainConfigure, EcConfigure, PlainStart, callVars, simVars,
                    masterVars
<1>8. CASE EcStart \/ Stop
  BY <1>6, <1>8 DEF EcStart, MasterStart, Stop, Shutdown, callVars, simVars, masterVars
<1>9. CASE ExchangeRefused \/ EcCheck \/ EcRelease
  BY <1>6, <1>9 DEF ExchangeRefused, ExchangeReturns, EcCheck, EcRelease, simVars, masterVars
<1>10. CASE EcCycle
  BY <1>6, <1>10 DEF EcCycle, ExchangeReturns, simVars
<1>11. CASE SafetyEvent \/ DwellPasses
  BY <1>6, <1>11 DEF SafetyEvent, DwellPasses, callVars, simVars
<1>12. CASE UNCHANGED vars
  BY <1>6, <1>12 DEF vars, callVars, simVars, masterVars
<1> QED
  BY <1>3, <1>4, <1>5, <1>7, <1>8, <1>9, <1>10, <1>11, <1>12 DEF Next

-------------------------------------------------------------------------------
(* The clock of the watchdog.                                              *)

LEMMA WatchdogStep ==
  ASSUME TypeOK, Owned, WatchdogExact, [Next]_vars
  PROVE  WatchdogExact'
<1>1. params' = params
  BY ParamsStay
<1> SUFFICES ASSUME params.plugin = "ReferenceSimHardwareBus", params.timeout > 0
             PROVE  /\ bus' = "started" => time' = silent'
                    /\ outcome' = "watchdog" => silent' > params.timeout
                    /\ outcome' = "ok" => silent' <= params.timeout
  BY <1>1 DEF WatchdogExact
<1>2. /\ ~EtherCat /\ at = "head"
      /\ params.timeout \in Nat
  BY ParamsAssumption DEF EtherCat, Owned, TypeOK
<1>3. /\ bus = "started" => time = silent
      /\ outcome = "watchdog" => silent > params.timeout
      /\ outcome = "ok" => silent <= params.timeout
  BY DEF WatchdogExact
<1>4. CASE Destroy
  BY <1>4 DEF Destroy, DestroyBus
<1>5. CASE PlainStart
  BY <1>2, <1>5 DEF PlainStart, ReferenceSimStart
<1>6. CASE PlainExchange
  <2>1. ReferenceSimExchange
    BY <1>6 DEF PlainExchange, MockExchange, SkeletonExchange
  <2>2. time = silent
    BY <2>1, <1>3 DEF ReferenceSimExchange, ExchangeReturns, EndExchange, Owned
  <2>3. /\ time' = IF Fresh THEN 0 ELSE Later(time)
        /\ silent' = IF Fresh THEN 0 ELSE Later(silent)
        /\ outcome' = IF ~Fresh /\ params.timeout > 0 /\ time' > params.timeout
                        THEN "watchdog" ELSE "ok"
    BY <2>1 DEF ReferenceSimExchange, ExchangeReturns
  <2>4. time' = silent' /\ silent' \in Nat
    BY <2>2, <2>3, <1>2 DEF Later, TypeOK
  <2>5. CASE Fresh
    BY <2>3, <2>4, <2>5, <1>2
  <2>6. CASE ~Fresh
    BY <2>3, <2>4, <2>6, <1>2
  <2> QED
    BY <2>5, <2>6
<1>7. CASE UNCHANGED <<outcome, time, silent>> /\ (bus' = "started" => bus = "started")
  BY <1>3, <1>7
<1>8. CASE Create \/ Stop
  BY <1>7, <1>8 DEF Create, CreateBus, Stop, StopBus, callVars, simVars
<1>9. CASE PlainConfigure
  BY <1>3, <1>9 DEF PlainConfigure, ConfigureBus, CallFails, busVars, callVars
<1>10. CASE EcConfigure \/ EcStart
  BY <1>2, <1>10 DEF EcConfigure, EcStart
<1>11. CASE Cycle
  BY <1>7, <1>11 DEF Cycle, BeginExchange, simVars
<1>12. CASE ExchangeRefused
  BY <1>3, <1>12 DEF ExchangeRefused, ExchangeReturns, EndExchange, simVars
<1>13. CASE EcCheck \/ EcRelease \/ EcCycle
  BY <1>2, <1>13 DEF EcCheck, EcRelease, EcCycle
<1>14. CASE SafetyEvent \/ DwellPasses
  BY <1>7, <1>14 DEF SafetyEvent, DwellPasses, busVars, callVars, simVars
<1>15. CASE UNCHANGED vars
  BY <1>7, <1>15 DEF vars, busVars, callVars, simVars
<1> QED
  BY <1>4, <1>5, <1>6, <1>8, <1>9, <1>10, <1>11, <1>12, <1>13, <1>14, <1>15 DEF Next

-------------------------------------------------------------------------------
(* The theorems.                                                           *)

LEMMA Invariance == Spec => []Inv
<1>1. Inv /\ [Next]_vars => Inv'
  BY TypeStep, OwnedStep, MovedStep, WatchdogStep DEF Inv
<1> QED
  BY <1>1, InitInv, PTL DEF Spec

\* What is on its way to a joint of any plugin is in the limits, the simulated bus
\* refuses exactly the cycles beyond its time-out, and drives follow setpoints
\* only of a started adapter: for any limits and time-outs, commands and gains.
THEOREM PluginsSound == Spec => []BusInv
<1>1. ASSUME Inv PROVE BusInv
  <2>1. LimitHolds
    <3> SUFFICES ASSUME Leq(0, params.max_velocity), NEW v \in Velocities
                 PROVE  v = NaN \/ Leq(Magnitude(v), params.max_velocity)
      BY DEF LimitHolds
    <3>1. CASE \E j \in Joint : v = plant[j].velocity
      BY <1>1, <3>1 DEF Inv, Moved, InLimit
    <3>2. CASE driven # Empty /\ \E j \in Joint : v = driven[j].velocity
      BY <1>1, <3>2 DEF Inv, Moved, LimitedSetpoints, InLimit
    <3> QED
      BY <3>1, <3>2 DEF Velocities
  <2>2. DrivesAtRest
    BY <1>1 DEF Inv, Owned, DrivesAtRest, build_axis_configs
  <2> QED
    BY <1>1, <2>1, <2>2 DEF Inv, BusInv
<1> QED
  BY <1>1, Invariance, PTL

\* After a safety event an EtherCAT adapter gives the drives nothing to follow
\* before start() has accepted the event, however often the loop exchanges.
THEOREM NeverReenabled == Spec => []NoAutoReenable
<1>1. ASSUME Inv PROVE NoAutoReenable
  BY <1>1 DEF Inv, Guarded, NoAutoReenable
<1> QED
  BY <1>1, Invariance, PTL

\* The plugins are called in the order that HardwareBus asks for, which is the
\* order RtSystem is shown to keep to.
THEOREM CalledInOrder == Spec => BusSpec
<1>1. Init => BusInit
  BY DEF Init
<1>2. [Next]_vars => [BusNext]_busVars
  BY DEF Next, BusNext, vars, Create, Destroy, PlainConfigure, EcConfigure, CallFails,
         PlainStart, EcStart, Stop, Cycle, ExchangeRefused, PlainExchange, MockExchange,
         SkeletonExchange, ReferenceSimExchange, ExchangeReturns, EcCheck, EcRelease,
         EcCycle, SafetyEvent, DwellPasses
<1> QED
  BY <1>1, <1>2, PTL DEF Spec, BusSpec

===============================================================================
