------------------------------ MODULE BusPlugins ------------------------------
(***************************************************************************)
(* The five HardwareBus plugins under the calls RtControlLoop makes, which *)
(* come in the order of HardwareBus (RtSystem is shown to keep to it), and *)
(* the SafetyLimiter every command passes before it reaches a plugin.      *)
(*                                                                         *)
(* Three plugins are sequential objects; their calls are single steps.     *)
(* The two EtherCAT adapters, one text for two masters, drive a master of  *)
(* another repository: its safe-output latch, which any bus error sets at  *)
(* any moment, and the healthy dwell after a reset are external, and       *)
(* assumed as docs/ETHERCAT_INTEGRATION.md describes them.  release and    *)
(* cycle look at the latch themselves.                                     *)
(*                                                                         *)
(* A command is a position and a velocity for each joint, NaN for what is  *)
(* not finite, or Empty, one without joints; any command may come at any   *)
(* cycle, the last one again included.  Effort is limited as velocity is   *)
(* and left out, as are enable and operation_mode, which pass through.     *)
(* The unit of velocity is one unit of position per cycle.                 *)
(*                                                                         *)
(* ReferenceSimStartWarm and EcHeadRearms are faulty variants of the       *)
(* definitions after them; no action uses them.                            *)
(***************************************************************************)
EXTENDS Doubles, Sequences, HardwareBus

CONSTANTS
  Params,    \* sets of parameters and surroundings a plugin may meet
  Setpoint,  \* what a command may ask of a joint
  Drives,    \* the motor models that are known, and of drives
  Kp, Kd,    \* position_kp and velocity_kd
  Empty,     \* a command without joints
  Reach      \* bound on the positions of the mock

ASSUME GainsAssumption == Kp \in Nat /\ Kd \in Nat /\ Reach \in Nat

ASSUME ParamsAssumption ==
  \A p \in Params : p.max_velocity \in Double /\ p.timeout \in Nat

ASSUME SetpointAssumption == Setpoint \subseteq [position : Double, velocity : Double]

VARIABLES
  params,       \* of Params; never changes
  configured_,  \* of the EtherCAT adapters, and transport_ready_ of the skeleton
  running_,
  command,      \* the limited command of this exchange, or the last one
  at,           \* where the exchange of an EtherCAT adapter is
  outcome,      \* history: of the last exchange
  plant,        \* plant_state_ of the mock, last_state_ of others
  time,         \* time_since_command_sec_, in cycles
  master,       \* master_: none, ready, cycling, or down
  latched,      \* the master has had a safety event that nobody has accepted
  dwelled,      \* motion_reenable_allowed()
  safe_output,  \* health().safe_output_active
  driven,       \* the setpoints the drives follow, or Empty
  silent,       \* history: cycles since a position was commanded, or start()
  event         \* history: a safety event since start() returned

flagVars   == <<configured_, running_>>
callVars   == <<command, at, outcome>>
simVars    == <<plant, time, silent>>
masterVars == <<master, latched, dwelled, safe_output, driven, event>>
vars       == <<busVars, params, flagVars, callVars, simVars, masterVars>>

Joint    == 1 .. params.joints
Commands == [Joint -> Setpoint] \cup {Empty}
AtRest   == [j \in Joint |-> [position |-> 0, velocity |-> 0]]
EtherCat == params.plugin \in {"EcMasterHardwareBus", "IghHardwareBus"}

\* The master comes with configure().
Init ==
  /\ BusInit /\ params \in Params
  /\ configured_ = FALSE /\ running_ = FALSE
  /\ command = Empty /\ at = "head" /\ outcome = "none"
  /\ plant = AtRest /\ time = 0 /\ silent = 0
  /\ master = "none" /\ latched = FALSE /\ dwelled = FALSE /\ safe_output = FALSE
  /\ driven = Empty /\ event = FALSE

Create ==
  /\ CreateBus
  /\ UNCHANGED <<params, flagVars, callVars, simVars, masterVars>>

\* The destructors of the adapters stop; a new object begins anew.
Destroy ==
  /\ DestroyBus
  /\ configured_' = FALSE /\ running_' = FALSE
  /\ command' = Empty /\ at' = "head" /\ outcome' = "none"
  /\ plant' = AtRest /\ time' = 0 /\ silent' = 0
  /\ master' = "none" /\ latched' = FALSE /\ dwelled' = FALSE /\ safe_output' = FALSE
  /\ driven' = Empty /\ event' = FALSE
  /\ UNCHANGED params

\* RtControlLoop hands on the refusal of a plugin.
CallFails ==
  /\ bus \in {"new", "configured", "stopped"}
  /\ UNCHANGED busVars

-------------------------------------------------------------------------------
(* configure().                                                            *)

\* The default model of the environment, that of the file of motors, the one for
\* this axis: the last that is not empty.  The file is searched with regular
\* expressions, so a line of it that is a comment counts.
Model(axis) ==
  LET m == params.models
  IN  IF axis <= Len(m.list) /\ m.list[axis] # "" THEN m.list[axis]
      ELSE IF m.yaml # "" THEN m.yaml ELSE m.env

build_axis_configs == params.joints > 0 /\ \A axis \in Joint : Model(axis) \in Drives

PlainConfigure ==
  /\ ~EtherCat
  /\ IF params.joints > 0
       THEN /\ ConfigureBus
            /\ configured_' = (params.plugin = "SkeletonHardwareBus")
            /\ time' = 0
       ELSE CallFails /\ UNCHANGED <<configured_, time>>
  /\ UNCHANGED <<params, running_, callVars, plant, silent, masterVars>>

\* init() and map_joints() may fail, too; then there is no master.
EcConfigure ==
  /\ EtherCat /\ bus = "new"
  /\ \/ /\ build_axis_configs
        /\ ConfigureBus
        /\ master' = "ready" /\ configured_' = TRUE
     \/ CallFails /\ master' = "none" /\ UNCHANGED configured_
  /\ UNCHANGED <<params, running_, callVars, simVars,
                 latched, dwelled, safe_output, driven, event>>

-------------------------------------------------------------------------------
(* start() and stop().                                                     *)

MockStart == time' = time
SkeletonStart == configured_ /\ time' = time
ReferenceSimStartWarm == time' = time
ReferenceSimStart == time' = 0

PlainStart ==
  /\ StartBus
  /\ \/ params.plugin = "MockHardwareBus" /\ MockStart
     \/ params.plugin = "SkeletonHardwareBus" /\ SkeletonStart
     \/ params.plugin = "ReferenceSimHardwareBus" /\ ReferenceSimStart
  /\ running_' = TRUE
  /\ silent' = 0 /\ outcome' = "none"
  /\ UNCHANGED <<params, configured_, command, at, plant, masterVars>>

\* Master::start() asserts safe-output, which counts as a safety event ...
MasterStart ==
  /\ master' = "cycling"
  /\ dwelled' = FALSE /\ safe_output' = TRUE /\ driven' = Empty

\* ... that request_safety_reset() accepts.  A start that fails there leaves the
\* master cycling, latched.
EcStart ==
  /\ EtherCat
  /\ bus \in {"configured", "stopped"} /\ configured_ /\ master # "none"
  /\ \/ /\ StartBus
        /\ MasterStart
        /\ latched' = FALSE /\ event' = FALSE /\ running_' = TRUE
     \/ /\ CallFails
        /\ MasterStart
        /\ latched' = TRUE /\ UNCHANGED <<event, running_>>
     \/ CallFails /\ UNCHANGED <<masterVars, running_>>
  /\ UNCHANGED <<params, configured_, callVars, simVars>>

Shutdown ==
  IF master = "none" THEN UNCHANGED masterVars
  ELSE /\ master' = "down"
       /\ latched' = FALSE /\ dwelled' = FALSE /\ safe_output' = FALSE /\ driven' = Empty
       /\ UNCHANGED event

Stop ==
  /\ StopBus
  /\ running_' = FALSE
  /\ Shutdown
  /\ UNCHANGED <<params, configured_, callVars, simVars>>

-------------------------------------------------------------------------------
(* The RT cycle: limit(), then exchange().                                 *)

Clamp(v, limit) == StdMax(Negated(limit), StdMin(v, limit))

Limited(cmd) ==
  IF cmd = Empty THEN Empty
  ELSE [j \in Joint |-> [cmd[j] EXCEPT !.velocity =
          IF @ = NaN THEN NaN ELSE Clamp(@, params.max_velocity)]]

Cycle ==
  /\ BeginExchange
  /\ \A j \in Joint : Magnitude(plant[j].position) <= Reach
  /\ \E cmd \in Commands : command' = Limited(cmd)
  /\ at' = "head"
  /\ UNCHANGED <<params, outcome, flagVars, simVars, masterVars>>

ExchangeReturns(result) == EndExchange /\ outcome' = result /\ UNCHANGED <<command, params, flagVars>>

Accepts == running_ /\ command # Empty

\* The reasons every plugin has to refuse, and the one for tests.
ExchangeRefused ==
  /\ exchanging /\ at = "head"
  /\ ~Accepts \/ (params.plugin = "ReferenceSimHardwareBus" /\ params.inject_fault)
  /\ ExchangeReturns("refused")
  /\ UNCHANGED <<at, simVars, masterVars>>

Held(new, old) == IF new = NaN THEN old ELSE new
OrZero(v)      == IF v = NaN THEN 0 ELSE v

\* The P controller of the mock.  libstdc++'s clamp with its bounds swapped
\* returns one of them.
MockVelocity(j) ==
  StdClamp(Kp * (Held(command[j].position, plant[j].position) - plant[j].position)
             + OrZero(command[j].velocity) - Kd * plant[j].velocity,
           Negated(params.max_velocity), params.max_velocity)

MockExchange ==
  /\ params.plugin = "MockHardwareBus" /\ Accepts
  /\ plant' = [j \in Joint |-> [position |-> plant[j].position + MockVelocity(j),
                                velocity |-> MockVelocity(j)]]
  /\ ExchangeReturns("ok")
  /\ UNCHANGED <<time, silent>>

\* Both other plugins measure what was commanded last.
Echo == plant' = [j \in Joint |-> [position |-> Held(command[j].position, plant[j].position),
                                   velocity |-> Held(command[j].velocity, plant[j].velocity)]]

SkeletonExchange ==
  /\ params.plugin = "SkeletonHardwareBus" /\ Accepts
  /\ Echo
  /\ ExchangeReturns("ok")
  /\ UNCHANGED <<time, silent>>

\* Only a position is a sign of life.  Time is counted to one past the time-out.
Fresh    == \E j \in Joint : command[j].position # NaN
Later(t) == IF t > params.timeout THEN t ELSE t + 1

ReferenceSimExchange ==
  /\ params.plugin = "ReferenceSimHardwareBus" /\ Accepts /\ ~params.inject_fault
  /\ Echo
  /\ time' = IF Fresh THEN 0 ELSE Later(time)
  /\ silent' = IF Fresh THEN 0 ELSE Later(silent)
  /\ ExchangeReturns(IF ~Fresh /\ params.timeout > 0 /\ time' > params.timeout
                       THEN "watchdog" ELSE "ok")

PlainExchange ==
  /\ MockExchange \/ SkeletonExchange \/ ReferenceSimExchange
  /\ UNCHANGED <<at, masterVars>>

\* An adapter asks for the release of safe-output when the dwell is over, and
\* never for a reset.  That it asks twice, for the dwell and for the health,
\* makes no difference: an event in between has the release refused.
EcHeadRearms ==
  /\ at' = IF dwelled /\ safe_output THEN "release" ELSE "cycle"
  /\ latched' = FALSE

EcHead ==
  /\ at' = IF dwelled /\ safe_output THEN "release" ELSE "cycle"
  /\ UNCHANGED latched

EcCheck ==
  /\ EtherCat /\ exchanging /\ at = "head" /\ Accepts
  /\ EcHead
  /\ UNCHANGED <<busVars, params, flagVars, command, outcome, simVars,
                 master, dwelled, safe_output, driven, event>>

\* release_safe_output(), whose answer is not looked at.
EcRelease ==
  /\ exchanging /\ at = "release"
  /\ at' = "cycle"
  /\ safe_output' = (safe_output /\ ~dwelled)
  /\ UNCHANGED <<busVars, params, flagVars, command, outcome, simVars,
                 master, latched, dwelled, driven, event>>

\* Master::cycle(); setpoints reach the drives only without safe-output.
EcCycle ==
  /\ exchanging /\ at = "cycle"
  /\ \/ /\ ~latched
        /\ driven' = IF safe_output THEN Empty ELSE command
        /\ ExchangeReturns("ok")
     \/ ExchangeReturns("failed") /\ UNCHANGED driven
  /\ UNCHANGED <<at, simVars, master, latched, dwelled, safe_output, event>>

-------------------------------------------------------------------------------
(* The master's job, in a thread of its own.                               *)

SafetyEvent ==
  /\ master = "cycling"
  /\ latched' = TRUE /\ dwelled' = FALSE /\ safe_output' = TRUE /\ driven' = Empty
  /\ event' = TRUE
  /\ UNCHANGED <<busVars, params, flagVars, callVars, simVars, master>>

DwellPasses ==
  /\ master = "cycling" /\ ~latched /\ ~dwelled
  /\ dwelled' = TRUE
  /\ UNCHANGED <<busVars, params, flagVars, callVars, simVars,
                 master, latched, safe_output, driven, event>>

Next ==
  \/ Create \/ Destroy \/ PlainConfigure \/ EcConfigure
  \/ PlainStart \/ EcStart \/ Stop
  \/ Cycle \/ ExchangeRefused \/ PlainExchange \/ EcCheck \/ EcRelease \/ EcCycle
  \/ SafetyEvent \/ DwellPasses

Spec == Init /\ [][Next]_vars

-------------------------------------------------------------------------------
(* Properties.                                                             *)

TypeOK ==
  /\ bus \in BusPhase /\ exchanging \in BOOLEAN /\ params \in Params
  /\ configured_ \in BOOLEAN /\ running_ \in BOOLEAN
  /\ at \in {"head", "release", "cycle"}
  /\ outcome \in {"none", "ok", "watchdog", "refused", "failed"}
  /\ time \in Nat /\ silent \in Nat
  /\ master \in {"none", "ready", "cycling", "down"}
  /\ latched \in BOOLEAN /\ dwelled \in BOOLEAN /\ safe_output \in BOOLEAN
  /\ event \in BOOLEAN

\* The velocities a joint is made to take.
Velocities ==
  {plant[j].velocity : j \in Joint}
  \cup IF driven = Empty THEN {} ELSE {driven[j].velocity : j \in Joint}

\* A limit that is a number and not negative holds behind every plugin, however
\* commands, restarts and refusals follow each other.  Other limits, which
\* nothing refuses, hold nothing back: .nan makes a velocity NaN or leaves it
\* alone, and a negative one turns every velocity, 0 too, into full speed.
LimitHolds ==
  Leq(0, params.max_velocity) =>
    \A v \in Velocities : v = NaN \/ Leq(Magnitude(v), params.max_velocity)

\* The simulated bus counts the silence from the last position or the last start,
\* whichever is later: it accepts a cycle within the time-out and refuses one
\* beyond it, also after a restart that follows a time-out.
WatchdogExact ==
  params.plugin = "ReferenceSimHardwareBus" /\ params.timeout > 0 =>
    /\ bus = "started" => time = silent
    /\ outcome = "watchdog" => silent > params.timeout
    /\ outcome = "ok" => silent <= params.timeout

\* Drives follow setpoints only while the plugin runs, and every axis of theirs is
\* a known drive: not before start() has succeeded, whatever step of it fails,
\* nor after stop().
DrivesAtRest ==
  driven # Empty => running_ /\ \A axis \in Joint : Model(axis) \in Drives

BusInv == TypeOK /\ LimitHolds /\ WatchdogExact /\ DrivesAtRest

\* docs/ETHERCAT_INTEGRATION.md: "Do not expect automatic re-enable after link
\* loss".  After a safety event the drives get no setpoint before the next start()
\* has accepted it, however long the RT loop goes on exchanging and wherever the
\* event falls in the exchange.
NoAutoReenable == event => driven = Empty

===============================================================================
