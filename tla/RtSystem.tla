------------------------------- MODULE RtSystem -------------------------------
(***************************************************************************)
(* RtMobileManipulatorSystem, the ros2_control component, with the         *)
(* RtControlLoop and the HardwareBus plugin it owns: their life cycle, the *)
(* RT thread's loop, and the two buffers between it and controller_manager.*)
(*                                                                         *)
(* Two threads.  That of controller_manager makes one call at a time: a    *)
(* life-cycle transition, read() or write().  The RT thread exists from    *)
(* start() to the join in stop().  Commands and states are represented by  *)
(* the number of the activation in which the controllers wrote them or the *)
(* bus measured them; 0 is what resize() gives (no setpoint, all zeros).   *)
(* How snapshots tear is in AtomicStateBuffer, the schedule in RtSchedule, *)
(* the counters and the last error in HealthMonitor.                       *)
(*                                                                         *)
(* unfilled_buffer, flag_kept, unjoined, SwappedAnyway, LockedRead,        *)
(* StateRenewed and Echo are faulty variants of the definitions that       *)
(* follow them; no action uses them.                                       *)
(***************************************************************************)
EXTENDS Naturals

CONSTANTS
  MaxActivations,  \* bound on the number of activations
  Empty            \* a CommandSnapshot() without joints

ASSUME MaxActivationsAssumption == MaxActivations \in Nat
ASSUME EmptyAssumption          == Empty \notin Nat

VARIABLES
  lifecycle,       \* the state ros2_control keeps for the component
  cm,              \* what controller_manager's thread is doing
  rt_loop,         \* does rt_loop_ hold a loop?
  bus,             \* the bus object: the last call that has succeeded
  running, stop_requested,
  rt,              \* where the RT thread is
  epoch,           \* the number of the present, or last, activation
  command_,        \* the command interfaces
  buffer,          \* command_buffer_: a slot for each side, and a flag
  command,         \* run()'s local command
  state,           \* run()'s local state
  state_buffer,
  state_,          \* the state interfaces
  picked_up,       \* history: has this loop ever read command_buffer_ unhindered?
  measured         \* history: was a measurement of this activation published?

sysVars   == <<lifecycle, cm, rt_loop, bus>>
loopVars  == <<running, stop_requested, rt, epoch>>
cmdVars   == <<command_, buffer, command, picked_up>>
stateVars == <<state, state_buffer, state_, measured>>
vars      == <<sysVars, loopVars, cmdVars, stateVars>>

Lifecycle == {"unconfigured", "inactive", "active", "finalized", "destroyed"}
Stopping  == {"deactivating", "releasing"}
CmPC      == {"idle", "configuring", "writing", "released"} \cup Stopping
RtPC      == {"none", "head", "exchange", "publish", "left"}
Cycling   == {"head", "exchange", "publish"}

Activation == 0 .. MaxActivations
Command    == Activation \cup {Empty}

\* realtime_tools::RealtimeBuffer: the constructor fills both slots with T().
NewBuffer == [non_rt |-> Empty, rt |-> Empty, new_data |-> FALSE]

Init ==
  /\ lifecycle = "unconfigured" /\ cm = "idle"
  /\ rt_loop = FALSE /\ bus = "none"
  /\ running = FALSE /\ stop_requested = FALSE /\ rt = "none" /\ epoch = 0
  /\ command_ = 0 /\ buffer = NewBuffer /\ command = 0 /\ picked_up = FALSE
  /\ state = 0 /\ state_buffer = 0 /\ state_ = 0 /\ measured = FALSE

-------------------------------------------------------------------------------
(* The life cycle.  A transition that returns ERROR ends in "finalized",   *)
(* where only the destructor is left.                                      *)

PluginMissing ==
  /\ cm = "idle" /\ lifecycle = "unconfigured"
  /\ lifecycle' = "finalized"
  /\ UNCHANGED <<cm, rt_loop, bus, loopVars, cmdVars, stateVars>>

\* RtControlLoop(...): the initial command and state go through the buffers.
unfilled_buffer == NewBuffer
filled_buffer   == [non_rt |-> 0, rt |-> Empty, new_data |-> TRUE]

\* on_configure up to the new loop ...
on_configure ==
  /\ cm = "idle" /\ lifecycle = "unconfigured"
  /\ cm' = "configuring"
  /\ bus' = "new" /\ rt_loop' = TRUE
  /\ buffer' = filled_buffer /\ picked_up' = FALSE
  /\ state_buffer' = 0 /\ measured' = FALSE
  /\ running' = FALSE /\ stop_requested' = FALSE
  /\ UNCHANGED <<lifecycle, rt, epoch, command_, command, state, state_>>

\* ... and rt_loop_->configure(), which a bad frequency or the bus may refuse.
ConfigureLoop ==
  /\ cm = "configuring"
  /\ cm' = "idle"
  /\ \/ bus' = "configured" /\ lifecycle' = "inactive"
     \/ UNCHANGED bus /\ lifecycle' = "finalized"
  /\ UNCHANGED <<rt_loop, loopVars, cmdVars, stateVars>>

flag_kept  == UNCHANGED stop_requested
clear_flag == stop_requested' = FALSE
raise_flag == stop_requested' = TRUE

\* on_activate: RtControlLoop::start(); run() begins with fresh locals.
on_activate ==
  /\ cm = "idle" /\ lifecycle = "inactive" /\ epoch < MaxActivations
  /\ bus' = "started" /\ lifecycle' = "active"
  /\ clear_flag
  /\ running' = TRUE /\ rt' = "head"
  /\ epoch' = epoch + 1
  /\ command' = 0 /\ state' = 0 /\ measured' = FALSE
  /\ UNCHANGED <<cm, rt_loop, command_, buffer, picked_up, state_buffer, state_>>

\* The bus refuses to start.
ActivateFails ==
  /\ cm = "idle" /\ lifecycle = "inactive"
  /\ lifecycle' = "finalized"
  /\ UNCHANGED <<cm, rt_loop, bus, loopVars, cmdVars, stateVars>>

\* RtControlLoop::stop() up to the join.
RequestStop(here) ==
  /\ raise_flag
  /\ cm' = here
  /\ UNCHANGED <<lifecycle, rt_loop, bus, running, rt, epoch, cmdVars, stateVars>>

on_deactivate == cm = "idle" /\ lifecycle = "active" /\ RequestStop("deactivating")
on_cleanup    == cm = "idle" /\ lifecycle = "inactive" /\ RequestStop("releasing")

\* on_shutdown is not overridden: a component may be finalized with its loop
\* running, and its destructor, through ~RtControlLoop, stops the loop.
on_shutdown ==
  /\ cm = "idle" /\ lifecycle \in {"unconfigured", "inactive", "active"}
  /\ lifecycle' = "finalized"
  /\ UNCHANGED <<cm, rt_loop, bus, loopVars, cmdVars, stateVars>>

destructor ==
  /\ cm = "idle" /\ lifecycle = "finalized"
  /\ \/ rt_loop /\ RequestStop("releasing")
     \/ /\ ~rt_loop
        /\ lifecycle' = "destroyed"
        /\ UNCHANGED <<cm, rt_loop, bus, loopVars, cmdVars, stateVars>>

unjoined == TRUE
joined   == rt \in {"none", "left"}

\* The rest of stop(): join, bus_->stop(), running_.
Join ==
  /\ cm \in Stopping
  /\ joined
  /\ rt' = "none"
  /\ bus' = IF bus = "new" THEN "new" ELSE "stopped"
  /\ running' = FALSE
  /\ IF cm = "deactivating" THEN cm' = "idle" /\ lifecycle' = "inactive"
                            ELSE cm' = "released" /\ UNCHANGED lifecycle
  /\ UNCHANGED <<rt_loop, stop_requested, epoch, cmdVars, stateVars>>

\* The loop, whose destructor stops once more, the bus and the plugin's library
\* go, in this order.
Release ==
  /\ cm = "released"
  /\ cm' = "idle"
  /\ rt_loop' = FALSE /\ bus' = "none"
  /\ lifecycle' = IF lifecycle = "finalized" THEN "destroyed" ELSE "unconfigured"
  /\ UNCHANGED <<loopVars, cmdVars, stateVars>>

-------------------------------------------------------------------------------
(* The controllers, and read() and write() of the update loop.             *)

Serving == cm = "idle" /\ lifecycle \in {"inactive", "active"}

ControllersCommand ==
  /\ cm = "idle" /\ lifecycle = "active"
  /\ command_' = epoch
  /\ UNCHANGED <<sysVars, loopVars, buffer, command, picked_up, stateVars>>

read ==
  /\ Serving
  /\ state_' = state_buffer
  /\ UNCHANGED <<sysVars, loopVars, cmdVars, state, state_buffer, measured>>

\* write(): writeFromNonRT() holds the lock from its begin ...
write ==
  /\ Serving
  /\ cm' = "writing"
  /\ UNCHANGED <<lifecycle, rt_loop, bus, loopVars, cmdVars, stateVars>>

\* ... to its end.
WriteReturns ==
  /\ cm = "writing"
  /\ cm' = "idle"
  /\ buffer' = [buffer EXCEPT !.non_rt = command_, !.new_data = TRUE]
  /\ UNCHANGED <<lifecycle, rt_loop, bus, loopVars, command_, command, picked_up,
                 stateVars>>

-------------------------------------------------------------------------------
(* run()                                                                   *)

\* readFromRT(): try_lock, and the slots change sides if there is new data.
SwappedAnyway == [non_rt |-> buffer.rt, rt |-> buffer.non_rt, new_data |-> FALSE]
Swapped == IF buffer.new_data
             THEN [non_rt |-> buffer.rt, rt |-> buffer.non_rt, new_data |-> FALSE]
             ELSE buffer
LockedRead == cm # "writing" /\ buffer' = Swapped /\ picked_up' = TRUE
ReadFromRT ==
  IF cm = "writing"
    THEN UNCHANGED <<buffer, picked_up>>
    ELSE buffer' = Swapped /\ picked_up' = TRUE

StateRenewed == state' = 0
StateKept    == UNCHANGED state

\* The head of the loop, the command (its limits do not matter here), and the
\* call of exchange().
BeginCycle ==
  /\ rt = "head" /\ ~stop_requested
  /\ rt' = "exchange"
  /\ ReadFromRT
  /\ command' = buffer'.rt
  /\ StateKept
  /\ UNCHANGED <<sysVars, running, stop_requested, epoch, command_, state_buffer,
                 state_, measured>>

\* exchange() fills the state, or fails and leaves it alone; every bus refuses
\* a command of the wrong size.
ExchangeReturns ==
  /\ rt = "exchange"
  /\ rt' = "publish"
  /\ \/ command # Empty /\ state' = epoch
     \/ UNCHANGED state
  /\ UNCHANGED <<sysVars, running, stop_requested, epoch, cmdVars, state_buffer,
                 state_, measured>>

Echo     == command
Measured == state

\* write_from_rt(), whatever exchange() has answered.
PublishState ==
  /\ rt = "publish"
  /\ rt' = "head"
  /\ state_buffer' = Measured
  /\ measured' = (measured \/ state = epoch)
  /\ UNCHANGED <<sysVars, running, stop_requested, epoch, cmdVars, state, state_>>

Leave ==
  /\ rt = "head" /\ stop_requested
  /\ rt' = "left"
  /\ UNCHANGED <<sysVars, running, stop_requested, epoch, cmdVars, stateVars>>

-------------------------------------------------------------------------------
ControllerManager ==
  \/ PluginMissing \/ on_configure \/ ConfigureLoop
  \/ on_activate \/ ActivateFails \/ on_deactivate \/ on_cleanup
  \/ on_shutdown \/ destructor \/ Join \/ Release
  \/ ControllersCommand \/ read \/ write \/ WriteReturns

RtThread == BeginCycle \/ ExchangeReturns \/ PublishState \/ Leave

Destroyed == lifecycle = "destroyed" /\ UNCHANGED vars

Next == ControllerManager \/ RtThread \/ Destroyed

\* The RT thread is scheduled and exchange() does not block (its contract says
\* so); a call of controller_manager that can go on does.
Fairness == /\ WF_vars(RtThread)
            /\ WF_vars(Join) /\ WF_vars(Release) /\ WF_vars(WriteReturns)

Spec == Init /\ [][Next]_vars /\ Fairness

-------------------------------------------------------------------------------
(* Properties.                                                             *)

TypeOK ==
  /\ lifecycle \in Lifecycle /\ cm \in CmPC /\ rt_loop \in BOOLEAN
  /\ bus \in {"none", "new", "configured", "started", "stopped"}
  /\ running \in BOOLEAN /\ stop_requested \in BOOLEAN /\ rt \in RtPC
  /\ epoch \in Activation
  /\ command_ \in Activation /\ command \in Command
  /\ buffer \in [non_rt : Command, rt : Command, new_data : BOOLEAN]
  /\ state \in Activation /\ state_buffer \in Activation /\ state_ \in Activation
  /\ picked_up \in BOOLEAN /\ measured \in BOOLEAN

\* Neither command_ nor command_buffer_ is reset between activations, so a loop
\* begins with setpoints of an earlier one.  From the first setpoint of its own
\* activation on, though, a loop never goes back to an older one, nor to a command
\* without joints, however write(), its lock and the swap of the slots interleave.
CommandKept ==
  [][command = epoch /\ rt \in Cycling => command' = epoch]_vars

\* What the statistics call "running" is true of the bus and of the RT thread:
\* whenever controller_manager may look, the loop is cycling on a started bus, or
\* there is neither a thread nor a started bus.
RunningHonest ==
  cm \in {"idle", "writing"} =>
    /\ running => rt \in Cycling /\ bus = "started"
    /\ ~running => rt = "none" /\ bus # "started"
    /\ lifecycle = "active" => running

\* Once a measurement of the present activation has been published, failed
\* exchanges never replace it by the zeros a loop begins with or by a state of
\* an earlier activation, until the component is deactivated.
MeasurementKept ==
  measured => state_buffer = epoch

\* The bus is handed a command without joints only in the first cycles of a loop
\* every one of which met a write() in progress: from the first undisturbed look
\* into command_buffer_ on, the size of a command is right.
EmptyOnlyByCollision ==
  rt = "exchange" /\ command = Empty => ~picked_up

\* What the RT thread hands on is sound in both directions: measurements, once there
\* are any, to the state interfaces, and commands of the right size to the bus.
HandsOnSound == MeasurementKept /\ EmptyOnlyByCollision

\* The RT thread never waits for controller_manager: wherever it is in its loop it
\* can take its next step, whoever holds the lock of a buffer and whatever transition
\* is under way.  And stop() waits for nothing but the RT thread to leave.
NeverStuck ==
  /\ rt \in Cycling => ENABLED <<RtThread>>_vars
  /\ cm \in Stopping /\ rt \notin Cycling => ENABLED <<Join>>_vars
  /\ cm = "released" => ENABLED <<Release>>_vars

\* on_deactivate, on_cleanup and the destructor return: the RT thread leaves its
\* loop within a cycle.
StopReturns == cm \in Stopping ~> cm = "idle"

Bus == INSTANCE HardwareBus WITH exchanging <- (rt = "exchange")

\* The component keeps to the order of calls of HardwareBus, across failures,
\* shutdown and destruction, and no call overlaps an exchange() of the RT thread.
ImplementsBus == Bus!BusSpec

-------------------------------------------------------------------------------
\* The comment of HardwareBus gives one order, configure() before start(), and
\* stop() "releases transport resources": a bus that was stopped is configured
\* again before it is started.
StartsOnlyConfigured ==
  [][bus # "started" /\ bus' = "started" => bus = "configured"]_vars

===============================================================================
