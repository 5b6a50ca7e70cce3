----------------------------- MODULE HardwareBus -----------------------------
(***************************************************************************)
(* robot_hardware_api::HardwareBus, the interface of every bus plugin, as  *)
(* the order of calls its comment asks of the caller: configure(), then    *)
(* start(), then exchange() any number of times, then stop().  No call     *)
(* overlaps an exchange(), which runs on another thread than the others;   *)
(* stop() may be called several times, and at any time; a call may fail    *)
(* and then leaves the bus where it was.  A bus is never destroyed while   *)
(* it runs.                                                                *)
(***************************************************************************)

VARIABLES
  bus,        \* which call has succeeded last: "none" without a plugin object
  exchanging  \* is exchange() in progress?

busVars  == <<bus, exchanging>>
BusPhase == {"none", "new", "configured", "started", "stopped"}

BusInit == bus = "none" /\ exchanging = FALSE

CreateBus    == bus = "none" /\ bus' = "new" /\ UNCHANGED exchanging
ConfigureBus == bus = "new" /\ bus' = "configured" /\ UNCHANGED exchanging
StartBus     == /\ bus \in {"configured", "stopped"}
                /\ bus' = "started"
                /\ UNCHANGED exchanging

BeginExchange == bus = "started" /\ ~exchanging /\ exchanging' = TRUE /\ UNCHANGED bus
EndExchange   == exchanging /\ exchanging' = FALSE /\ UNCHANGED bus

\* An object that has not been configured has nothing to release.
StopBus == /\ bus # "none" /\ ~exchanging
           /\ bus' = IF bus = "new" THEN "new" ELSE "stopped"
           /\ UNCHANGED exchanging

DestroyBus == /\ bus \in BusPhase \ {"none", "started"} /\ ~exchanging
              /\ bus' = "none"
              /\ UNCHANGED exchanging

BusNext == \/ CreateBus \/ ConfigureBus \/ StartBus
           \/ BeginExchange \/ EndExchange
           \/ StopBus \/ DestroyBus

BusSpec == BusInit /\ [][BusNext]_busVars

===============================================================================
