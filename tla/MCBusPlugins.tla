----------------------------- MODULE MCBusPlugins -----------------------------
(***************************************************************************)
(* Every plugin with two joints, and with none; limits of every sign and   *)
(* NaN; a watchdog of one or two cycles, and none; motor models from each  *)
(* place, of a drive, of a sensor, and missing.                            *)
(***************************************************************************)
EXTENDS BusPlugins

Plain == [env |-> "drive", yaml |-> "", list |-> <<>>]

Base == [plugin |-> "MockHardwareBus", joints |-> 2, max_velocity |-> 2, timeout |-> 1,
         inject_fault |-> FALSE, models |-> Plain]

With(plugins, limits, timeouts, models) ==
  {[Base EXCEPT !.plugin = p, !.max_velocity = l, !.timeout = t, !.models = m] :
     p \in plugins, l \in limits, t \in timeouts, m \in models}

EcPlugins == {"EcMasterHardwareBus", "IghHardwareBus"}

MCParams ==
  With({"MockHardwareBus"}, {2, 0, -1, NaN}, {1}, {Plain})
  \cup With({"SkeletonHardwareBus"}, {1, -1}, {1}, {Plain})
  \cup With({"ReferenceSimHardwareBus"}, {1}, {0, 1, 2}, {Plain})
  \cup With(EcPlugins, {1, -1}, {1}, {Plain})
  \cup With({"IghHardwareBus"}, {1}, {1},
            [env : {"", "drive"}, yaml : {"", "sensor"}, list : {<<>>, <<"", "drive">>}])
  \cup {[Base EXCEPT !.plugin = "ReferenceSimHardwareBus", !.inject_fault = TRUE]}
  \cup {[Base EXCEPT !.plugin = p, !.joints = 0] : p \in {"MockHardwareBus", "IghHardwareBus"}}

MCSetpoint == [position : {NaN, 1}, velocity : {NaN, 3, -3}]
MCDrives == {"drive"}

===============================================================================
