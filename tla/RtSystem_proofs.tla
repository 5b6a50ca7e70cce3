---------------------------- MODULE RtSystem_proofs ---------------------------
(***************************************************************************)
(* Proofs about module RtSystem, for any number of activations.            *)
(*                                                                         *)
(* The four parts of the inductive invariant Inv are the types; what the   *)
(* thread, the flag, running_ and the bus say of each other (Threaded);    *)
(* where the life cycle and the calls in progress leave the bus (Placed);  *)
(* and what the two buffers hold (Buffered).  The call-order contract of   *)
(* HardwareBus has no fairness, so the refinement is proved in full.  That *)
(* stop() returns is proved from the fairness of the thread and of         *)
(* controller_manager, given that nobody is stuck (NeverStuck), which is   *)
(* TLC's to check.                                                         *)
(***************************************************************************)
EXTENDS RtSystem, TLAPS

Threaded ==
  /\ running => rt # "none" /\ bus = "started"
  /\ ~running => rt = "none" /\ bus # "started"
  /\ rt = "left" => stop_requested
  /\ rt # "none" /\ cm \in {"idle", "writing"} => ~stop_requested

Placed ==
  /\ rt_loop <=> bus # "none"
  /\ lifecycle = "active" => running
  /\ lifecycle = "unconfigured" => bus = IF cm = "configuring" THEN "new" ELSE "none"
  /\ lifecycle = "inactive" => bus \in {"configured", "stopped"} \/ cm = "released"
  /\ lifecycle = "destroyed" => bus = "none" /\ cm = "idle"
  /\ cm = "configuring" => lifecycle = "unconfigured"
  /\ cm = "writing" => lifecycle \in {"inactive", "active"}
  /\ cm = "deactivating" => lifecycle = "active"
  /\ cm = "releasing" => lifecycle \in {"inactive", "finalized"} /\ rt_loop
  /\ cm = "released" => lifecycle \in {"inactive", "finalized"} /\ bus \in {"new", "stopped"}

Buffered ==
  /\ measured => state = epoch /\ state_buffer = epoch
  /\ buffer.new_data => buffer.non_rt \in Activation
  /\ rt_loop => picked_up \/ buffer.new_data
  /\ picked_up => buffer.rt \in Activation
  /\ rt = "exchange" /\ picked_up => command # Empty

\* The values of command_buffer_.
Slots == [non_rt : Command, rt : Command, new_data : BOOLEAN]

Inv == TypeOK /\ Threaded /\ Placed /\ Buffered

\* What the constructor, write() and readFromRT() leave in command_buffer_.
LEMMA Written ==
  ASSUME buffer \in Slots, WriteReturns
  PROVE  buffer' = [non_rt |-> command_, rt |-> buffer.rt, new_data |-> TRUE]
  BY DEF Slots, WriteReturns

LEMMA PickedUp ==
  ASSUME BeginCycle
  PROVE  /\ command' = buffer'.rt
         /\ \/ cm = "writing" /\ buffer' = buffer /\ picked_up' = picked_up
            \/ /\ picked_up' = TRUE
               /\ \/ /\ buffer.new_data
                     /\ buffer' = [non_rt |-> buffer.rt, rt |-> buffer.non_rt,
                                   new_data |-> FALSE]
                  \/ ~buffer.new_data /\ buffer' = buffer
  BY DEF BeginCycle, ReadFromRT, Swapped

LEMMA InitInv == Init => Inv
<1> SUFFICES ASSUME Init PROVE Inv
  OBVIOUS
<1> USE MaxActivationsAssumption, EmptyAssumption DEF Init
<1>a. 0 \in Activation /\ 0 \in Command /\ Empty \in Command
  BY DEF Activation, Command
<1>b. buffer \in Slots /\ ~buffer.new_data
  BY <1>a DEF NewBuffer, Slots
<1>1. TypeOK
  BY <1>a, <1>b DEF TypeOK, Lifecycle, CmPC, RtPC, Slots
<1>2. Threaded /\ Placed /\ Buffered
  BY <1>b DEF Threaded, Placed, Buffered
<1> QED
  BY <1>1, <1>2 DEF Inv

\* Every step keeps the types.
LEMMA TypeStep ==
  ASSUME TypeOK, [Next]_vars
  PROVE  TypeOK'
<1>a. /\ 0 \in Activation /\ Empty \in Command
      /\ \A n \in Activation : n \in Command /\ (n < MaxActivations => n + 1 \in Activation)
  BY MaxActivationsAssumption DEF Activation, Command
<1>b. buffer \in Slots /\ \A r \in Slots : r.non_rt \in Command /\ r.rt \in Command
  BY DEF TypeOK, Slots
<1> USE DEF TypeOK, Lifecycle, CmPC, Stopping, RtPC, sysVars, loopVars, cmdVars, stateVars
<1>1. CASE PluginMissing
  BY <1>1 DEF PluginMissing
<1>2. CASE on_configure
  <2>1. buffer' \in Slots
    BY <1>2, <1>a DEF on_configure, filled_buffer, Slots
  <2> QED
    BY <1>2, <1>a, <2>1 DEF on_configure, Slots
<1>3. CASE ConfigureLoop
  BY <1>3 DEF ConfigureLoop
<1>4. CASE on_activate
  BY <1>4, <1>a DEF on_activate, clear_flag
<1>5. CASE ActivateFails
  BY <1>5 DEF ActivateFails
<1>6. CASE on_deactivate
  BY <1>6 DEF on_deactivate, RequestStop, raise_flag
<1>7. CASE on_cleanup
  BY <1>7 DEF on_cleanup, RequestStop, raise_flag
<1>8. CASE on_shutdown
  BY <1>8 DEF on_shutdown
<1>9. CASE destructor
  <2>1. CASE RequestStop("releasing")
    BY <2>1 DEF RequestStop, raise_flag
  <2>2. CASE lifecycle' = "destroyed" /\ UNCHANGED <<cm, rt_loop, bus, loopVars, cmdVars, stateVars>>
    BY <2>2
  <2> QED
    BY <1>9, <2>1, <2>2 DEF destructor
<1>10. CASE Join
  <2>1. /\ UNCHANGED <<rt_loop, stop_requested, epoch, cmdVars, stateVars>>
        /\ rt' = "none" /\ running' = FALSE
        /\ bus' \in {"new", "stopped"}
        /\ cm' \in {"idle", "released"} /\ lifecycle' \in {"inactive", lifecycle}
    BY <1>10 DEF Join
  <2> QED
    BY <2>1
<1>11. CASE Release
  <2>1. /\ UNCHANGED <<loopVars, cmdVars, stateVars>>
        /\ cm' = "idle" /\ rt_loop' = FALSE /\ bus' = "none"
        /\ lifecycle' \in {"destroyed", "unconfigured"}
    BY <1>11 DEF Release
  <2> QED
    BY <2>1
<1>12. CASE ControllersCommand
  BY <1>12, <1>a DEF ControllersCommand
<1>13. CASE read
  BY <1>13 DEF read, Serving
<1>14. CASE write
  BY <1>14 DEF write, Serving
<1>15. CASE WriteReturns
  <2>1. buffer' \in Slots
    <3>1. buffer' = [non_rt |-> command_, rt |-> buffer.rt, new_data |-> TRUE]
      BY <1>15, <1>b, Written
    <3>2. command_ \in Command
      BY <1>a
    <3> QED
      BY <1>b, <3>1, <3>2 DEF Slots
  <2> QED
    BY <1>15, <2>1 DEF WriteReturns, Slots
<1>16. CASE BeginCycle
  <2>1. buffer' \in Slots /\ picked_up' \in BOOLEAN
    <3>1. CASE buffer' = buffer /\ picked_up' \in BOOLEAN
      BY <1>b, <3>1
    <3>2. CASE /\ buffer' = [non_rt |-> buffer.rt, rt |-> buffer.non_rt, new_data |-> FALSE]
               /\ picked_up' = TRUE
      BY <1>b, <3>2 DEF Slots
    <3> QED
      BY <1>16, <3>1, <3>2, PickedUp
  <2>2. command' \in Command
    BY <1>16, <1>b, <2>1, PickedUp
  <2> QED
    BY <1>16, <2>1, <2>2 DEF BeginCycle, StateKept, Slots
<1>17. CASE ExchangeReturns
  BY <1>17, <1>a DEF ExchangeReturns
<1>18. CASE PublishState
  BY <1>18 DEF PublishState, Measured
<1>19. CASE Leave
  BY <1>19 DEF Leave
<1>20. CASE Destroyed
  BY <1>20 DEF Destroyed, vars
<1>21. CASE UNCHANGED vars
  BY <1>21 DEF vars
<1> QED
  BY <1>1, <1>2, <1>3, <1>4, <1>5, <1>6, <1>7, <1>8, <1>9, <1>10, <1>11, <1>12, <1>13, <1>14, <1>15, <1>16, <1>17, <1>18, <1>19, <1>20, <1>21
  DEF Next, ControllerManager, RtThread

\* Every step keeps the RT thread, the flag, the bus and the life cycle in line.
LEMMA ShapeStep ==
  ASSUME TypeOK, Threaded, Placed, [Next]_vars
  PROVE  Threaded' /\ Placed'
<1> USE DEF Threaded, Placed, Stopping, sysVars, loopVars, cmdVars, stateVars
<1>1. CASE PluginMissing
  BY <1>1 DEF PluginMissing
<1>2. CASE on_configure
  BY <1>2 DEF on_configure, filled_buffer, NewBuffer
<1>3. CASE ConfigureLoop
  BY <1>3 DEF ConfigureLoop
<1>4. CASE on_activate
  BY <1>4 DEF on_activate, clear_flag
<1>5. CASE ActivateFails
  BY <1>5 DEF ActivateFails
<1>6. CASE on_deactivate
  BY <1>6 DEF on_deactivate, RequestStop, raise_flag
<1>7. CASE on_cleanup
  BY <1>7 DEF on_cleanup, RequestStop, raise_flag
<1>8. CASE on_shutdown
  BY <1>8 DEF on_shutdown
<1>9. CASE destructor
  BY <1>9 DEF destructor, RequestStop, raise_flag
<1>10. CASE Join
  BY <1>10 DEF Join, joined, Stopping
<1>11. CASE Release
  BY <1>11 DEF Release
<1>12. CASE ControllersCommand
  BY <1>12 DEF ControllersCommand
<1>13. CASE read
  BY <1>13 DEF read, Serving
<1>14. CASE write
  BY <1>14 DEF write, Serving
<1>15. CASE WriteReturns
  BY <1>15 DEF WriteReturns
<1>16. CASE BeginCycle
  BY <1>16 DEF BeginCycle, ReadFromRT, Swapped, StateKept
<1>17. CASE ExchangeReturns
  BY <1>17 DEF ExchangeReturns
<1>18. CASE PublishState
  BY <1>18 DEF PublishState, Measured
<1>19. CASE Leave
  BY <1>19 DEF Leave
<1>20. CASE Destroyed
  BY <1>20 DEF Destroyed, vars
<1>21. CASE UNCHANGED vars
  BY <1>21 DEF vars
<1> QED
  BY <1>1, <1>2, <1>3, <1>4, <1>5, <1>6, <1>7, <1>8, <1>9, <1>10, <1>11, <1>12, <1>13, <1>14, <1>15, <1>16, <1>17, <1>18, <1>19, <1>20, <1>21
  DEF Next, ControllerManager, RtThread

\* Every step keeps what the buffers hold.
LEMMA BufferedStep ==
  ASSUME Inv, [Next]_vars
  PROVE  Buffered'
<1>a. 0 \in Activation /\ Empty \notin Activation
  BY MaxActivationsAssumption, EmptyAssumption DEF Activation
<1>b. buffer \in Slots /\ command_ \in Activation
  BY DEF Inv, TypeOK, Slots
<1>c. rt # "none" => rt_loop
  BY DEF Inv, Threaded, Placed
<1> USE DEF Inv, Buffered, sysVars, loopVars, cmdVars, stateVars
<1>1. CASE PluginMissing
  BY <1>1 DEF PluginMissing
<1>2. CASE on_configure
  <2>1. buffer'.non_rt \in Activation /\ buffer'.new_data
    BY <1>2, <1>a DEF on_configure, filled_buffer
  <2> QED
    BY <1>2, <2>1 DEF on_configure
<1>3. CASE ConfigureLoop
  BY <1>3 DEF ConfigureLoop
<1>4. CASE on_activate
  BY <1>4 DEF on_activate, clear_flag
<1>5. CASE ActivateFails
  BY <1>5 DEF ActivateFails
<1>6. CASE on_deactivate
  BY <1>6 DEF on_deactivate, RequestStop, raise_flag
<1>7. CASE on_cleanup
  BY <1>7 DEF on_cleanup, RequestStop, raise_flag
<1>8. CASE on_shutdown
  BY <1>8 DEF on_shutdown
<1>9. CASE destructor
  BY <1>9 DEF destructor, RequestStop, raise_flag
<1>10. CASE Join
  BY <1>10 DEF Join, joined, Stopping
<1>11. CASE Release
  BY <1>11 DEF Release
<1>12. CASE ControllersCommand
  BY <1>12 DEF ControllersCommand
<1>13. CASE read
  BY <1>13 DEF read, Serving
<1>14. CASE write
  BY <1>14 DEF write, Serving
<1>15. CASE WriteReturns
  <2>1. buffer'.non_rt = command_ /\ buffer'.rt = buffer.rt /\ buffer'.new_data
    BY <1>15, <1>b, Written
  <2> QED
    BY <1>15, <1>b, <2>1 DEF WriteReturns
<1>16. CASE BeginCycle
  <2>1. rt_loop /\ rt_loop' /\ command' = buffer'.rt /\ rt = "head"
    BY <1>16, <1>c, PickedUp DEF BeginCycle
  <2>2. CASE cm = "writing" /\ buffer' = buffer /\ picked_up' = picked_up
    BY <1>16, <1>a, <2>1, <2>2 DEF BeginCycle, StateKept
  <2>3. CASE picked_up' = TRUE /\ buffer.new_data /\ buffer' = [non_rt |-> buffer.rt, rt |-> buffer.non_rt, new_data |-> FALSE]
    <3>1. buffer'.rt \in Activation /\ ~buffer'.new_data
      BY <2>3
    <3> QED
      BY <1>16, <1>a, <2>1, <2>3, <3>1 DEF BeginCycle, StateKept
  <2>4. CASE picked_up' = TRUE /\ ~buffer.new_data /\ buffer' = buffer
    BY <1>16, <1>a, <2>1, <2>4 DEF BeginCycle, StateKept
  <2> QED
    BY <1>16, <2>2, <2>3, <2>4, PickedUp
<1>17. CASE ExchangeReturns
  BY <1>17 DEF ExchangeReturns
<1>18. CASE PublishState
  BY <1>18 DEF PublishState, Measured
<1>19. CASE Leave
  BY <1>19 DEF Leave
<1>20. CASE Destroyed
  BY <1>20 DEF Destroyed, vars
<1>21. CASE UNCHANGED vars
  BY <1>21 DEF vars
<1> QED
  BY <1>1, <1>2, <1>3, <1>4, <1>5, <1>6, <1>7, <1>8, <1>9, <1>10, <1>11, <1>12, <1>13, <1>14, <1>15, <1>16, <1>17, <1>18, <1>19, <1>20, <1>21
  DEF Next, ControllerManager, RtThread

\* The inductive invariant.
THEOREM Invariance == Spec => []Inv
<1>1. Init => Inv
  BY InitInv
<1>2. Inv /\ [Next]_vars => Inv'
  BY TypeStep, ShapeStep, BufferedStep DEF Inv
<1> QED
  BY <1>1, <1>2, PTL DEF Spec

-------------------------------------------------------------------------------
\* The variables keep their types, for any number of activations.
THEOREM TypeCorrect == Spec => []TypeOK
  BY Invariance, PTL DEF Inv

\* running_ is true of the thread and of the bus whenever controller_manager may
\* look: the flag is only up while stop() waits for the thread.
THEOREM HonestRunning == Spec => []RunningHonest
<1>1. Inv => RunningHonest
  <2> SUFFICES ASSUME Inv, cm \in {"idle", "writing"}
               PROVE  /\ running => rt \in Cycling /\ bus = "started"
                      /\ ~running => rt = "none" /\ bus # "started"
                      /\ lifecycle = "active" => running
    BY DEF RunningHonest
  <2>1. rt \in RtPC /\ (rt # "none" => rt # "left")
    BY DEF Inv, TypeOK, Threaded
  <2> QED
    BY <2>1 DEF Inv, Threaded, Placed, RtPC, Cycling
<1> QED
  BY <1>1, Invariance, PTL

\* A published measurement is not replaced by zeros or by an older one while the
\* activation lasts, whatever exchanges fail.
THEOREM MeasurementsKept == Spec => []MeasurementKept
<1>1. Inv => MeasurementKept
  BY DEF Inv, Buffered, MeasurementKept
<1> QED
  BY <1>1, Invariance, PTL

\* A command without joints reaches the bus only before the first undisturbed
\* look into command_buffer_.
THEOREM EmptyOnlyByCollisions == Spec => []EmptyOnlyByCollision
<1>1. Inv => EmptyOnlyByCollision
  BY DEF Inv, Buffered, EmptyOnlyByCollision
<1> QED
  BY <1>1, Invariance, PTL

\* What the RT thread hands on is sound in both directions.
THEOREM SoundHandingOn == Spec => []HandsOnSound
BY MeasurementsKept, EmptyOnlyByCollisions, PTL DEF HandsOnSound

-------------------------------------------------------------------------------
(* Which setpoints are where: none is newer than the activation, and one   *)
(* of the present activation has displaced the older ones on its way from  *)
(* command_ to the loop's command.                                         *)

Older ==
  /\ command_ <= epoch
  /\ buffer.non_rt # Empty => buffer.non_rt <= epoch
  /\ buffer.rt # Empty => buffer.rt <= epoch

Displaced ==
  rt \in Cycling =>
    /\ command = epoch => buffer.rt = epoch
    /\ buffer.rt = epoch => command_ = epoch
    /\ buffer.rt = epoch /\ buffer.new_data => buffer.non_rt = epoch
    /\ buffer.new_data /\ buffer.non_rt = epoch => command_ = epoch

\* A step that leaves command_, the buffer, the command and the activation alone
\* and starts no thread keeps both.
LEMMA Untouched ==
  ASSUME Older, Displaced, UNCHANGED <<command_, buffer, command, epoch>>,
         rt' \in Cycling => rt \in Cycling
  PROVE  Older' /\ Displaced'
  BY DEF Older, Displaced

\* A step of controller_manager or of the RT thread keeps what it leaves of the
\* setpoints in this order.
LEMMA CommandStep ==
  ASSUME Inv, Older, Displaced, [Next]_vars
  PROVE  Older' /\ Displaced'
<1>a. /\ epoch \in Nat /\ command_ \in Nat /\ Empty \notin Nat
      /\ (buffer.non_rt # Empty => buffer.non_rt \in Nat)
      /\ (buffer.rt # Empty => buffer.rt \in Nat)
      /\ buffer \in Slots
  BY MaxActivationsAssumption, EmptyAssumption DEF Inv, TypeOK, Activation, Command, Slots
<1> USE DEF sysVars, loopVars, cmdVars, stateVars
<1>1. CASE PluginMissing
  BY <1>1, Untouched DEF PluginMissing
<1>2. CASE on_configure
  <2>1. buffer'.non_rt = 0 /\ buffer'.rt = Empty /\ command_' = command_ /\ epoch' = epoch
    BY <1>2 DEF on_configure, filled_buffer
  <2>2. rt' \notin Cycling
    BY <1>2 DEF on_configure, Inv, Threaded, Placed, Cycling
  <2> QED
    BY <1>a, <2>1, <2>2 DEF Older, Displaced
<1>3. CASE ConfigureLoop
  BY <1>3, Untouched DEF ConfigureLoop
<1>4. CASE on_activate
  <2>1. epoch' = epoch + 1 /\ command' = 0 /\ command_' = command_ /\ buffer' = buffer
    BY <1>4 DEF on_activate
  <2>2. command' # epoch' /\ command_' # epoch' /\ buffer'.rt # epoch' /\ buffer'.non_rt # epoch'
    BY <1>a, <2>1 DEF Older
  <2> QED
    BY <1>a, <2>1, <2>2 DEF Older, Displaced
<1>5. CASE ActivateFails
  BY <1>5, Untouched DEF ActivateFails
<1>6. CASE on_deactivate
  BY <1>6, Untouched DEF on_deactivate, RequestStop
<1>7. CASE on_cleanup
  BY <1>7, Untouched DEF on_cleanup, RequestStop
<1>8. CASE on_shutdown
  BY <1>8, Untouched DEF on_shutdown
<1>9. CASE destructor
  BY <1>9, Untouched DEF destructor, RequestStop
<1>10. CASE Join
  BY <1>10, Untouched DEF Join, Cycling
<1>11. CASE Release
  BY <1>11, Untouched DEF Release
<1>12. CASE ControllersCommand
  <2>1. command_' = epoch /\ UNCHANGED <<epoch, buffer, command, rt>>
    BY <1>12 DEF ControllersCommand
  <2> QED
    BY <1>a, <2>1 DEF Older, Displaced
<1>13. CASE read
  BY <1>13, Untouched DEF read
<1>14. CASE write
  BY <1>14, Untouched DEF write
<1>15. CASE WriteReturns
  <2>1. /\ buffer'.non_rt = command_ /\ buffer'.rt = buffer.rt /\ buffer'.new_data
        /\ UNCHANGED <<epoch, command_, command, rt>>
    BY <1>15, <1>a, Written DEF WriteReturns
  <2> QED
    BY <1>a, <2>1 DEF Older, Displaced
<1>16. CASE BeginCycle
  <2>1. /\ UNCHANGED <<epoch, command_>> /\ command' = buffer'.rt
        /\ rt \in Cycling /\ rt' \in Cycling
    BY <1>16, PickedUp DEF BeginCycle, Cycling
  <2>2. CASE buffer' = buffer
    BY <1>a, <2>1, <2>2 DEF Older, Displaced
  <2>3. CASE /\ buffer.new_data
             /\ buffer' = [non_rt |-> buffer.rt, rt |-> buffer.non_rt, new_data |-> FALSE]
    <3>1. buffer'.non_rt = buffer.rt /\ buffer'.rt = buffer.non_rt /\ ~buffer'.new_data
      BY <2>3
    <3> QED
      BY <1>a, <2>1, <2>3, <3>1 DEF Older, Displaced
  <2> QED
    BY <1>16, <2>2, <2>3, PickedUp
<1>17. CASE ExchangeReturns
  BY <1>17, Untouched DEF ExchangeReturns, Cycling
<1>18. CASE PublishState
  BY <1>18, Untouched DEF PublishState, Cycling
<1>19. CASE Leave
  BY <1>19, Untouched DEF Leave, Cycling
<1>20. CASE Destroyed
  BY <1>20, Untouched DEF Destroyed, vars
<1>21. CASE UNCHANGED vars
  BY <1>21, Untouched DEF vars
<1> QED
  BY <1>1, <1>2, <1>3, <1>4, <1>5, <1>6, <1>7, <1>8, <1>9, <1>10, <1>11, <1>12, <1>13, <1>14, <1>15, <1>16, <1>17, <1>18, <1>19, <1>20, <1>21
  DEF Next, ControllerManager, RtThread

\* A loop that has been handed a setpoint of its activation keeps it.
LEMMA KeepsCommand ==
  ASSUME Inv, Displaced, [Next]_vars, command = epoch, rt \in Cycling
  PROVE  command' = epoch
<1>1. lifecycle # "inactive" /\ running
  <2>1. running /\ bus = "started"
    BY DEF Inv, Threaded, Cycling
  <2> QED
    BY <2>1 DEF Inv, Placed
<1>2. CASE BeginCycle
  <2>1. command' = buffer'.rt
    BY <1>2, PickedUp
  <2>2. buffer.rt = epoch /\ (buffer.new_data => buffer.non_rt = epoch)
    BY DEF Displaced
  <2>3. CASE buffer' = buffer
    BY <2>1, <2>2, <2>3
  <2>4. CASE /\ buffer.new_data
             /\ buffer' = [non_rt |-> buffer.rt, rt |-> buffer.non_rt, new_data |-> FALSE]
    BY <2>1, <2>2, <2>4
  <2> QED
    BY <1>2, <2>3, <2>4, PickedUp
<1>3. ~BeginCycle => command' = command
  <2>1. ~on_activate /\ ~BeginCycle => UNCHANGED command
    BY DEF Next, ControllerManager, RtThread, vars, sysVars, loopVars, cmdVars, stateVars,
           PluginMissing, on_configure, ConfigureLoop, ActivateFails, on_deactivate,
           on_cleanup, RequestStop, on_shutdown, destructor, Join, Release,
           ControllersCommand, read, write, WriteReturns, ExchangeReturns, PublishState,
           Leave, Destroyed
  <2>2. ~on_activate
    BY <1>1 DEF on_activate
  <2> QED
    BY <2>1, <2>2
<1> QED
  BY <1>2, <1>3

\* Once a loop has been handed a setpoint of its own activation, it never goes
\* back to an older one or to a command without joints.
THEOREM CommandsKept == Spec => CommandKept
<1>1. Init => Older /\ Displaced
  <2> SUFFICES ASSUME Init PROVE Older /\ Displaced
    OBVIOUS
  <2>1. command_ = 0 /\ epoch = 0 /\ buffer.rt = Empty /\ buffer.non_rt = Empty /\ rt \notin Cycling
    BY DEF Init, NewBuffer, Cycling
  <2> QED
    BY <2>1 DEF Older, Displaced
<1>2. Inv /\ Older /\ Displaced /\ [Next]_vars => (Older /\ Displaced)'
  BY CommandStep
<1>3. Inv /\ Displaced /\ [Next]_vars =>
        [command = epoch /\ rt \in Cycling => command' = epoch]_vars
  BY KeepsCommand
<1> QED
  BY <1>1, <1>2, <1>3, Invariance, PTL DEF Spec, CommandKept

-------------------------------------------------------------------------------
\* A step that leaves the bus alone and is neither the begin nor the end of an
\* exchange() is no step of the contract.
LEMMA BusStutter ==
  ASSUME bus' = bus, rt = "exchange" <=> rt' = "exchange"
  PROVE  [Bus!BusNext]_(Bus!busVars)
<1>1. (rt = "exchange") = (rt' = "exchange")
  OBVIOUS
<1> QED
  BY <1>1 DEF Bus!busVars

\* Every step of the component is a call the contract allows, or none.
LEMMA BusStep ==
  ASSUME Inv, [Next]_vars
  PROVE  [Bus!BusNext]_(Bus!busVars)
<1> USE DEF Inv, Threaded, Placed, sysVars, loopVars
<1>a. lifecycle \in Lifecycle /\ cm \in CmPC
  BY DEF TypeOK
<1>1. CASE PluginMissing
  BY <1>1, BusStutter DEF PluginMissing
<1>2. CASE on_configure
  <2>1. bus = "none" /\ bus' = "new" /\ rt # "exchange" /\ rt' # "exchange"
    BY <1>2 DEF on_configure
  <2>2. Bus!CreateBus
    BY <2>1 DEF Bus!CreateBus
  <2> QED
    BY <2>2 DEF Bus!BusNext
<1>3. CASE ConfigureLoop
  <2>1. CASE bus' = bus
    BY <1>3, <2>1, BusStutter DEF ConfigureLoop
  <2>2. CASE bus' = "configured"
    <3>1. bus = "new" /\ rt # "exchange" /\ rt' # "exchange"
      BY <1>3 DEF ConfigureLoop
    <3>2. Bus!ConfigureBus
      BY <2>2, <3>1 DEF Bus!ConfigureBus
    <3> QED
      BY <3>2 DEF Bus!BusNext
  <2> QED
    BY <1>3, <2>1, <2>2 DEF ConfigureLoop
<1>4. CASE on_activate
  <2>1. bus \in {"configured", "stopped"} /\ bus' = "started" /\ rt # "exchange" /\ rt' # "exchange"
    BY <1>4 DEF on_activate
  <2>2. Bus!StartBus
    BY <2>1 DEF Bus!StartBus
  <2> QED
    BY <2>2 DEF Bus!BusNext
<1>5. CASE ActivateFails
  BY <1>5, BusStutter DEF ActivateFails
<1>6. CASE on_deactivate
  BY <1>6, BusStutter DEF on_deactivate, RequestStop
<1>7. CASE on_cleanup
  BY <1>7, BusStutter DEF on_cleanup, RequestStop
<1>8. CASE on_shutdown
  BY <1>8, BusStutter DEF on_shutdown
<1>9. CASE destructor
  BY <1>9, BusStutter DEF destructor, RequestStop
<1>10. CASE Join
  <2>1. /\ bus # "none" /\ bus' = (IF bus = "new" THEN "new" ELSE "stopped")
        /\ rt # "exchange" /\ rt' # "exchange"
    BY <1>10 DEF Join, joined, Stopping
  <2>2. Bus!StopBus
    BY <2>1 DEF Bus!StopBus
  <2> QED
    BY <2>2 DEF Bus!BusNext
<1>11. CASE Release
  <2>1. bus \in {"new", "stopped"} /\ bus' = "none" /\ rt # "exchange" /\ rt' # "exchange"
    BY <1>11 DEF Release
  <2>2. Bus!DestroyBus
    BY <2>1 DEF Bus!DestroyBus, Bus!BusPhase
  <2> QED
    BY <2>2 DEF Bus!BusNext
<1>12. CASE ControllersCommand
  BY <1>12, BusStutter DEF ControllersCommand
<1>13. CASE read
  BY <1>13, BusStutter DEF read, Serving
<1>14. CASE write
  BY <1>14, BusStutter DEF write, Serving
<1>15. CASE WriteReturns
  BY <1>15, BusStutter DEF WriteReturns
<1>16. CASE BeginCycle
  <2>1. bus = "started" /\ rt # "exchange" /\ rt' = "exchange" /\ bus' = bus
    BY <1>16 DEF BeginCycle
  <2>2. Bus!BeginExchange
    BY <2>1 DEF Bus!BeginExchange
  <2> QED
    BY <2>2 DEF Bus!BusNext
<1>17. CASE ExchangeReturns
  <2>1. rt = "exchange" /\ rt' # "exchange" /\ bus' = bus
    BY <1>17 DEF ExchangeReturns
  <2>2. Bus!EndExchange
    BY <2>1 DEF Bus!EndExchange
  <2> QED
    BY <2>2 DEF Bus!BusNext
<1>18. CASE PublishState
  BY <1>18, BusStutter DEF PublishState
<1>19. CASE Leave
  BY <1>19, BusStutter DEF Leave
<1>20. CASE Destroyed
  BY <1>20, BusStutter DEF Destroyed, vars
<1>21. CASE UNCHANGED vars
  BY <1>21, BusStutter DEF vars
<1> QED
  BY <1>1, <1>2, <1>3, <1>4, <1>5, <1>6, <1>7, <1>8, <1>9, <1>10, <1>11, <1>12, <1>13, <1>14, <1>15, <1>16, <1>17, <1>18, <1>19, <1>20, <1>21
  DEF Next, ControllerManager, RtThread

\* The component keeps to the order of calls of HardwareBus, for any number of
\* activations and whatever fails.
THEOREM KeepsBusContract == Spec => ImplementsBus
<1>1. Init => Bus!BusInit
  <2> SUFFICES ASSUME Init PROVE Bus!BusInit
    OBVIOUS
  <2>1. bus = "none" /\ rt # "exchange"
    BY DEF Init
  <2> QED
    BY <2>1 DEF Bus!BusInit
<1>2. Inv /\ [Next]_vars => [Bus!BusNext]_(Bus!busVars)
  BY BusStep
<1> QED
  BY <1>1, <1>2, Invariance, PTL DEF Spec, ImplementsBus, Bus!BusSpec

-------------------------------------------------------------------------------
(* Liveness.                                                               *)

\* The flag is up for as long as stop() waits.
LEMMA FlagStaysUp == Spec => [](cm \in Stopping => stop_requested)
<1> DEFINE Asked == cm \in Stopping => stop_requested
<1>1. Init => Asked
  BY DEF Init, Stopping
<1>2. Asked /\ [Next]_vars => Asked'
  BY DEF Stopping, Next, ControllerManager, PluginMissing, on_configure, ConfigureLoop, on_activate,
         ActivateFails, on_deactivate, on_cleanup, RequestStop, raise_flag, clear_flag, on_shutdown,
         destructor, Join, Release, ControllersCommand, read, write, WriteReturns, Serving,
         RtThread, BeginCycle, ExchangeReturns, PublishState, Leave, Destroyed, vars, sysVars,
         loopVars
<1> QED
  BY <1>1, <1>2, PTL DEF Spec

\* Nothing but the join ends the wait of stop(), and nobody starts another thread.
LEMMA WhileStopping ==
  ASSUME cm \in Stopping, stop_requested, [Next]_vars
  PROVE  \/ cm' = cm /\ <<RtThread>>_vars
         \/ cm' = cm /\ rt' = rt
         \/ Join
BY DEF Stopping, Next, ControllerManager, PluginMissing, on_configure, ConfigureLoop, on_activate,
       ActivateFails, on_deactivate, on_cleanup, on_shutdown, destructor, Release,
       ControllersCommand, read, write, WriteReturns, Serving, RtThread, BeginCycle,
       ExchangeReturns, PublishState, Leave, Destroyed, vars, sysVars, loopVars

\* The RT thread's way out of the loop, once it is asked to leave.
LEMMA WayOut ==
  ASSUME RtThread, stop_requested
  PROVE  \/ rt = "exchange" /\ rt' = "publish"
         \/ rt = "publish" /\ rt' = "head"
         \/ rt = "head" /\ rt' = "left"
BY DEF RtThread, BeginCycle, ExchangeReturns, PublishState, Leave

\* on_deactivate, on_cleanup and the destructor return, for any number of activations
\* and at whatever point of its cycle the RT thread is when it is asked to leave: it
\* passes exchange() and the publication at most once more, then the head of the loop
\* lets it go, and the join and what follows it go through.  What is used of ENABLED
\* is NeverStuck.
THEOREM StopsReturn == Spec /\ []NeverStuck => StopReturns
<1> DEFINE S == cm \in Stopping
<1>1. S /\ stop_requested /\ rt = "exchange" /\ [Next]_vars
        => S' /\ ((rt = "exchange")' \/ (rt = "publish")')
  BY WhileStopping, WayOut DEF Join, joined
<1>2. S /\ stop_requested /\ rt = "exchange" /\ <<RtThread>>_vars => (rt = "publish")'
  BY WayOut
<1>3. S /\ stop_requested /\ rt = "publish" /\ [Next]_vars
        => S' /\ ((rt = "publish")' \/ (rt = "head")')
  BY WhileStopping, WayOut DEF Join, joined
<1>4. S /\ stop_requested /\ rt = "publish" /\ <<RtThread>>_vars => (rt = "head")'
  BY WayOut
<1>5. S /\ stop_requested /\ rt = "head" /\ [Next]_vars
        => S' /\ ((rt = "head")' \/ (rt \notin Cycling)')
  BY WhileStopping, WayOut DEF Join, joined, Cycling
<1>6. S /\ stop_requested /\ rt = "head" /\ <<RtThread>>_vars => (rt \notin Cycling)'
  BY WayOut DEF Cycling
<1>7. S /\ stop_requested /\ rt \notin Cycling /\ [Next]_vars
        => \/ S' /\ (rt \notin Cycling)'
           \/ (cm = "idle")' \/ (cm = "released")'
  BY WhileStopping, WayOut DEF Join, Cycling
<1>8. S /\ <<Join>>_vars => (cm = "idle")' \/ (cm = "released")'
  BY DEF Join
<1>9. cm = "released" /\ [Next]_vars => (cm = "released")' \/ (cm = "idle")'
  BY DEF Stopping, Next, ControllerManager, PluginMissing, on_configure, ConfigureLoop,
         on_activate, ActivateFails, on_deactivate, on_cleanup, on_shutdown, destructor, Join,
         Release, ControllersCommand, read, write, WriteReturns, Serving, RtThread, BeginCycle,
         ExchangeReturns, PublishState, Leave, Destroyed, vars, sysVars
<1>10. <<Release>>_vars => (cm = "idle")'
  BY DEF Release
<1>11. S => rt \notin Cycling \/ rt = "head" \/ rt = "exchange" \/ rt = "publish"
  BY DEF Cycling
<1>12. NeverStuck => /\ rt \in Cycling => ENABLED <<RtThread>>_vars
                     /\ S /\ rt \notin Cycling => ENABLED <<Join>>_vars
                     /\ cm = "released" => ENABLED <<Release>>_vars
  BY DEF NeverStuck
<1>13. rt = "head" \/ rt = "exchange" \/ rt = "publish" => rt \in Cycling
  BY DEF Cycling
<1> HIDE DEF S
<1>14. Spec => [](S => stop_requested)
  BY FlagStaysUp DEF S
<1>15. Spec /\ []NeverStuck => (S ~> cm = "idle")
  BY <1>1, <1>2, <1>3, <1>4, <1>5, <1>6, <1>7, <1>8, <1>9, <1>10, <1>11, <1>12, <1>13, <1>14, PTL
  DEF Spec, Fairness
<1> QED
  BY <1>15 DEF S, StopReturns

===============================================================================
