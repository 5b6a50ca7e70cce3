# TLA+ models of the ROS 2 RT task-control framework

This directory models the framework from the documents a node is started with
to the setpoints a drive follows: construction and life cycle of the task
runtime, the execution of tasks over concurrent action ports, the motion gate,
the monitor that closes and opens it, the real-time loop behind
`ros2_control`, and the bus plugins. TLC checks small instances (one run per question, listed in
`PROJECT.json`); TLAPS proves the main results for every value of the constants.
`PROJECT.json` also maps every definition to the lines it models.

Paths below are relative to `src/src/` of the repository.

- [Inventory](#inventory)
- [Modules](#modules)
- [Runs](#runs)
- [Fairness](#fairness)
- [Proofs](#proofs)
- [What the models show about the code](#what-the-models-show-about-the-code)
- [Not modelled](#not-modelled)
- [Plan](#plan)

## Inventory

### Processes and threads

| Where | Threads |
|---|---|
| `task_orchestrator_node` | the threads of a `MultiThreadedExecutor`. Goal, cancel and accept callbacks, the ports' action clients, the health monitor's statistics callback and its 200 ms timer are all in the node's default callback group, which is mutually exclusive, so one of them runs at a time, as on one thread. One detached thread per accepted goal |
| `controller_manager` | one update thread: life-cycle transitions, `read()`, controllers, `write()` |
| the RT loop | one thread from `RtControlLoop::start()` to the join in `stop()` |
| action servers of navigation and manipulation | outside the repository |

### Components

**Task orchestrator** (`robot_task/src/task_orchestrator.cpp`). Keeps nothing
between calls. `execute()` asks the gate, plans, and for each step polls the
cancel flag and the gate, asks the safety gate, starts a goal on a port, polls
the flag again and waits. Shared with others: the cancel flag, `FaultManager`,
the progress callback (which a port's feedback also calls, from the executor).
Hard: two polls per step and a world that changes between them; servers that
answer late or never; feedback after the frame is gone. Correct when goals run in
order, Ok is earned, little motion starts after a block or a cancel, and the
call returns.

**Task action server** (`robot_runtime/src/task_orchestrator_node.cpp`). Keeps
one cancel flag, one state with its texts, for all goals. Operations:
`handle_goal`, `handle_cancel`, `handle_accepted`, the thread body `execute`,
`finish_failed`, `set_state`. Hard: `handle_goal` tests the state without
claiming it; the flag is reset by the thread, after the acceptance; the
cancel callback runs before `rclcpp_action` moves the goal. Correct when tasks do not
overlap, a cancellation is honored, every goal ends, and the process lives.

**Fault manager** (`robot_core_api/include/robot_core_api/fault.hpp`). An atomic
mode and a guarded code; `raise()` and `clear()` write them one after the other.
Every caller of the process shares it. Correct when the gate is closed as long as
a fault stands and says why.

**Health monitor** (`robot_runtime/src/health_monitor.cpp`). Keeps the last
deadline counter and the last error seen. Its statistics callback raises and
clears RT faults in the same `FaultManager` task threads write to. Hard: test and
clear are separate steps; one code for all faults; a counter that restarts.

**RT control loop** (`robot_ros2_control/src/rt_control_loop.cpp`). Keeps the
thread, `running_`, `stop_requested_`, counters, the sticky `last_error_`, and two
buffers. Operations: `configure`, `start`, `stop`, `run`, reads and writes from
the non-RT side. Hard: the schedule after overruns and late wake-ups; failing
exchanges; the join. Correct when it never runs ahead, reports honest numbers,
publishes what was measured, and leaves when asked.

**State buffer** (`.../atomic_state_buffer.hpp`). A field-by-field lock-free
snapshot. Correct when a torn snapshot is torn by little and never goes back.

**ros2_control component**
(`robot_ros2_control/src/rt_mobile_manipulator_system.cpp`). Owns the plugin
loader, bus and loop, and maps life-cycle transitions to them. Hard: failures in
transitions, `on_shutdown` without an override, destruction while running.

**HardwareBus** (`robot_hardware_api/.../hardware_bus.hpp`): `configure`, `start`,
`exchange`, `stop`, with an order of calls its comment states. Correct when
callers keep to it, and no call overlaps an `exchange()`.

**Bus plugins** (`robot_hardware_plugins`, `robot_ethercat_adapters`) and the
**safety limiter** each command passes (`robot_ros2_control/.../safety_limiter.hpp`).
They keep flags, the last state, a watchdog's clock; the EtherCAT adapters a
master of another repository. Hard: a restart of the same object; a safety event
between any two statements of `exchange()`; a start that fails half-way; limits
that are negative or NaN. Correct when limits hold behind them, a silent
controller is noticed in time, drives follow setpoints only while started, and
nothing but a new start enables them after an event.

**Action ports** (`robot_navigation_adapters`, `robot_manipulation_adapters`):
`start`, `cancel`, `wait` over an action client and a map of goals, called by
any number of task threads. Hard: two calls of `start()` over one counter; time-outs
of 3 s and 30 s against servers that answer later; entries nobody erases. Correct when
an id belongs to one goal, and each call's status is its own goal's.

**Safety gate and policies** (`robot_safety`), **planners and parser**
(`robot_task`), **profile** (`robot_profile`), **builder, registry and
configuration** (`robot_runtime`): sequential functions of documents and
arguments. Hard: defaults of keys that are left out, comparisons with NaN, and
that what one part lets pass is what the next relies on. **Life cycle**
(`runtime_lifecycle.cpp`): ordered transitions over services any of which
may fail. Correct when no service is up without those it was added after.

### How they meet

    profile, runtime documents --> RuntimeBuilder --> Runtime (gate, planner, ports, life cycle)
                                                          |
    client --goal, cancel--> TaskServer --execute()--> TaskOrchestrator --ActionPort--> servers
                                                          | polls, raises
                                                          v
                               HealthMonitor --raises, clears--> FaultManager
                                    ^ /robot/rt_loop_stats (lossy)
    controllers --command--> RtSystem --> RtControlLoop --exchange()--> HardwareBus
                                    ^  RealtimeBuffer, AtomicStateBuffer  |
                                    +-------------------------------------+
                                                              BusPlugins --> drives

`PROJECT.json` lists the hazards at their lines and the properties that
watch each of them.

## Modules

| Module | Models | Notes |
|---|---|---|
| `FaultManager` | `fault.hpp` | state and the single writes of `raise()` and `clear()`; extended by its users, who give every write a step |
| `TaskOrchestrator` | `execute()`, with ports and servers | `pc[t]` is the place of call `t`; one action per statement that another thread can come between |
| `ExecuteContract` | the promise of `execute()` to its caller | `TaskOrchestrator` implements it (`ImplementsContract`), `TaskServer` is built on it |
| `TaskServer` | the node, its threads, and `rclcpp_action`'s goal states | extends the contract, so its task threads do what the orchestrator was shown to do and no more |
| `HealthMonitor` | `on_rt_loop_stats`, task threads, the loop's statistics | every access to `FaultManager` is a step |
| `RtSchedule` | the timing of `run()` | integer time; work and latency are choices |
| `AtomicStateBuffer` | the state buffer | every store and load is a step; a value is the number of its cycle |
| `HardwareBus` | the order of calls asked by `hardware_bus.hpp` | an abstract specification |
| `RtSystem` | component, loop, thread and both buffers | implements `HardwareBus` (`ImplementsBus`) |
| `Doubles` | comparisons with NaN, `std::min`, `max`, `clamp` | extended by whatever compares numbers |
| `BusPlugins` | the five plugins and the safety limiter | extends `HardwareBus`: a call of a plugin is a step of the contract |
| `RobotProfile` | loader and validator of profiles | pure operators over documents |
| `SafetyGate` | `SafetyGate::admit`, `VelocityLimitPolicy` | pure operators |
| `TaskPlanner` | parser of instructions, both planners | pure operators |
| `RuntimeBuilder` | configuration, registry, builder | pure operators; extends the three above |
| `RuntimeLifecycle` | `configure_all` to `cleanup_all` | one action per call |
| `CapabilityPort` | what a port promises of one goal | an abstract specification |
| `ActionPort` | the six adapters and the servers behind them | implements `CapabilityPort` (`ImplementsPort`) |
| `Runtime` | `TaskOrchestratorNode::initialize` and the use of what it builds | composes `RuntimeBuilder`, `RuntimeLifecycle`, `ActionPort` |
| `*_proofs` | theorems about the module they extend | |
| `MC*` | constants for TLC | |

How state corresponds to code:

- A place (`pc`, `rpc`, `mpc`, `cm`, `rt`) stands for where a thread is. Code
  between two shared accesses belongs to one action.
- `TaskOrchestrator`: `backend[t][i]` is the life of step `i`'s goal in its server,
  `entry[t]` the port's `goals_` entry for the step in progress (and the goal handle that keeps
  the feedback lambda alive), `estop_active[t]` the captured robot state. Waiting
  with a time limit is a choice between the answer and giving up, at any moment.
- `TaskServer`: `goal_state` is `rclcpp_action`'s state machine, external, as
  the code uses it: the cancel callback runs while the goal is still EXECUTING,
  `succeed()` and `abort()` are legal from EXECUTING and CANCELING, `canceled()` only
  from CANCELING and throws otherwise. Reading `active_goal_` without its lock
  while another thread writes it is undefined: `TornRead` may end the process.
- `HealthMonitor`: `topic` holds the last unread message; `rt_error` is
  `last_error_ # ""`.
- `RtSystem`: commands and states are the number of the activation they belong
  to; `buffer` is `realtime_tools::RealtimeBuffer` (external) with its two slots
  and `new_data` flag; a `write()` in progress holds the lock `readFromRT()` tries.
  The life cycle of `hardware_interface::System` is external: an ERROR leads to
  "finalized", `read()` and `write()` are called while inactive or active.
- `BusPlugins`: a plugin of the repository's own is a sequential object, each of its calls
  one step. Of an EtherCAT adapter `exchange()` is three: its look at the
  master's motion state, the request to release safe-output, the cycle. The master is external:
  `latched`, `dwelled`, `safe_output` and `driven` behave as
  `docs/ETHERCAT_INTEGRATION.md` describes (an event latches; only `start()`
  accepts it; setpoints reach the drives without safe-output only), and an event may
  fall between any two steps. `StdClamp` with its bounds swapped, which the
  mock computes for a negative limit, is undefined in C++; the model takes what
  libstdc++'s release build does. Infinities are represented by NaN, which stands for
  everything `std::isfinite` rejects.
- `RobotProfile`, `RuntimeBuilder`: a document is a function from the keys it has
  to values; missing keys get the default of the struct, `Malformed` is a value its
  `as<T>()` throws on. `Refused` is an error result, of whatever text.
- `ActionPort`: `goal[c]` is call `c`'s goal as its server sees it, `goals_[p]` the
  map of port `p`. The adapters are compositions of shared actions, as their sources are
  copies of one text, and differ in what they refuse and how they read results. The
  exceptions with which `rclcpp_action` may answer a cancel of a goal that has finished are not modelled.
- `Runtime`: the builder adds one service, the health monitor; `MCRuntime` has two,
  since the life cycle is written for any number.
- History variables (`blocked_starts`, `overlap`, `raced`, `picked_up`, `silent`, `event`, ...) are
  marked as such where they are declared; no guard reads them.

Some definitions have a neighbour of the same shape that is wrong the
way the code could be wrong (a forgotten flag, an off-by-one). No action uses
them; the header of each module names them. Substituted for the right one, each makes the
property of `PROJECT.json`'s "mutants" fail, so no property holds of
whatever the code might do.

## Runs

| Run | Result | Question | States |
|---|---|---|---:|
| `task_orchestrator` | passes | one call of `execute()` against every behaviour of servers, flag and gate | 16,482 |
| `task_server` | passes | two goals and their cancellations | 257,844 |
| `task_server_cancel` | violated | does the node survive every cancellation? |  |
| `health_monitor` | passes | monitor, task thread and RT loop over one `FaultManager` | 788,814 |
| `rt_schedule` | passes | overruns and late wake-ups | 466,947 |
| `rt_schedule_fitting` | passes | do cycles that fit keep tick and phase? | 55,485 |
| `rt_schedule_phase` | violated | does skipping ticks keep the phase? |  |
| `state_buffer` | passes | tearing | 339,003 |
| `rt_system` | passes | life cycle, failures, buffers, bus | 27,404 |
| `rt_system_restart` | violated | is a stopped bus configured again before it is started? |  |
| `bus_plugins` | passes | five plugins under the contract's calls, any commands, safety events | 236,802 |
| `runtime` | passes | from documents to goals: construction, life cycle, ports | 460,339 |

### `task_orchestrator`

`PlanFollowed`: the types, and that no time-out, refusal or late result lets a step
be skipped, or counted for an Ok. `OneStartAfterStop`: after motion is
forbidden, or the flag raised, a call sends one more goal at most; one it may
send, between its poll and `start()`. `OrphanOnlyAfterTimeout`: a goal
running that nobody asked to stop is the mark of a time-out. `LateFeedbackCause`:
when a feedback can reach the dead frame. `ImplementsContract`: safety and
termination of a call as its caller sees it. `UsesPorts`: what its ports see of a
call is what `CapabilityPort` asks of a caller, one start for a step, then one wait or
one cancel. `BoundedWork`: `WorkLeft(t)` falls with every step of call `t`
and grows with nobody's, so no answer or missing answer sends a call back. `NeverStuck`: nor does one hold
it up; wherever a call is, its thread has a step to take.

Bounds: plans of one to three steps (three is the least with a step
that has one before and one after it; both kinds occur in each position), one call, four fault
settings from outside, which between them open, degrade and close the gate. Calls
share only flag, gate and state, all of which the environment already changes at
any moment, so one call meets everything a second one could do to it;
`TaskOrchestrator_proofs` does not bound the number of calls.

### `task_server` and `task_server_cancel`

`StateHonest`: the state the node tests is not IDLE while a task runs, as long as no
two have overlapped, and IDLE when none does, unless a callback wrote it for a task already gone.
`OverlapOnlyFromClaimGap`: the state test keeps a second task out
except in the gap between acceptance and the first `set_state()`. `CancelHeard`
and `CancelHonored`: what can erase the flag, and that a goal that became
CANCELING in time is still reported canceled, since the node asks
`is_canceling()` besides the status. `CrashCause`: the three ways into the exception of
`canceled()`.
`AcceptedGoalEnds`: every path delivers a result. `NeverStuck`: as long as the process
lives, a thread that has not exited has a step to take, whatever callback is in progress.

Two goals: enough for an overlap, for a flag reset by the other task,
and for a state written on behalf of a task that has gone. A third goal adds
nothing a pair does not show, since every history is about one task and another one.

### `health_monitor`

`GateSound` and the first half of `MotionWithheld`: `clear()` loses a task fault, or leaves
mode and code in disagreement, in exactly two ways, a race with `raise()`
(`raced`) and a task code hidden under an RT code (`masked`). Its second half: the
gate is closed while the last message reports an error. `RtFaultClears`: once the
loop runs without an error and the counter rests, at whatever value, the
fault goes. `FailureIsHeard`: an exchange that fails is heard, however many messages
are lost: the loop keeps the text of its last error and every later message repeats it,
so the monitor comes to withhold motion, unless the loop is stopped before. `NeverStuck`: the callback can take its next step in every state of the
`FaultManager`, and `read()` can publish.

The deadline counter goes to 2 with threshold 2: below, at and across the
threshold, and back by a restart. One raiser: the races are between it and
the monitor; two raisers race only for the code. `RtFaultClears` names the value
the counter rests at and so does not lean on its bound.

### `rt_schedule`, `rt_schedule_fitting` and `rt_schedule_phase`

`NoBurst` (never ahead of the schedule, and never three cycles in a period after a stall),
`MeasuredRateHonest` (overstated by two cycles per window at most) and `StopLeaves`.
A period is 2 units and work goes to 5, latency to 3: cycles that fit, that end
in the next slot and in the one after, and wake-ups late by more than a slot.
The clock to 14 units holds seven periods and two measurements.

`EveryTickServed`: where cycles fit, every tick has its cycle, which begins within the tick's
own slot. A cycle may begin late and the sleep after it end late, so to fit is
`CyclesFit`, `MaxWork + 2 * MaxLatency < Period`; the instance only just does (3 + 2 * 2 < 8),
over ten periods. `MCRtScheduleFitting` assumes `CyclesFit`, which TLC evaluates. The run of the phase has a
finer period and no latency, so that only overruns are left.

### `state_buffer`

`BufferInv` (the types, and `SkewBound`) and `NotOlder` (than the last state complete at the call, than the snapshot
before) over two joints (six fields) and three
cycles: reader and writer overtake each other, and two torn snapshots follow
each other. The proofs bound neither.

### `rt_system` and `rt_system_restart`

`CommandKept`: once a command of this activation has reached `exchange()`, an older
one never does again, nor one without joints.
`RunningHonest` relates what the statistics say to thread and bus.
`HandsOnSound`: failing exchanges repeat the last measurement of the
activation and nothing else (before the first one, they publish the zeros
of the local state; the model has that too), and the only way a
command without joints reaches `exchange()` is a `readFromRT()` that meets a
`write()` in every cycle since the loop was made. `StopReturns` and `NeverStuck` (a
cycling thread can go on though `write()` holds the lock; a join can return once the
thread has left), and `ImplementsBus` for the order of calls and their exclusion.

Three activations: of a new loop, of the same loop after a stop, and of a loop
that replaced it, so both kinds of successor occur with a history behind them.

### `bus_plugins`

`BusInv` is `LimitHolds` (a limit that is a number and not negative bounds the velocity
behind every plugin), `WatchdogExact` (the simulated bus refuses exactly the cycles
whose silence exceeds the time-out, restarts included), `DrivesAtRest` (no
setpoint is followed before `start()` has succeeded or after `stop()`) and types.
`NoAutoReenable`: after a safety event the drives follow nothing until the next
successful `start()`, wherever in an exchange the event falls.

Two joints (the controller of the mock and the freshness test of the watchdog look
at joints one by one, and a command may be fresh in one of them only); commands
above the limit in both directions, NaN, and none; limits of every sign and
NaN; a time-out of two cycles, so that some silence is within it; motor models in each of
the three places they are looked for. `Reach` only stops the mock from driving away.

### `runtime`

`StartedIsAllowed` is about the documents themselves: no goal is started under a profile
or a runtime document that any test of its reader or of the builder refuses, for a
capability the profile does not declare, for a trajectory the arm could not follow, or
faster than the profile's limits. `LegalProfile` and `LegalRuntime` say what is refused
key by key, of the raw documents and with the defaults of keys that are missing, apart from the
operators that follow the code; what sits between the two, reading, defaulting,
validating, looking up plugins and handing on, is what the property is about. A limit of `.nan`
is the exception, which passes every test. Its mutants drop a
test at each stage: names of joints, limits, plugins, providers of the runtime. `LifecycleSound`: whatever fails, the
active services are a prefix of those added, and all of them while the node serves.
`PortInv`: ids are unique however calls interleave, a call that may wait finds its own entry, and
what stays in `goals_` is the entry of a goal that was given up.
`ImplementsPort`: each of the six adapters keeps the promise of its interface.

Two calls, on one port or two: a collision of ids takes two. Two services: one that fails and one that
is already up. Calls are interchangeable and declared so to TLC
(`SYMMETRY`; the run has no liveness property it could spoil). The documents deviate from a good one in one key, by
omission, by a malformed value and by values at and around each test; pairs of
deviations meet in no test of the code. 47 lies between what a navigation asks for (50) and a limit
the tolerance of the policy's monitor would still pass.

## Fairness

- `TaskOrchestrator`: weak fairness of each call's own steps. The operating system
  schedules the thread, and both waits of a port are bounded, so a call may always
  go on by giving up. Nothing is assumed of servers, of the caller's flag, or
  of feedback.
- `TaskServer`: weak fairness of the task threads' steps that change their place;
  that `execute()` returns is what `ImplementsContract` establishes. No
  callback need ever arrive.
- `HealthMonitor`: `read()` is called periodically and publishes, the node's
  executor spins, a thread inside `raise()` is scheduled. That the RT loop
  misses, fails, stops or starts is never assumed.
- `RtSchedule`: the RT thread is scheduled; nobody need stop it.
- `RtSystem`: the RT thread is scheduled and `exchange()` returns (its contract
  forbids blocking); a call of `controller_manager` that can go on does. No
  transition need ever be requested.
- `AtomicStateBuffer`, `HardwareBus`, `BusPlugins`, `Runtime` and `CapabilityPort`
  have none: the ports' waits end by time-outs, which `TaskOrchestrator` and its
  liveness already rely on.

## Proofs

`tlapm` checks every step; no theorem rests on anything but the named
assumptions on constants in the modules (a period is positive, a plan has between
1 and `MaxSteps` steps, `Empty` is not a number, ...). "For every value" includes the
bounds: numbers of calls, joints, cycles and activations, and lengths of time, are arbitrary.

**`TaskOrchestrator_proofs`** — `TypeCorrect`, `StopBoundsStarts`, `PlansFollowed`,
`OrphansAreTimeouts`, `LateFeedbackExplained`, `KeepsContract`, `PortsWellUsed`,
`ExecuteIsBounded`, `WorkGetsDone`, in five layers. `Placed`: which plan, step and port entry fit each place of the code
(past the loop's test, the step is one of the plan's). `Polled`: while motion is
forbidden, a call whose place is between the poll of the gate and `start()` has
sent nothing since, and any other call has sent one goal at most; the same for
the cancel flag. The bound alone is not inductive, because it does not say
whether the call may still send. `Served`: the goals of earlier steps have
succeeded, those of later steps do not exist, and each place allows certain
states of the current one. `Heard`: an entry left in a port's map by a call that
returned is of one that gave up or was canceled, which is what lets a feedback in.
`Told`: a call answers Canceled without an entry only before it sent the step's goal, or
because that goal was reported canceled. `KeepsContract`, the simulation of
`ExecuteContract`, needs it: without it, a goal that ends later could change how the
answer of a call long gone is accounted for. It is `ImplementsContract` without the fairness.
`PortsWellUsed` is the second refinement of the same state: `CapabilityPort`, one port per
call and step. A step of a call drives the port of its current step and leaves the
others as they are, a server's answer moves one port. With `PortsKeepPromise` (below)
both sides of the interface are proved: what the callers ask and what the adapters
keep. `ExecuteIsBounded` is the rank of the loop: 8 per step of the plan left, and the
place in the current one. Its inequalities are the part of termination
that holds for any number of steps; the induction that makes `<>` of them is the one the prover
lacks.

**`TaskServer_proofs`** — `HonestState`, `CancelsHeard`, `CrashesExplained`,
`OverlapFromClaimGap`, `CancelsHonored`, for any number of goals. `Placed`: what a goal's
state is at each place of its thread. `Alone`: without an overlap, only one task is
past its claim, which is why nobody else resets its flag. `StateTrue` and `Flagged` are
what the published state and the cancel flag say of that task, with the callbacks still on
their way. `CancelsHonored` is about a stretch of a behaviour: `Honoring` (CANCELING
before the end is decided, on the way to `canceled()`, or CANCELED) is stable. `GoalsEnd` follows
a thread from place to place (`OneOnward`: it stays or goes on, whoever steps; `EndsOnward`:
its own step takes it on).

**`HealthMonitor_proofs`** — `ModeAgreesWithCode`, `TaskFaultsStay`, `MotionIsWithheld`,
`RtFaultsClear`, for any number of raising threads. `Erring`: while an error is
reported, the mode is Fault or the monitor's own `raise()` is about to make it so.
`Agreeing`: a code stands for a Fault now, or one that a `raise()` under way will bring;
agreement at rest alone says nothing of the two writes of `raise()` and
`clear()`. `Latched`: the same for the open fault of a task. `RtFaultsClear` is a chain of
three: every message of a calm loop is the same, and the topic comes to hold no other
(`TopicTurnsFresh`); the callback that receives one takes its counter for the baseline, after
at most one more fault for the misses before, and raises nothing from then on
(`MonitorSettles`); the callback after that finds the mode Fault, since an RT code implies it
whoever else raises (`CodeStands`), and clears the code. `FailuresAreHeard` follows one failed
exchange: as long as the loop runs its error stays set (`FailureKept`), the topic
turns to messages that carry it, and the callback that receives one closes the gate
(`Telling`, `Alarmed`), or found it closed.

**`RtSchedule_proofs`** — `TypeCorrect`, `NeverAhead`, `NeverInflated`, `BurstFree`,
`FittingCyclesKeepPhase`, `StopIsObeyed`. `OnSchedule`: at work, the tick of the cycle has been reached, and no tick
served two cycles; hence at most one cycle per period. `Since` and `AfterBegin` say
the same from a later moment on: from the last measurement, and from the previous begin,
where a late wake-up may have used up one tick. `FittingCyclesKeepPhase` needs more than
`EveryTickServed` says: how late a begin, an end and a wake-up can be at each place
(`InTime`), which together leave the next tick ahead.

**`AtomicStateBuffer_proofs`** — `Skew`, `Forward`.
`TwoCycles`: the writer's fields hold the current cycle up to `w` and the one before
after it. `Behind`: nothing the reader has is newer than its field is now.

**`RtSystem_proofs`** — `TypeCorrect`, `HonestRunning`, `SoundHandingOn`,
`CommandsKept`, `KeepsBusContract`, `StopsReturn`. `Threaded` (what thread, flag,
`running_` and bus say of each other), `Placed` (where life cycle and calls
leave the bus), `Buffered` (what the buffers hold). The contract has no fairness,
so `Spec => ImplementsBus` is proved in full, by a step-by-step simulation. `StopsReturn`: while
somebody joins, the flag stays up (`FlagStaysUp`), the thread that finds it at the head of
its cycle leaves, and the join and the release follow.

**`BusPlugins_proofs`** — `PluginsSound`, `NeverReenabled`, `CalledInOrder`.
`Owned` (which flags and clocks a plugin's class uses, and what they are where the contract's
calls leave it), `Guarded` (a master that has latched is no longer driven),
`Moved` (every velocity behind the plugin has passed the clamp), `WatchdogExact`
itself. `ClampLimits` and `StdClampLimits` say what the two clamps return for
any limit, NaN included; they rest on NaN being no integer and limits being
doubles. `CalledInOrder` shows that each step of a plugin is a step of `HardwareBus`.

**`Runtime_proofs`** — `ServicesInOrder`, `HonestLedger`, `OnlyAllowedStarts`,
`PortsKeepPromise`. `Arranged`: the prefix of active services, and that none is active in
the states `configure_all()` and `activate_all()` begin in, without which a failed
activation could not be told from an earlier one. `Numbered`: a port's counter is beyond
every id it gave, and which places have an id already; `LedgerHonest` alone
does not exclude a second holder of an id that is not in the map yet. `Placed`: what a call's place
says of its goal. `OnlyAllowedStarts` adds `Earned` (a call under way has been admitted
by what was built from the documents, a goal sent is one its adapter can execute) and lemmas
about the pure operators: what a key that is read or missing comes to (`KeyRead`,
`KeyMissing`), that a profile or a runtime that passed its reader is legal key by key (`LoadedJoints`,
`LoadedProfile`, `LoadedRuntime`), and what builder, planners and policy let
through. `CapabilityPort` has no fairness, so the refinement is proved in full, one step of an adapter at a
time. Sizes of arrays are natural numbers and limits are doubles; no
other fact about documents is assumed.

**Liveness.** `StopsReturn`, `GoalsEnd`, `RtFaultsClear`, `FailuresAreHeard` and
`WorkGetsDone` are theorems `Spec /\ []NeverStuck => P`. `Spec` has the weak fairness; the chain from step to step
is proved. `NeverStuck` is an invariant of a run of the same module and says that a step the
chain waits for is enabled, the one thing the prover cannot look into (`ENABLED`); TLC evaluates
it in every reachable state of the instance. It is not the conclusion in another form: a thread
that can always step may still go round for ever, and the mutants that break one of the two
(a thread that takes a lock twice, a goal whose end is forgotten) are
different ones for the most part. `StopIsObeyed` has `CanStep` in its place, which says no more
than that an action of the RT thread whose guard holds is enabled. It is
no property of a run; TLC checks the conclusion, `StopLeaves`.
`WorkGetsDone` says of a call with `n` steps left that it comes to have fewer, for every
`n` and whatever the other calls, the servers, the flag and the faults do. That is the
premise of the rule for well-founded orders; with it, and with `WorkLeft` a natural number
that nobody raises (`ExecuteIsBounded`), only the rule's induction is missing from a proof that
calls return.

Only model-checked:

- the facts about `ENABLED` in the four `NeverStuck` (`TaskOrchestrator`, `TaskServer`, `HealthMonitor`,
  `RtSystem`); those of `CanStep` (`RtSchedule_proofs`) restate guards and are assumed;
- the fairness of `ImplementsContract`, that a call returns: the induction that leads
  there from `WorkGetsDone` is over any number of steps, which is out of the provers' reach.

## What the models show about the code

Three runs end in a violation of something the repository says; `PROJECT.json`
quotes it.

- **`task_server_cancel`** (`task_orchestrator_node.cpp:138`). The flag goes up before the goal is
  CANCELING. A thread that polls in between gets Canceled and calls `canceled()`
  on an EXECUTING goal: an exception in a detached thread.
- **`rt_schedule_phase`** (`rt_control_loop.cpp:189`). After an overrun the cycle
  of the slot already begun starts at once, so exchanges that always overrun make a
  free-running loop, which the comment says the skipping avoids. `FittingCyclesKeepPhase`
is the converse: where work and late wake-ups fit into the period, no tick is ever lost.
- **`rt_system_restart`** (`rt_mobile_manipulator_system.cpp:122`). A reactivation starts a bus that
  `stop()` told to release its resources, without configuring it.

Properties that hold also describe limits: two tasks can overlap in the claim
gap, a task fault can be cleared by the monitor, a time-out leaves a goal running.
Each is stated as the exact condition under which it happens.

Noticed while modelling, and of a kind no run would add to:

- `docs/INTEGRATION_GUIDE.md:160` has a gate without policies refuse every execution. The
  gate does; a runtime never has such a gate, since the builder adds a default
  policy to a configuration without any (`runtime_builder.cpp:84`).
- `.nan` is a valid limit for `ProfileValidator` and for the policy, both of which look for
  what is wrong with a number; `StartedIsAllowed` names it as its exception.
- `last_error_` (`rt_control_loop.cpp:207`) is never emptied: after one failed exchange
  RT_LOOP_ERROR stands until the next `on_configure`. No text says otherwise, and
  `FailureIsHeard` rests on it.
- A negative `max_velocity` turns every command, 0 included, into full speed
  (`LimitHolds` excludes it; nothing refuses it).
- A `loop_hz` that is NaN or above 10^9 passes `rt_control_loop.cpp:42` and gives
  a period of zero, which `RtSchedule` excludes by its assumption.
- The files of motor models are searched with regular expressions, so lines that are comments count.

## Not modelled

- `SetTaskMode`, whose mode nothing reads; the publication of `/task/state`; the 200 ms
  health message and the monitor's own life cycle. They only report.
- A null planner, which the builder cannot produce.
- The verdict of `SafetyGate::monitor`, which the code discards. The model is the
  same with or without the call.
- Coordinates, texts, progress numbers, unit conversions, and parsing as such:
  a document is what its keys say, a failure to parse a failure of the action that
  parses. Of URDF parameters, those a plugin reads are in `params`.
- Effort limits, which are limited as velocities are; `enable` and `operation_mode`,
  which pass through.
- The EtherCAT master and `rclcpp_action`, which are external and modelled from
  how the code uses them.
- `SCHED_FIFO`, cycle durations, and the memory orders below release/acquire of the
  statistics, which are single values read one at a time.
- Several deviations in one document, and exceptions of `async_cancel_goal()`.
- The mock servers are the friendliest case of the servers modelled; launch files,
  descriptions and generated messages have no state.

## Plan

Every module of the earlier plans is written. Every property a passing run checks is stated by a
theorem, except `NeverStuck` and the fairness in `ImplementsContract`. What is left is
the composition of `TaskOrchestrator` and `HealthMonitor` over one `FaultManager`: how
long a task may go on after an RT error. Each of them already meets every other user of the
`FaultManager`: the orchestrator in `OtherFaults`, the monitor in its raising threads.
