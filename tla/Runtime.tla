------------------------------- MODULE Runtime --------------------------------
(***************************************************************************)
(* The task side as a whole, from its two configuration files to the goals *)
(* it starts: TaskOrchestratorNode::initialize builds the runtime, brings  *)
(* its services up and opens /task/execute; a call of execute() plans an   *)
(* instruction, has a step admitted by the gate and starts it on a port.   *)
(*                                                                         *)
(* One step stands for the steps of a plan: in which order they follow is  *)
(* in TaskOrchestrator, whose fault manager and cancel flag are not        *)
(* repeated here (cancellation is the choice between Cancel and BeginWait).*)
(* A plan that is refused and a step that is denied start nothing and      *)
(* leave all of this state as it is.                                       *)
(***************************************************************************)
EXTENDS RuntimeBuilder, RuntimeLifecycle, ActionPort

CONSTANTS
  Inputs,         \* pairs of documents the node may be started with
  Instructions,   \* sets of keywords, for the planner of instructions
  Files           \* sequences of steps, for the planner of graphs

NumericKey == {"max_linear_velocity", "max_angular_velocity", "payload_kg",
               "limit_lower", "limit_upper", "max_effort", "max_velocity"}

\* as<double>() yields a number, or throws; sizes of arrays are no less than 0.
ASSUME InputsAssumption ==
  \A i \in Inputs : \A key \in NumericKey \cap DOMAIN i.profile :
    i.profile[key] \in Double \cup {Malformed}

ASSUME FilesAssumption ==
  \A file \in Files \ {Malformed} : \A i \in DOMAIN file : file[i].names \in Nat

VARIABLES
  input,     \* the two documents
  node,      \* how far the node has come
  runtime    \* the RobotRuntime it has built

runtimeVars == <<input, node, runtime>>
vars == <<runtimeVars, lifecycleVars, actionVars>>

Init ==
  /\ input \in Inputs /\ node = "starting" /\ runtime = Refused
  /\ LifecycleInit /\ ActionInit
  /\ class_ = [p \in Port |-> "none"]

\* initialize() throws for whatever is not ok, and main() returns 1.
BuildRuntime ==
  /\ node = "starting"
  /\ runtime' = Build(input.profile, input.runtime)
  /\ IF runtime' = Refused
       THEN node' = "exited" /\ UNCHANGED class_
       ELSE /\ node' = "built"
            /\ class_' = [navigation   |-> runtime'.navigation,
                          manipulation |-> runtime'.manipulation]
  /\ UNCHANGED <<input, lifecycleVars, callVars, goal, ledgerVars>>

Configure ==
  /\ node = "built"
  /\ configure_all
  /\ node' = IF state_' = "Inactive" THEN "configured" ELSE "exited"
  /\ UNCHANGED <<input, runtime, actionVars>>

Activate ==
  /\ node = "configured"
  /\ activate_all
  /\ node' = IF state_' = "Active" THEN "serving" ELSE "exited"
  /\ UNCHANGED <<input, runtime, actionVars>>

\* What is offered to the owner of a runtime that takes it down again.
TakeDown ==
  /\ node \in {"serving", "exited"} /\ runtime # Refused
  /\ \A c \in Call : at[c] \in {"idle", "done"}
  /\ deactivate_all \/ cleanup_all
  /\ node' = "exited"
  /\ UNCHANGED <<input, runtime, actionVars>>

Plans ==
  IF runtime.planner = "simple"
    THEN {SimplePlan(runtime.profile, i) : i \in {w \in Instructions : ParsesInstruction(w)}}
    ELSE {GraphPlan(runtime.profile, f) : f \in Files}

\* The steps of the plans that are not refused.
PlannedSteps == UNION {{plan[i] : i \in DOMAIN plan} : plan \in Plans \ {Refused}}

BeginStep(c) ==
  /\ node = "serving"
  /\ \E st \in PlannedSteps, estop \in BOOLEAN :
       /\ GateAdmits(runtime.policies, Requested(st.kind),
                     [state_known |-> TRUE, estop_active |-> estop])
       /\ Start(c, st)
  /\ UNCHANGED <<runtimeVars, lifecycleVars>>

CallStep(c) ==
  /\ Adapter(c) \/ Capability(c)
  /\ UNCHANGED <<runtimeVars, lifecycleVars>>

Terminated ==
  /\ \/ runtime = Refused /\ node = "exited"
     \/ state_ \in {"Error", "Finalized"}
     \/ \A c \in Call : at[c] # "idle"
     \/ node = "serving" /\ PlannedSteps = {}
  /\ UNCHANGED vars

Next ==
  \/ BuildRuntime \/ Configure \/ Activate \/ TakeDown
  \/ \E c \in Call : BeginStep(c) \/ CallStep(c)
  \/ Terminated

Spec == Init /\ [][Next]_vars

-------------------------------------------------------------------------------
(* Properties.                                                             *)

TypeOK ==
  /\ input \in Inputs
  /\ node \in {"starting", "built", "configured", "serving", "exited"}
  /\ LifecycleTypeOK /\ ActionTypeOK

\* What the two documents must say, key by key, for the node to start with them.
\* A key that is left out is legal wherever its default is.
Positive(doc, keys) == \A key \in keys \cap DOMAIN doc : doc[key] = NaN \/ doc[key] > 0

LegalJoints(doc) ==
  LET lower == IF "limit_lower" \in DOMAIN doc THEN doc.limit_lower ELSE -6
      upper == IF "limit_upper" \in DOMAIN doc THEN doc.limit_upper ELSE 8
  IN  /\ \A i \in DOMAIN doc.names : doc.names[i] # ""
      /\ "unit" \in DOMAIN doc => doc.unit \in {"meter", "radian"}
      /\ "type" \in DOMAIN doc => doc.type \in {"revolute", "prismatic", "mixed"}
      /\ NaN \notin {lower, upper} /\ lower < upper
      /\ Positive(doc, {"max_effort", "max_velocity"})

LegalProfile(doc) ==
  /\ {"schema_version", "model", "max_linear_velocity", "max_angular_velocity"}
       \subseteq DOMAIN doc
  /\ \A key \in DOMAIN doc : doc[key] # Malformed
  /\ doc.schema_version = 1
  /\ \A key \in {"model", "base", "map"} \cap DOMAIN doc : doc[key] # ""
  /\ Positive(doc, {"max_linear_velocity", "max_angular_velocity"})
  /\ "payload_kg" \in DOMAIN doc => doc.payload_kg = NaN \/ doc.payload_kg >= 0
  /\ "names" \in DOMAIN doc /\ doc.names # <<>> => LegalJoints(doc)

LegalRuntime(doc) ==
  /\ {"schema_version", "plugin", "navigation", "manipulation"} \subseteq DOMAIN doc
  /\ \A key \in DOMAIN doc : doc[key] # Malformed
  /\ doc.schema_version = 1 /\ doc.plugin # ""
  /\ doc.navigation \in {"mock", "ros_action", "nav2", "untyped"}
  /\ doc.navigation = "nav2" => HasNav2
  /\ doc.manipulation \in
       {"mock", "ros_action", "follow_joint_trajectory", "moveit", "untyped"}
  /\ "policies" \in DOMAIN doc =>
       \A i \in DOMAIN doc.policies :
         doc.policies[i] \in {"robot_safety/VelocityLimitPolicy", "VelocityLimitPolicy"}
  /\ "planner" \in DOMAIN doc => doc.planner \in {"", "simple", "yaml_graph"}

Within(requested, limit) == limit = NaN \/ requested <= limit

\* The guide asks that illegal fields of a profile fail at startup and that motion
\* stays within it.  Said of the documents as they are written: no goal is ever
\* started under a profile or a runtime document with anything in it that a reader
\* or the builder has to refuse, for a capability the profile does not declare, for a
\* trajectory the arm could not follow, or faster than the limits, unless the limit
\* is .nan, which passes every test there is.
StartedIsAllowed ==
  \A c \in Call : goal[c] # "none" =>
    LET doc == input.profile
    IN  /\ LegalProfile(doc) /\ LegalRuntime(input.runtime)
        /\ LET capability == On(c) IN capability \in DOMAIN doc /\ doc[capability]
        /\ Within(Requested(step[c].kind).linear, doc.max_linear_velocity)
        /\ Within(Requested(step[c].kind).angular, doc.max_angular_velocity)
        /\ class_[On(c)] = "FollowJointTrajectoryManipulationPort" =>
             step[c].positions > 0 /\ step[c].names \in {0, step[c].positions}

\* The services of the runtime: prefix of what is up, and complete while serving.
LifecycleSound == ActivePrefix /\ ActiveIsComplete

\* The ports' own invariant, with the types.
PortInv == TypeOK /\ LedgerHonest

===============================================================================
