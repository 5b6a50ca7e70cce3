---------------------------- MODULE RuntimeBuilder ----------------------------
(***************************************************************************)
(* RuntimeConfigLoader, ProviderRegistry with the built-in providers, and  *)
(* RuntimeBuilder::build: what becomes of a profile and a runtime document.*)
(* Documents are as in RobotProfile; "untyped" is the section of a         *)
(* provider that names no type.  A missing section of a provider leaves    *)
(* the empty type, which nothing is registered for.                        *)
(*                                                                         *)
(* LoadsAnyPlugin and BuildableUnguarded are faulty variants of LoadsConfig*)
(* and Buildable; nothing uses them.                                       *)
(***************************************************************************)
EXTENDS SafetyGate, TaskPlanner

CONSTANT HasNav2   \* was the adapter compiled with nav2_msgs?

ASSUME HasNav2Assumption == HasNav2 \in BOOLEAN

\* struct RuntimeConfig before anything is read.
NoConfig ==
  [schema_version |-> 0, plugin |-> "", navigation |-> "", manipulation |-> "",
   policies |-> <<>>, planner |-> "simple"]

ProviderType(section) == IF section = "untyped" THEN "ros_action" ELSE section

Config(doc) ==
  LET read == Read(doc, NoConfig)
  IN  [read EXCEPT !.navigation = ProviderType(@), !.manipulation = ProviderType(@)]

LoadsAnyPlugin(doc) ==
  /\ ~Unversioned(doc) /\ ~Throws(doc)
  /\ Config(doc).schema_version = 1

LoadsConfig(doc) ==
  /\ ~Unversioned(doc) /\ ~Throws(doc)
  /\ Config(doc).schema_version = 1
  /\ Config(doc).plugin # ""

\* register_builtin_providers: the classes behind the types.
NavigationProviders ==
  IF HasNav2
    THEN [mock |-> "MockNavigationPort", ros_action |-> "RosActionNavigationPort",
          nav2 |-> "Nav2NavigationPort"]
    ELSE [mock |-> "MockNavigationPort", ros_action |-> "RosActionNavigationPort"]

ManipulationProviders ==
  [mock |-> "MockManipulationPort", ros_action |-> "RosActionManipulationPort",
   follow_joint_trajectory |-> "FollowJointTrajectoryManipulationPort",
   moveit |-> "FollowJointTrajectoryManipulationPort"]

Planners == {"simple", "yaml_graph"}

\* A policy that is not registered is looked for among the plugins, which export
\* the one policy under the first of these names only.
PolicyNames == {"robot_safety/VelocityLimitPolicy", "VelocityLimitPolicy"}

\* A configuration without policies gets the default one.
Policies(config) ==
  IF config.policies = <<>> THEN <<"robot_safety/VelocityLimitPolicy">> ELSE config.policies

PlannerType(config) == IF config.planner = "" THEN "simple" ELSE config.planner

BuildableUnguarded(config) ==
  /\ config.navigation \in DOMAIN NavigationProviders
  /\ config.manipulation \in DOMAIN ManipulationProviders
  /\ PlannerType(config) \in Planners

Buildable(config) ==
  /\ config.navigation \in DOMAIN NavigationProviders
  /\ config.manipulation \in DOMAIN ManipulationProviders
  /\ \A i \in DOMAIN Policies(config) : Policies(config)[i] \in PolicyNames
  /\ PlannerType(config) \in Planners

\* build_from_files: the runtime, or Refused for the first thing that is wrong.
Build(profile_doc, runtime_doc) ==
  LET profile == Profile(profile_doc)
      config  == Config(runtime_doc)
  IN  IF LoadsProfile(profile_doc) /\ LoadsConfig(runtime_doc) /\ Buildable(config)
        THEN [profile      |-> profile,
              navigation   |-> NavigationProviders[config.navigation],
              manipulation |-> ManipulationProviders[config.manipulation],
              policies     |-> {[linear  |-> profile.max_linear_velocity,
                                 angular |-> profile.max_angular_velocity]},
              planner      |-> PlannerType(config)]
        ELSE Refused

===============================================================================
