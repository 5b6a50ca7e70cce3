------------------------------- MODULE MCRuntime ------------------------------
(***************************************************************************)
(* Two calls and two services.  One of the documents is good and the other *)
(* deviates from a good one in one key, or both are good and name any pair *)
(* of providers and any planner.  The limit 47 lies between what is asked  *)
(* for, 50, and what the tolerance of the monitor would let pass, 51.7.    *)
(***************************************************************************)
EXTENDS Runtime, TLC

CONSTANTS c1, c2

MCCall == {c1, c2}
MCSymmetry == Permutations(MCCall)   \* no property of the run is a liveness property
MCParticipants == 2
MCHasNav2 == TRUE

GoodProfile ==
  [schema_version |-> 1, model |-> "m", navigation |-> TRUE, manipulation |-> TRUE,
   max_linear_velocity |-> 100, max_angular_velocity |-> 150, names |-> <<"j1">>]
GoodRuntime ==
  [schema_version |-> 1, plugin |-> "bus", navigation |-> "mock", manipulation |-> "mock"]

Without(doc, key) == [k \in DOMAIN doc \ {key} |-> doc[k]]
Altered(doc, values) ==
  {Without(doc, key) : key \in DOMAIN doc}
  \cup UNION {{(key :> v) @@ doc : v \in values[key]} : key \in DOMAIN values}

Profiles == Altered(GoodProfile,
  [schema_version |-> {2, Malformed}, model |-> {""}, unread |-> {Malformed},
   base |-> {""}, map |-> {""}, navigation |-> {FALSE}, manipulation |-> {FALSE},
   max_linear_velocity |-> {-1, 0, 47, 50, NaN, Malformed},
   max_angular_velocity |-> {0, 29, 30, NaN}, payload_kg |-> {-1, NaN},
   names |-> {<<>>, <<"j1", "">>}, unit |-> {"inch"}, type |-> {"other"}, limit_lower |-> {8, NaN},
   limit_upper |-> {-6, NaN}, max_effort |-> {0, NaN}, max_velocity |-> {0}])

Runtimes == Altered(GoodRuntime,
  [schema_version |-> {0}, plugin |-> {""}, navigation |-> {"", "other", "untyped"},
   manipulation |-> {"other", "untyped"}, planner |-> {"", "other", Malformed},
   policies |-> {<<"VelocityLimitPolicy">>, <<"VelocityLimitPolicy", "other">>}])

Served ==
  [schema_version : {1}, plugin : {"bus"}, navigation : {"mock", "ros_action", "nav2"},
   manipulation : {"mock", "ros_action", "moveit"}, planner : {"simple", "yaml_graph"}]

MCInputs ==
  [profile : Profiles, runtime : {GoodRuntime}]
  \cup [profile : {GoodProfile}, runtime : Runtimes \cup Served]

MCInstructions == {{}, {"empty"}, {"go"}, {"pick"}}

Arm(n, p, v) == [kind |-> "manipulate", names |-> n, positions |-> p, velocities |-> v]
MCFiles ==
  {Malformed, <<>>, <<PlainStep("navigate"), Arm(2, 2, 0)>>, <<Arm(0, 4, 4)>>,
   <<Arm(2, 2, 1)>>, <<Arm(2, 1, 0)>>, <<PlainStep("navigate"), PlainStep("other")>>}

===============================================================================
