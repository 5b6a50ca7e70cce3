----------------------------- MODULE TaskPlanner ------------------------------
(***************************************************************************)
(* InstructionParser and the two planners: which steps an instruction      *)
(* becomes, given the capabilities of the profile.                         *)
(*                                                                         *)
(* An instruction is the set of the keywords its text contains (empty is   *)
(* "", other a text without any), except for the planner of graphs, for    *)
(* which it names a file; a file is a sequence of step nodes, or Malformed.*)
(* Of a step the kind is kept, and the sizes of its joint arrays: poses,   *)
(* labels and skills go to the backends unread.  A planner returns the     *)
(* sequence of steps, or Refused.                                          *)
(***************************************************************************)
EXTENDS RobotProfile, Sequences

CONSTANT Refused

PlainStep(kind) == [kind |-> kind, names |-> 0, positions |-> 0, velocities |-> 0]

ParsesInstruction(instruction) == instruction # {"empty"}

NeedsManipulation(words) == words \cap {"pick", "grasp", "place"} # {}
NeedsNavigation(words) ==
  words \cap {"go", "navigate", "table"} # {} \/ NeedsManipulation(words)

\* SimpleTaskPlanner::plan: to the object, then the object; never joint targets.
SimplePlan(profile, words) ==
  IF \/ NeedsNavigation(words) /\ ~profile.navigation
     \/ NeedsManipulation(words) /\ ~profile.manipulation
     \/ ~NeedsNavigation(words)
    THEN Refused
    ELSE IF NeedsManipulation(words)
      THEN <<PlainStep("navigate"), PlainStep("manipulate")>>
      ELSE <<PlainStep("navigate")>>

Capable(profile, kind) ==
  \/ kind = "navigate" /\ profile.navigation
  \/ kind = "manipulate" /\ profile.manipulation

\* YamlGraphPlanner::load_file: every step of an unknown kind, or of a kind the
\* robot is not capable of, refuses the graph.
GraphPlan(profile, file) ==
  IF file = Malformed \/ file = <<>> THEN Refused
  ELSE IF \A i \in DOMAIN file : Capable(profile, file[i].kind) THEN file ELSE Refused

===============================================================================
