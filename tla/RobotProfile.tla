----------------------------- MODULE RobotProfile -----------------------------
(***************************************************************************)
(* ProfileLoader and ProfileValidator: from a YAML document to the facts   *)
(* about a robot that the rest of the runtime is built on.                 *)
(*                                                                         *)
(* A document is a function from the keys it has to their values; a key    *)
(* that is left out keeps the default of struct RobotProfile.  Sections    *)
(* are flattened: a missing section is one whose keys are all missing      *)
(* (without the section robot there is no model, and both are refused).    *)
(* Malformed is a value the as<T>() of its key throws on, NaN is .nan;     *)
(* other numbers are integers, velocities in hundredths.  Keys that nobody *)
(* reads (variant, tool, gripper ...) are represented by unread.           *)
(*                                                                         *)
(* NamedJoints and ValidLimits are faulty variants of ValidJoints and      *)
(* Valid; nothing uses them.                                               *)
(***************************************************************************)
EXTENDS Doubles

CONSTANT Malformed

\* struct RobotProfile before anything is read.
NoProfile ==
  [schema_version |-> 0, model |-> "", unread |-> "",
   navigation |-> FALSE, manipulation |-> FALSE,
   base |-> "base_link", map |-> "map",
   max_linear_velocity |-> 0, max_angular_velocity |-> 0, payload_kg |-> 0,
   names |-> <<>>, unit |-> "meter", type |-> "revolute",
   limit_lower |-> -6, limit_upper |-> 8, max_effort |-> 100000, max_velocity |-> 100]

\* The keys are read one by one; what is there replaces the default.
Read(doc, defaults) ==
  [key \in DOMAIN doc \cup DOMAIN defaults |->
     IF key \in DOMAIN doc THEN doc[key] ELSE defaults[key]]

Profile(doc) == Read(doc, NoProfile)

\* The one key both readers ask for, and an as<T>() that throws.
Unversioned(doc) == "schema_version" \notin DOMAIN doc
Throws(doc)      == \E key \in DOMAIN doc : doc[key] = Malformed

NamedJoints(p) ==
  /\ \A i \in DOMAIN p.names : p.names[i] # ""
  /\ p.unit \in {"meter", "radian"}
  /\ p.type \in {"revolute", "prismatic", "mixed"}

ValidJoints(p) ==
  /\ \A i \in DOMAIN p.names : p.names[i] # ""
  /\ p.unit \in {"meter", "radian"}
  /\ p.type \in {"revolute", "prismatic", "mixed"}
  /\ Less(p.limit_lower, p.limit_upper)
  /\ ~Leq(p.max_effort, 0) /\ ~Leq(p.max_velocity, 0)

ValidLimits(p) ==
  /\ p.schema_version = 1
  /\ p.model # ""
  /\ ~Leq(p.max_linear_velocity, 0)
  /\ ~Leq(p.max_angular_velocity, 0)
  /\ p.names # <<>> => ValidJoints(p)

\* ProfileValidator::validate.  The tests look for what is wrong with a number,
\* and nothing is ever wrong with NaN.
Valid(p) ==
  /\ p.schema_version = 1
  /\ p.model # ""
  /\ p.base # "" /\ p.map # ""
  /\ ~Leq(p.max_linear_velocity, 0)
  /\ ~Leq(p.max_angular_velocity, 0)
  /\ ~Less(p.payload_kg, 0)
  /\ p.names # <<>> => ValidJoints(p)

LoadsProfile(doc) == ~Unversioned(doc) /\ ~Throws(doc) /\ Valid(Profile(doc))

===============================================================================
