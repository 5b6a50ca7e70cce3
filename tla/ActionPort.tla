------------------------------ MODULE ActionPort ------------------------------
(***************************************************************************)
(* The six adapters behind INavigationPort and IManipulationPort, each     *)
(* used by any number of calls at the same time: the ids a port hands out, *)
(* goals_, the map from ids to goal handles, and what start(), cancel()    *)
(* and wait() make of what the capability does.                            *)
(*                                                                         *)
(* Four of the adapters are clients of an action server and differ in what *)
(* they refuse before they send a goal and in how they read a result; two  *)
(* are mocks that pretend.  The orchestrator's use of a port is part of    *)
(* the model: start, then cancel or wait, once, on the id start returned.  *)
(* A goal may be canceled by anyone who knows the server, so a cancel      *)
(* request that is sent, late or lost needs no state of its own.           *)
(*                                                                         *)
(* StaleId is a faulty variant of FreshId; no action uses it.              *)
(***************************************************************************)
EXTENDS Naturals, FiniteSets

CONSTANTS
  Call,     \* the calls of the ports, one goal each
  NoStep    \* what a call has to do before it is given a step

VARIABLES
  class_,      \* the adapter behind each of the two ports
  at,          \* where each call is
  step,        \* the step it was given
  id,          \* the GoalId it holds; 0 for none
  goal,        \* its goal, as the capability sees it
  result,      \* the Status returned
  next_id_,    \* of each port
  goals_,      \* of each port: a function from ids to calls; canceled_ of a mock
  canceled_    \* the ids a mock has been told to cancel, of each port

callVars   == <<at, step, id, result>>
ledgerVars == <<next_id_, goals_, canceled_>>
actionVars == <<class_, callVars, goal, ledgerVars>>

Port == {"navigation", "manipulation"}

On(c) == IF step[c].kind = "navigate" THEN "navigation" ELSE "manipulation"

CallPC   == {"idle", "starting", "asking", "numbered", "pretending", "started",
             "waiting", "done"}
Backend  == {"executing", "canceling", "succeeded", "unsuccessful", "aborted", "canceled"}
GoalEnd  == {"succeeded", "unsuccessful", "aborted", "canceled"}
Result   == {"none", "Ok", "Canceled", "Failed", "Timeout"}

ActionInit ==
  /\ at = [c \in Call |-> "idle"] /\ step = [c \in Call |-> NoStep]
  /\ id = [c \in Call |-> 0]
  /\ goal = [c \in Call |-> "none"] /\ result = [c \in Call |-> "none"]
  /\ next_id_ = [p \in Port |-> 1] /\ goals_ = [p \in Port |-> <<>>]
  /\ canceled_ = [p \in Port |-> {}]

Return(c, st) ==
  /\ at' = [at EXCEPT ![c] = "done"]
  /\ result' = [result EXCEPT ![c] = st]

-------------------------------------------------------------------------------
(* What both kinds of adapter do.                                          *)

Start(c, st) ==
  /\ at[c] = "idle"
  /\ at' = [at EXCEPT ![c] = "starting"]
  /\ step' = [step EXCEPT ![c] = st]
  /\ UNCHANGED <<class_, id, goal, result, ledgerVars>>

\* next_id_.fetch_add(1), in one step ...
StaleId(c) ==
  /\ id' = [id EXCEPT ![c] = next_id_[On(c)]]
  /\ next_id_' = [next_id_ EXCEPT ![On(c)] = 1 + Cardinality(DOMAIN goals_[On(c)])]

FreshId(c) ==
  /\ id' = [id EXCEPT ![c] = next_id_[On(c)]]
  /\ next_id_' = [next_id_ EXCEPT ![On(c)] = @ + 1]

\* ... and the new entry, under the mutex.
Remember(c, key) == goals_' = [goals_ EXCEPT ![On(c)] =
                                 [k \in DOMAIN @ \cup {key} |-> IF k = key THEN c ELSE @[k]]]
Erase(c) == goals_' = [goals_ EXCEPT ![On(c)] =
                         [key \in DOMAIN @ \ {id[c]} |-> @[key]]]

\* wait() looks its id up first.
BeginWait(c) ==
  /\ at[c] = "started"
  /\ IF id[c] \in DOMAIN goals_[On(c)]
       THEN at' = [at EXCEPT ![c] = "waiting"] /\ UNCHANGED result
       ELSE Return(c, "Failed")
  /\ UNCHANGED <<class_, step, id, goal, ledgerVars>>

-------------------------------------------------------------------------------
(* A client of an action server.                                           *)

\* No goal is sent: the step is not sendable, or no server has come up in two
\* seconds.
Refuse(c) ==
  /\ at[c] = "starting"
  /\ Return(c, "Failed")
  /\ UNCHANGED <<class_, step, id, goal, ledgerVars>>

Send(c, sendable) ==
  /\ at[c] = "starting" /\ sendable
  /\ at' = [at EXCEPT ![c] = "asking"]
  /\ goal' = [goal EXCEPT ![c] = "sent"]
  /\ UNCHANGED <<class_, step, id, result, ledgerVars>>

\* Three seconds without an answer, of the server or of the network.
RequestTimesOut(c) ==
  /\ at[c] = "asking"
  /\ Return(c, "Timeout")
  /\ UNCHANGED <<class_, step, id, goal, ledgerVars>>

Rejected(c) ==
  /\ at[c] = "asking" /\ goal[c] = "rejected"
  /\ Return(c, "Failed")
  /\ UNCHANGED <<class_, step, id, goal, ledgerVars>>

Number(c) ==
  /\ at[c] = "asking" /\ goal[c] \in Backend
  /\ at' = [at EXCEPT ![c] = "numbered"]
  /\ FreshId(c)
  /\ UNCHANGED <<class_, step, result, goal, goals_, canceled_>>

StartReturns(c) ==
  /\ at[c] = "numbered"
  /\ at' = [at EXCEPT ![c] = "started"]
  /\ Remember(c, id[c])
  /\ UNCHANGED <<class_, step, id, result, goal, next_id_, canceled_>>

\* async_cancel_goal() sends a request; nobody waits for the answer, and the
\* entry stays.
Cancel(c) ==
  /\ at[c] = "started"
  /\ Return(c, "Canceled")
  /\ UNCHANGED <<class_, step, id, goal, ledgerVars>>

\* The entry stays, and the goal goes on.
WaitTimesOut(c) ==
  /\ at[c] = "waiting"
  /\ Return(c, "Timeout")
  /\ UNCHANGED <<class_, step, id, goal, ledgerVars>>

WaitReturns(c, status) ==
  /\ at[c] = "waiting" /\ goal[c] \in GoalEnd
  /\ Return(c, status)
  /\ Erase(c)
  /\ UNCHANGED <<class_, step, id, goal, next_id_, canceled_>>

ActionClient(c, sendable, status) ==
  \/ Refuse(c) \/ Send(c, sendable)
  \/ RequestTimesOut(c) \/ Rejected(c) \/ Number(c) \/ StartReturns(c)
  \/ Cancel(c) \/ BeginWait(c) \/ WaitTimesOut(c) \/ WaitReturns(c, status)

\* The code of a result decides, and where the result has a flag success of its
\* own, as those of robot_interfaces do, the flag as well.
PlainStatus(end) == CASE end \in {"succeeded", "unsuccessful"} -> "Ok"
                      [] end = "canceled"                      -> "Canceled"
                      [] end = "aborted"                       -> "Failed"

FlaggedStatus(end) == CASE end = "succeeded"                  -> "Ok"
                        [] end = "canceled"                   -> "Canceled"
                        [] end \in {"unsuccessful", "aborted"} -> "Failed"

\* A trajectory has a position, and a velocity if any, for each joint named; the
\* port itself names four joints for a goal that names none.
TrajectoryStep(st) ==
  LET joints == IF st.names = 0 THEN 4 ELSE st.names
  IN  st.positions = joints /\ st.velocities \in {0, joints}

RosActionNavigationPort(c)   == ActionClient(c, TRUE, FlaggedStatus(goal[c]))
Nav2NavigationPort(c)        == ActionClient(c, TRUE, PlainStatus(goal[c]))
RosActionManipulationPort(c) == ActionClient(c, TRUE, FlaggedStatus(goal[c]))
FollowJointTrajectoryManipulationPort(c) ==
  ActionClient(c, TrajectoryStep(step[c]), PlainStatus(goal[c]))

-------------------------------------------------------------------------------
(* The mocks: start() pretends to move while it gives feedback, and the    *)
(* goal is over when it returns.  Its polls of canceled_ find nothing: the *)
(* id is not known outside before.                                         *)

MockStart(c) ==
  /\ at[c] = "starting"
  /\ at' = [at EXCEPT ![c] = "pretending"]
  /\ FreshId(c)
  /\ Remember(c, next_id_[On(c)])
  /\ goal' = [goal EXCEPT ![c] = "executing"]
  /\ UNCHANGED <<class_, step, result, canceled_>>

MockArrives(c) ==
  /\ at[c] = "pretending" /\ goal[c] = "executing"
  /\ id[c] \notin canceled_[On(c)]
  /\ goal' = [goal EXCEPT ![c] = "succeeded"]
  /\ UNCHANGED <<class_, callVars, ledgerVars>>

MockStartReturns(c) ==
  /\ at[c] = "pretending" /\ goal[c] = "succeeded"
  /\ at' = [at EXCEPT ![c] = "started"]
  /\ UNCHANGED <<class_, step, id, result, goal, ledgerVars>>

MockCancel(c) ==
  /\ at[c] = "started"
  /\ Return(c, "Canceled")
  /\ canceled_' = [canceled_ EXCEPT ![On(c)] = @ \cup {id[c]}]
  /\ UNCHANGED <<class_, step, id, goal, next_id_, goals_>>

MockWait(c) ==
  /\ at[c] = "waiting"
  /\ IF id[c] \in canceled_[On(c)]
       THEN Return(c, "Canceled") /\ UNCHANGED goals_
       ELSE Return(c, "Ok") /\ Erase(c)
  /\ UNCHANGED <<class_, step, id, goal, next_id_, canceled_>>

Mock(c) ==
  MockStart(c) \/ MockArrives(c) \/ MockStartReturns(c) \/ MockCancel(c)
  \/ BeginWait(c) \/ MockWait(c)

MockNavigationPort(c)   == Mock(c)
MockManipulationPort(c) == Mock(c)

-------------------------------------------------------------------------------
(* The action servers, of which the mock servers are the friendliest.      *)

ServerAccepts(c) ==
  /\ goal[c] = "sent"
  /\ goal' = [goal EXCEPT ![c] = "executing"]
  /\ UNCHANGED <<class_, callVars, ledgerVars>>

ServerRejects(c) ==
  /\ goal[c] = "sent"
  /\ goal' = [goal EXCEPT ![c] = "rejected"]
  /\ UNCHANGED <<class_, callVars, ledgerVars>>

ServerCancels(c) ==
  /\ goal[c] = "executing"
  /\ goal' = [goal EXCEPT ![c] = "canceling"]
  /\ UNCHANGED <<class_, callVars, ledgerVars>>

Flagged(c) == class_[On(c)] \in {"RosActionNavigationPort", "RosActionManipulationPort"}

\* The server's thread: the goal is over, one way or the other.
ServerEnds(c) ==
  /\ goal[c] \in {"executing", "canceling"}
  /\ \E end \in GoalEnd :
       /\ end = "canceled" => goal[c] = "canceling"
       /\ end = "unsuccessful" => Flagged(c)
       /\ goal' = [goal EXCEPT ![c] = end]
  /\ UNCHANGED <<class_, callVars, ledgerVars>>

Server(c) ==
  ServerAccepts(c) \/ ServerRejects(c) \/ ServerCancels(c) \/ ServerEnds(c)

-------------------------------------------------------------------------------
\* Each call moves by the code of the adapter its port has.
Adapter(c) ==
  /\ at[c] \notin {"idle", "done"}
  /\ LET class == class_[On(c)]
     IN  \/ class = "RosActionNavigationPort" /\ RosActionNavigationPort(c)
         \/ class = "Nav2NavigationPort" /\ Nav2NavigationPort(c)
         \/ class = "MockNavigationPort" /\ MockNavigationPort(c)
         \/ class = "RosActionManipulationPort" /\ RosActionManipulationPort(c)
         \/ class = "FollowJointTrajectoryManipulationPort"
            /\ FollowJointTrajectoryManipulationPort(c)
         \/ class = "MockManipulationPort" /\ MockManipulationPort(c)

IsMock(c) == class_[On(c)] \in {"MockNavigationPort", "MockManipulationPort"}

Capability(c) == step[c] # NoStep /\ ~IsMock(c) /\ Server(c)

ActionTypeOK ==
  /\ at \in [Call -> CallPC]
  /\ DOMAIN step = Call /\ \A c \in Call : at[c] = "idle" => step[c] = NoStep
  /\ id \in [Call -> Nat]
  /\ goal \in [Call -> Backend \cup {"none", "sent", "rejected"}]
  /\ result \in [Call -> Result]
  /\ next_id_ \in [Port -> Nat \ {0}]
  /\ DOMAIN goals_ = Port /\ canceled_ \in [Port -> SUBSET Nat]
  /\ \A p \in Port : /\ DOMAIN goals_[p] \subseteq Nat
                     /\ \A key \in DOMAIN goals_[p] : goals_[p][key] \in Call

\* goals_ of a port is an honest ledger: an id belongs to the one call it was
\* given to, however the calls of start() interleave; a call that may still wait
\* finds its entry; and what stays behind, for as long as the port lives, is the
\* entry of a call that has given its goal up, by a cancellation or a time-out.
LedgerHonest ==
  /\ \A p \in Port : \A key \in DOMAIN goals_[p] :
       LET c == goals_[p][key]
       IN  /\ On(c) = p /\ id[c] = key
           /\ at[c] = "done" => result[c] \in {"Canceled", "Timeout"}
  /\ \A c \in Call :
       at[c] \in {"started", "waiting"} =>
         id[c] \in DOMAIN goals_[On(c)] /\ goals_[On(c)][id[c]] = c

\* What the caller of a port and its capability see of a call.
Phase ==
  [c \in Call |-> IF at[c] \in {"starting", "asking", "numbered", "pretending"}
                    THEN "starting" ELSE at[c]]

Motion ==
  [c \in Call |-> CASE goal[c] \in {"none", "sent", "rejected"} -> "none"
                    [] goal[c] \in {"executing", "canceling"}   -> "running"
                    [] goal[c] \in {"unsuccessful", "aborted"}  -> "failed"
                    [] OTHER                                    -> goal[c]]

Promised == INSTANCE CapabilityPort WITH
  PortCall <- Call, phase <- Phase, motion <- Motion, status <- result

\* Whichever adapter a port has, it keeps what the interface of the port promises.
ImplementsPort == Promised!PortSpec

===============================================================================
