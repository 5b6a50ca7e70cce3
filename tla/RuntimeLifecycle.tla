--------------------------- MODULE RuntimeLifecycle ---------------------------
(***************************************************************************)
(* RuntimeLifecycle: the services of a runtime, configured and activated   *)
(* in the order they were added, deactivated and cleaned up in reverse.    *)
(* Any of them may fail; the call stops there, leaves the others as they   *)
(* are and goes to Error.                                                  *)
(*                                                                         *)
(* Calls come one after the other from the thread that owns the runtime:   *)
(* configure once, activate, deactivate, cleanup.  deactivate may follow   *)
(* an activate that has failed, the one way to take the services that did  *)
(* activate down again; the repository makes the first two calls and offers*)
(* the others.  DeactivatedForward is a faulty variant of Deactivated; no  *)
(* action uses it.                                                         *)
(***************************************************************************)
EXTENDS Naturals

CONSTANT Participants   \* how many services were added

ASSUME ParticipantsAssumption == Participants \in Nat

VARIABLES
  service,   \* the state of each service
  state_     \* RuntimeLifecycle::state_

lifecycleVars == <<service, state_>>

Service      == 1 .. Participants
ServiceState == {"unconfigured", "inactive", "active", "finalized"}

LifecycleInit ==
  /\ service = [s \in Service |-> "unconfigured"]
  /\ state_ = "Unconfigured"

\* The services of todo reach the state to.
Reached(todo, to) == [s \in Service |-> IF s \in todo THEN to ELSE service[s]]

\* The loops, up to a service k that fails; past the last one none has.
Forward(k)            == {s \in Service : s < k}
Backward(k)           == {s \in Service : s > k}
DeactivatedForward(k) == Forward(Participants + 1 - k)
Deactivated(k)        == Backward(k)

configure_all ==
  /\ state_ = "Unconfigured"
  /\ \E k \in 1 .. Participants + 1 :
       /\ service' = Reached(Forward(k), "inactive")
       /\ state_' = IF k \in Service THEN "Error" ELSE "Inactive"

activate_all ==
  /\ state_ \in {"Inactive", "Unconfigured"}
  /\ \E k \in 1 .. Participants + 1 :
       /\ service' = Reached(Forward(k), "active")
       /\ state_' = IF k \in Service THEN "Error" ELSE "Active"

\* Services that are not active yet are told to deactivate, too, and are inactive
\* afterwards.
deactivate_all ==
  /\ state_ \in {"Active", "Error"}
  /\ \A s \in Service : service[s] \in {"inactive", "active"}
  /\ \E k \in 0 .. Participants :
       /\ service' = Reached(Deactivated(k), "inactive")
       /\ state_' = IF k \in Service THEN "Error" ELSE "Inactive"

cleanup_all ==
  /\ state_ \in {"Inactive", "Error"}
  /\ \A s \in Service : service[s] # "active"
  /\ \E k \in 0 .. Participants :
       /\ service' = Reached(Backward(k), "finalized")
       /\ state_' = IF k \in Service THEN "Error" ELSE "Finalized"

LifecycleTypeOK ==
  /\ service \in [Service -> ServiceState]
  /\ state_ \in {"Unconfigured", "Inactive", "Active", "Error", "Finalized"}

\* Whatever fails, a service is active only while all services added before it
\* are: a service can rely on them from its activation to its deactivation, also
\* in an Error that leaves some of them up.
ActivePrefix ==
  \A s, r \in Service : s < r /\ service[r] = "active" => service[s] = "active"

\* The life cycle is Active, and the node serves goals, only with every service up.
ActiveIsComplete ==
  state_ = "Active" => \A s \in Service : service[s] = "active"

===============================================================================
