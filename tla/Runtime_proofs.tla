---------------------------- MODULE Runtime_proofs ----------------------------
(***************************************************************************)
(* Proofs about module Runtime, for any number of services and calls, and  *)
(* any documents, instructions and graphs.                                 *)
(*                                                                         *)
(* The parts of the inductive invariant Inv are the types; the services    *)
(* that are up (Arranged); which ids have been handed out, and to whom     *)
(* (Numbered, with LedgerHonest); what a call's place says of its goal     *)
(* (Placed); and that no call is made before the node serves (Quiet).      *)
(* CapabilityPort has no fairness, so the refinement is proved in full.    *)
(***************************************************************************)
EXTENDS Runtime, TLAPS

\* A prefix of the services is up, all of them in Active and none in the states
\* from which configure_all and activate_all begin.
Arranged ==
  /\ ActivePrefix /\ ActiveIsComplete
  /\ state_ \in {"Unconfigured", "Inactive"} => \A s \in Service : service[s] # "active"

Holding == {"numbered", "pretending", "started", "waiting"}

\* An id that was given to a call was given to no other call of its port.
Numbered ==
  /\ \A c \in Call : at[c] \in Holding => id[c] # 0
  /\ \A c \in Call : at[c] \in {"idle", "starting", "asking"} => id[c] = 0
  /\ \A c \in Call : id[c] # 0 => id[c] < next_id_[On(c)]
  /\ \A c, d \in Call : c # d /\ On(c) = On(d) /\ id[c] # 0 => id[c] # id[d]
  /\ \A p \in Port : \A key \in DOMAIN goals_[p] :
       at[goals_[p][key]] \in {"pretending", "started", "waiting", "done"}
  /\ \A c \in Call : at[c] = "pretending" =>
       id[c] \in DOMAIN goals_[On(c)] /\ goals_[On(c)][id[c]] = c

\* Where the call is tells how far its goal is, and a mock has been told to cancel
\* only what its caller has given up.
Placed ==
  /\ \A c \in Call : at[c] \in {"idle", "starting"} => goal[c] = "none"
  /\ \A c \in Call : at[c] = "asking" => ~IsMock(c)
  /\ \A c \in Call : at[c] \in {"numbered", "started", "waiting"} => goal[c] \in Backend
  /\ \A c \in Call : at[c] = "pretending" => IsMock(c) /\ goal[c] \in {"executing", "succeeded"}
  /\ \A c \in Call : at[c] \in {"started", "waiting"} /\ IsMock(c) => goal[c] = "succeeded"
  /\ \A c \in Call : goal[c] = "sent" => at[c] = "asking" \/ result[c] = "Timeout"
  /\ \A c \in Call : goal[c] = "unsuccessful" => Flagged(c)
  /\ \A p \in Port : \A key \in canceled_[p] :
       key \in DOMAIN goals_[p] /\ at[goals_[p][key]] = "done"

\* No call is made before the node serves.
Quiet ==
  node \in {"starting", "built", "configured"} => \A c \in Call : at[c] = "idle"

Inv == TypeOK /\ Arranged /\ Quiet /\ Numbered /\ LedgerHonest /\ Placed

-------------------------------------------------------------------------------
(* Services.                                                               *)

\* What a call of RuntimeLifecycle leaves of the services.
LEMMA ReachedServices ==
  ASSUME service \in [Service -> ServiceState],
         NEW todo, NEW to \in ServiceState, service' = Reached(todo, to)
  PROVE  /\ service' \in [Service -> ServiceState]
         /\ \A s \in Service : service'[s] = IF s \in todo THEN to ELSE service[s]
  BY DEF Reached

LEMMA ConfigureStep ==
  ASSUME LifecycleTypeOK, Arranged, configure_all
  PROVE  /\ LifecycleTypeOK' /\ ActivePrefix' /\ ActiveIsComplete'
         /\ state_' \in {"Error", "Inactive"}
         /\ \A s \in Service : service'[s] # "active"
<1>1. PICK k \in 1 .. Participants + 1 :
        /\ service' = Reached(Forward(k), "inactive")
        /\ state_' = IF k \in Service THEN "Error" ELSE "Inactive"
  BY DEF configure_all
<1>2. /\ service' \in [Service -> ServiceState]
      /\ \A s \in Service : service'[s] # "active"
  BY <1>1, ReachedServices DEF ServiceState, LifecycleTypeOK, Arranged, configure_all
<1> QED
  BY <1>1, <1>2 DEF LifecycleTypeOK, ActivePrefix, ActiveIsComplete

LEMMA ActivateStep ==
  ASSUME LifecycleTypeOK, Arranged, activate_all
  PROVE  /\ LifecycleTypeOK' /\ ActivePrefix' /\ ActiveIsComplete'
         /\ state_' \in {"Error", "Active"}
<1>1. PICK k \in 1 .. Participants + 1 :
        /\ service' = Reached(Forward(k), "active")
        /\ state_' = IF k \in Service THEN "Error" ELSE "Active"
  BY DEF activate_all
<1>2. service' \in [Service -> ServiceState]
  BY <1>1, ReachedServices DEF ServiceState, LifecycleTypeOK
<1>3. \A s \in Service : service'[s] = "active" <=> s < k
  BY <1>1, ReachedServices
  DEF ServiceState, LifecycleTypeOK, Arranged, activate_all, Forward
<1>4. ActivePrefix'
  BY <1>3, ParticipantsAssumption DEF ActivePrefix, Service
<1>5. ActiveIsComplete'
  BY <1>1, <1>3, ParticipantsAssumption DEF ActiveIsComplete, Service
<1> QED
  BY <1>1, <1>2, <1>4, <1>5 DEF LifecycleTypeOK

LEMMA DeactivateStep ==
  ASSUME LifecycleTypeOK, Arranged, deactivate_all
  PROVE  /\ LifecycleTypeOK' /\ ActivePrefix' /\ ActiveIsComplete'
         /\ state_' \in {"Error", "Inactive"}
         /\ state_' = "Inactive" => \A s \in Service : service'[s] # "active"
<1>1. PICK k \in 0 .. Participants :
        /\ service' = Reached(Backward(k), "inactive")
        /\ state_' = IF k \in Service THEN "Error" ELSE "Inactive"
  BY DEF deactivate_all, Deactivated
<1>2. service' \in [Service -> ServiceState]
  BY <1>1, ReachedServices DEF ServiceState, LifecycleTypeOK
<1>3. \A s \in Service : service'[s] = IF s > k THEN "inactive" ELSE service[s]
  BY <1>1, ReachedServices DEF ServiceState, LifecycleTypeOK, Backward
<1>4. ActivePrefix'
  BY <1>3, ParticipantsAssumption DEF ActivePrefix, Service, Arranged
<1>5. state_' = "Inactive" => \A s \in Service : service'[s] # "active"
  BY <1>1, <1>3, ParticipantsAssumption DEF Service
<1> QED
  BY <1>1, <1>2, <1>4, <1>5 DEF LifecycleTypeOK, ActiveIsComplete

LEMMA CleanupStep ==
  ASSUME LifecycleTypeOK, Arranged, cleanup_all
  PROVE  /\ LifecycleTypeOK' /\ ActivePrefix' /\ ActiveIsComplete'
         /\ state_' \in {"Error", "Finalized"}
<1>1. PICK k \in 0 .. Participants :
        /\ service' = Reached(Backward(k), "finalized")
        /\ state_' = IF k \in Service THEN "Error" ELSE "Finalized"
  BY DEF cleanup_all
<1>2. service' \in [Service -> ServiceState]
  BY <1>1, ReachedServices DEF ServiceState, LifecycleTypeOK
<1>3. \A s \in Service : service'[s] # "active"
  BY <1>1, ReachedServices DEF ServiceState, LifecycleTypeOK, cleanup_all
<1> QED
  BY <1>1, <1>2, <1>3 DEF LifecycleTypeOK, ActivePrefix, ActiveIsComplete

-------------------------------------------------------------------------------
(* Ports.                                                                  *)

\* What a step of a call is, and of which kind of adapter.
ClientStep(c) ==
  \/ Refuse(c) \/ Send(c, TRUE) \/ RequestTimesOut(c) \/ Rejected(c) \/ Number(c)
  \/ StartReturns(c) \/ Cancel(c) \/ BeginWait(c) \/ WaitTimesOut(c)
  \/ WaitReturns(c, IF Flagged(c) THEN FlaggedStatus(goal[c]) ELSE PlainStatus(goal[c]))

LEMMA AdapterSteps ==
  ASSUME NEW c \in Call, Adapter(c)
  PROVE  \/ ~IsMock(c) /\ ClientStep(c)
         \/ IsMock(c) /\ Mock(c)
<1>1. CASE class_[On(c)] = "RosActionNavigationPort" /\ RosActionNavigationPort(c)
  BY <1>1 DEF RosActionNavigationPort, ActionClient, ClientStep, IsMock, Flagged
<1>2. CASE class_[On(c)] = "Nav2NavigationPort" /\ Nav2NavigationPort(c)
  BY <1>2 DEF Nav2NavigationPort, ActionClient, ClientStep, IsMock, Flagged
<1>3. CASE class_[On(c)] = "MockNavigationPort" /\ MockNavigationPort(c)
  BY <1>3 DEF MockNavigationPort, IsMock
<1>4. CASE class_[On(c)] = "RosActionManipulationPort" /\ RosActionManipulationPort(c)
  BY <1>4 DEF RosActionManipulationPort, ActionClient, ClientStep, IsMock, Flagged
<1>5. CASE /\ class_[On(c)] = "FollowJointTrajectoryManipulationPort"
           /\ FollowJointTrajectoryManipulationPort(c)
  BY <1>5 DEF FollowJointTrajectoryManipulationPort, ActionClient, ClientStep, Send,
              IsMock, Flagged
<1>6. CASE class_[On(c)] = "MockManipulationPort" /\ MockManipulationPort(c)
  BY <1>6 DEF MockManipulationPort, IsMock
<1> QED
  BY <1>1, <1>2, <1>3, <1>4, <1>5, <1>6 DEF Adapter

\* A step of any call, or of the server that has its goal.
PortStep(c) == (\E st : Start(c, st)) \/ Adapter(c) \/ Capability(c)

LEMMA PortTypes ==
  ASSUME ActionTypeOK, NEW c \in Call, PortStep(c)
  PROVE  ActionTypeOK' /\ class_' = class_
<1> USE DEF ActionTypeOK
<1>a. On(c) \in Port
  BY DEF On, Port
<1>b. ASSUME NEW x \in CallPC \ {"idle"}, at' = [at EXCEPT ![c] = x], step' = step
      PROVE  /\ at' \in [Call -> CallPC] /\ DOMAIN step' = Call
             /\ \A d \in Call : at'[d] = "idle" => step'[d] = NoStep
  BY <1>b
<1>c. ASSUME NEW x \in Result, Return(c, x)
      PROVE  result' \in [Call -> Result] /\ at' = [at EXCEPT ![c] = "done"]
  BY <1>c DEF Return
<1>1. CASE \E st : Start(c, st)
  BY <1>1 DEF Start, CallPC, ledgerVars
<1>2. CASE Capability(c)
  BY <1>2 DEF Capability, Server, ServerAccepts, ServerRejects, ServerCancels, ServerEnds,
              Backend, GoalEnd, callVars, ledgerVars
<1>3. CASE Refuse(c) \/ RequestTimesOut(c) \/ Rejected(c) \/ Cancel(c) \/ WaitTimesOut(c)
  BY <1>b, <1>c, <1>3 DEF Refuse, RequestTimesOut, Rejected, Cancel, WaitTimesOut, Result,
                          CallPC, ledgerVars
<1>4. CASE Send(c, TRUE)
  BY <1>b, <1>4 DEF Send, CallPC, ledgerVars
<1>5. CASE BeginWait(c)
  BY <1>b, <1>c, <1>5 DEF BeginWait, CallPC, Result, ledgerVars
<1>d. ASSUME FreshId(c)
      PROVE  id' \in [Call -> Nat] /\ next_id_' \in [Port -> Nat \ {0}]
  BY <1>a, <1>d DEF FreshId
<1>e. ASSUME NEW key \in Nat, Remember(c, key)
      PROVE  /\ DOMAIN goals_' = Port
             /\ \A p \in Port : /\ DOMAIN goals_'[p] \subseteq Nat
                                /\ DOMAIN goals_[p] \subseteq DOMAIN goals_'[p]
                                /\ \A k \in DOMAIN goals_'[p] : goals_'[p][k] \in Call
  BY <1>a, <1>e DEF Remember
<1>f. ASSUME Erase(c)
      PROVE  /\ DOMAIN goals_' = Port
             /\ \A p \in Port : /\ DOMAIN goals_'[p] \subseteq DOMAIN goals_[p]
                                /\ \A k \in DOMAIN goals_'[p] : goals_'[p][k] \in Call
  BY <1>a, <1>f DEF Erase
<1>6. CASE Number(c)
  BY <1>b, <1>d, <1>6 DEF Number, CallPC
<1>7. CASE StartReturns(c)
  BY <1>b, <1>e, <1>7 DEF StartReturns, CallPC
<1>8. CASE WaitReturns(c, IF Flagged(c) THEN FlaggedStatus(goal[c]) ELSE PlainStatus(goal[c]))
  <2>. DEFINE status == IF Flagged(c) THEN FlaggedStatus(goal[c]) ELSE PlainStatus(goal[c])
  <2>1. status \in Result
    BY <1>8 DEF WaitReturns, GoalEnd, FlaggedStatus, PlainStatus, Result
  <2>. HIDE DEF status
  <2>2. WaitReturns(c, status)
    BY <1>8 DEF status
  <2> QED
    BY <1>b, <1>c, <1>f, <2>1, <2>2 DEF WaitReturns, CallPC
<1>9. CASE MockStart(c)
  BY <1>a, <1>b, <1>d, <1>e, <1>9 DEF MockStart, CallPC, Backend
<1>10. CASE MockArrives(c)
  BY <1>10 DEF MockArrives, callVars, ledgerVars, Backend
<1>11. CASE MockStartReturns(c)
  BY <1>b, <1>11 DEF MockStartReturns, CallPC, ledgerVars
<1>12. CASE MockCancel(c)
  BY <1>a, <1>b, <1>c, <1>12 DEF MockCancel, CallPC, Result
<1>13. CASE MockWait(c)
  BY <1>b, <1>c, <1>f, <1>13 DEF MockWait, CallPC, Result
<1> QED
  BY <1>1, <1>2, <1>3, <1>4, <1>5, <1>6, <1>7, <1>8, <1>9, <1>10, <1>11, <1>12, <1>13,
     AdapterSteps DEF PortStep, ClientStep, Mock

\* A call that has waited takes its own entry along, and no other.
LEMMA ErasedOwn ==
  ASSUME ActionTypeOK, Numbered, LedgerHonest, NEW c \in Call, at[c] = "waiting",
         NEW st, Return(c, st), Erase(c), UNCHANGED <<step, id, next_id_>>
  PROVE  Numbered' /\ LedgerHonest'
<1>1. /\ at' = [at EXCEPT ![c] = "done"] /\ at'[c] = "done"
      /\ \A d \in Call \ {c} : at'[d] = at[d] /\ result'[d] = result[d]
      /\ \A d \in Call \ {c} : at'[d] = at[d]
  BY DEF ActionTypeOK, Return
<1>2. On(c) \in Port /\ id[c] # 0
  BY DEF On, Port, Numbered, Holding
<1>3. /\ \A q \in Port \ {On(c)} : goals_'[q] = goals_[q]
      /\ DOMAIN goals_'[On(c)] = DOMAIN goals_[On(c)] \ {id[c]}
      /\ \A k \in DOMAIN goals_'[On(c)] : goals_'[On(c)][k] = goals_[On(c)][k]
  BY <1>2 DEF ActionTypeOK, Erase
<1>4. ASSUME NEW q \in Port, NEW k \in DOMAIN goals_'[q]
      PROVE  /\ k \in DOMAIN goals_[q] /\ goals_'[q][k] = goals_[q][k]
             /\ goals_[q][k] \in Call \ {c}
  BY <1>2, <1>3 DEF ActionTypeOK, LedgerHonest
<1>5. ASSUME NEW d \in Call \ {c}, id[d] \in DOMAIN goals_[On(d)],
             goals_[On(d)][id[d]] = d
      PROVE  id[d] \in DOMAIN goals_'[On(d)] /\ goals_'[On(d)][id[d]] = d
  <2>1. On(d) \in Port
    BY DEF On, Port
  <2>2. On(d) = On(c) => id[d] # id[c]
    BY <1>2 DEF Numbered
  <2> QED
    BY <1>3, <1>5, <2>1, <2>2
<1>6. Numbered'
  <2>1. \A d \in Call : at'[d] \in {"idle", "starting", "asking"} \cup Holding => d # c
    BY <1>1 DEF Holding
  <2>2. \A q \in Port : \A k \in DOMAIN goals_'[q] :
          at'[goals_'[q][k]] \in {"pretending", "started", "waiting", "done"}
    BY <1>1, <1>4 DEF Numbered
  <2>3. \A d \in Call : at'[d] = "pretending" =>
          id[d] \in DOMAIN goals_'[On(d)] /\ goals_'[On(d)][id[d]] = d
    BY <1>1, <1>5 DEF Numbered
  <2>4. /\ \A d \in Call : at'[d] \in Holding => id[d] # 0
        /\ \A d \in Call : at'[d] \in {"idle", "starting", "asking"} => id[d] = 0
    BY <1>1, <2>1 DEF Numbered
  <2> QED
    BY <2>2, <2>3, <2>4 DEF Numbered, On
<1>7. LedgerHonest'
  <2>1. ASSUME NEW q \in Port, NEW k \in DOMAIN goals_'[q]
        PROVE  LET d == goals_'[q][k]
               IN  /\ On(d) = q /\ id[d] = k
                   /\ at'[d] = "done" => result'[d] \in {"Canceled", "Timeout"}
    BY <1>1, <1>4 DEF LedgerHonest
  <2>2. \A d \in Call : at'[d] \in {"started", "waiting"} =>
          id[d] \in DOMAIN goals_'[On(d)] /\ goals_'[On(d)][id[d]] = d
    BY <1>1, <1>5 DEF LedgerHonest
  <2> QED
    BY <2>1, <2>2 DEF LedgerHonest, On
<1> QED
  BY <1>6, <1>7

\* An entry under a new id belongs to the call that has it, and disturbs no other.
LEMMA RememberedOwn ==
  ASSUME ActionTypeOK, Numbered, LedgerHonest, NEW c \in Call,
         NEW n \in Nat, NEW x \in {"pretending", "started"},
         n # 0, n < next_id_'[On(c)],
         at[c] \in {"starting", "numbered"}, at' = [at EXCEPT ![c] = x],
         Remember(c, n), id' = [id EXCEPT ![c] = n], UNCHANGED <<step, result>>,
         \A d \in Call : id[d] # 0 => id[d] < next_id_'[On(d)],
         \A d \in Call \ {c} : On(d) = On(c) => id[d] # n
  PROVE  Numbered' /\ LedgerHonest'
<1>1. /\ id'[c] = n /\ at'[c] = x
      /\ \A d \in Call \ {c} : at'[d] = at[d] /\ id'[d] = id[d]
  BY DEF ActionTypeOK
<1>2. On(c) \in Port
  BY DEF On, Port
<1>3. /\ \A q \in Port \ {On(c)} : goals_'[q] = goals_[q]
      /\ DOMAIN goals_'[On(c)] = DOMAIN goals_[On(c)] \cup {n}
      /\ \A k \in DOMAIN goals_'[On(c)] :
           goals_'[On(c)][k] = IF k = n THEN c ELSE goals_[On(c)][k]
  BY <1>2 DEF ActionTypeOK, Remember
<1>4. ASSUME NEW q \in Port, NEW k \in DOMAIN goals_'[q]
      PROVE  \/ q = On(c) /\ k = n /\ goals_'[q][k] = c
             \/ /\ k \in DOMAIN goals_[q] /\ goals_'[q][k] = goals_[q][k]
                /\ goals_[q][k] \in Call \ {c}
  <2>1. ASSUME k \in DOMAIN goals_[q] PROVE goals_[q][k] \in Call \ {c}
    BY <2>1 DEF Numbered, ActionTypeOK
  <2> QED
    BY <1>3, <2>1
<1>5. ASSUME NEW d \in Call \ {c}, id[d] \in DOMAIN goals_[On(d)],
             goals_[On(d)][id[d]] = d
      PROVE  id[d] \in DOMAIN goals_'[On(d)] /\ goals_'[On(d)][id[d]] = d
  <2>1. On(d) \in Port
    BY DEF On, Port
  <2> QED
    BY <1>3, <1>5, <2>1
<1>6. id'[c] \in DOMAIN goals_'[On(c)] /\ goals_'[On(c)][id'[c]] = c
  BY <1>1, <1>3
<1>7. Numbered'
  <2>1. \A q \in Port : \A k \in DOMAIN goals_'[q] :
          at'[goals_'[q][k]] \in {"pretending", "started", "waiting", "done"}
    BY <1>1, <1>4 DEF Numbered
  <2>2. \A d \in Call : at'[d] = "pretending" =>
          id'[d] \in DOMAIN goals_'[On(d)] /\ goals_'[On(d)][id'[d]] = d
    BY <1>1, <1>5, <1>6 DEF Numbered
  <2>3. \A d \in Call : at'[d] \in Holding => id'[d] # 0
    BY <1>1 DEF Numbered
  <2>4. \A d \in Call : at'[d] \in {"idle", "starting", "asking"} => id'[d] = 0
    BY <1>1 DEF Numbered
  <2>5. \A d \in Call : id'[d] # 0 => id'[d] < next_id_'[On(d)]
    BY <1>1
  <2>6. \A d, e \in Call : d # e /\ On(d) = On(e) /\ id'[d] # 0 => id'[d] # id'[e]
    BY <1>1 DEF Numbered
  <2> QED
    BY <2>1, <2>2, <2>3, <2>4, <2>5, <2>6 DEF Numbered, On
<1>8. LedgerHonest'
  <2>1. ASSUME NEW q \in Port, NEW k \in DOMAIN goals_'[q]
        PROVE  LET d == goals_'[q][k]
               IN  /\ On(d) = q /\ id'[d] = k
                   /\ at'[d] = "done" => result[d] \in {"Canceled", "Timeout"}
    <3>1. CASE q = On(c) /\ k = n /\ goals_'[q][k] = c
      BY <1>1, <3>1
    <3>2. CASE /\ k \in DOMAIN goals_[q] /\ goals_'[q][k] = goals_[q][k]
               /\ goals_[q][k] \in Call \ {c}
      BY <1>1, <3>2 DEF LedgerHonest
    <3> QED
      BY <1>4, <3>1, <3>2
  <2>2. \A d \in Call : at'[d] \in {"started", "waiting"} =>
          id'[d] \in DOMAIN goals_'[On(d)] /\ goals_'[On(d)][id'[d]] = d
    BY <1>1, <1>5, <1>6 DEF LedgerHonest
  <2> QED
    BY <2>1, <2>2 DEF LedgerHonest, On
<1> QED
  BY <1>7, <1>8

\* Where calls are, who has which id, and the entries of goals_ change together.
LEMMA PortHonest ==
  ASSUME ActionTypeOK, Numbered, LedgerHonest, Placed, NEW c \in Call, PortStep(c)
  PROVE  Numbered' /\ LedgerHonest' /\ Placed'
<1> USE DEF ActionTypeOK, Numbered, LedgerHonest, Placed, Holding
<1>a. On(c) \in Port
  BY DEF On, Port
<1>1. CASE \E st : Start(c, st)
  <2>1. Numbered'
    BY <1>a, <1>1 DEF Start, ledgerVars, On, IsMock, Flagged
  <2>2. LedgerHonest'
    BY <1>a, <1>1 DEF Start, ledgerVars, On, IsMock, Flagged
  <2>3. Placed'
    BY <1>a, <1>1 DEF Start, ledgerVars, On, IsMock, Flagged
  <2> QED
    BY <2>1, <2>2, <2>3
<1>2. CASE Capability(c)
  <2>1. /\ UNCHANGED <<class_, callVars, ledgerVars>>
        /\ ~IsMock(c) /\ step[c] # NoStep
    BY <1>2 DEF Capability, Server, ServerAccepts, ServerRejects, ServerCancels, ServerEnds
  <2>2. \/ goal[c] = "sent" /\ goal' = [goal EXCEPT ![c] = "executing"]
        \/ goal[c] = "sent" /\ goal' = [goal EXCEPT ![c] = "rejected"]
        \/ goal[c] = "executing" /\ goal' = [goal EXCEPT ![c] = "canceling"]
        \/ /\ goal[c] \in {"executing", "canceling"}
           /\ \E end \in GoalEnd : /\ end = "unsuccessful" => Flagged(c)
                                   /\ goal' = [goal EXCEPT ![c] = end]
    BY <1>2 DEF Capability, Server, ServerAccepts, ServerRejects, ServerCancels, ServerEnds
  <2>3. Numbered' /\ LedgerHonest'
    BY <2>1 DEF callVars, ledgerVars, On
  <2>4. /\ \A d \in Call \ {c} : goal'[d] = goal[d]
        /\ goal'[c] # "none" /\ goal'[c] # "sent"
        /\ goal[c] # "sent" => goal'[c] \in Backend
        /\ goal'[c] = "unsuccessful" => Flagged(c)
        /\ goal[c] # "none"
    BY <2>2 DEF GoalEnd, Backend
  <2>5. Placed'
    BY <2>1, <2>4 DEF callVars, ledgerVars, On, IsMock, Flagged, Backend
  <2> QED
    BY <2>3, <2>5
<1>3. CASE ~IsMock(c) /\ Refuse(c)
  BY <1>3 DEF Refuse, Return, ledgerVars, On, IsMock, Flagged
<1>4. CASE ~IsMock(c) /\ Send(c, TRUE)
  BY <1>4 DEF Send, ledgerVars, On, IsMock, Flagged, Backend
<1>5. CASE ~IsMock(c) /\ RequestTimesOut(c)
  BY <1>5 DEF RequestTimesOut, Return, ledgerVars, On, IsMock, Flagged
<1>6. CASE ~IsMock(c) /\ Rejected(c)
  BY <1>6 DEF Rejected, Return, ledgerVars, On, IsMock, Flagged
<1>7. CASE ~IsMock(c) /\ Number(c)
  <2>1. Numbered'
    BY <1>a, <1>7 DEF Number, FreshId, On, IsMock, Flagged, Backend
  <2>2. LedgerHonest'
    BY <1>a, <1>7 DEF Number, FreshId, On, IsMock, Flagged, Backend
  <2>3. Placed'
    BY <1>a, <1>7 DEF Number, FreshId, On, IsMock, Flagged, Backend
  <2> QED
    BY <2>1, <2>2, <2>3
<1>8. CASE ~IsMock(c) /\ StartReturns(c)
  <2>1. /\ Remember(c, id[c]) /\ at[c] = "numbered" /\ at' = [at EXCEPT ![c] = "started"]
        /\ UNCHANGED <<step, id, result, next_id_>>
    BY <1>8 DEF StartReturns
  <2>2. /\ id[c] \in Nat /\ id[c] # 0 /\ id' = [id EXCEPT ![c] = id[c]]
        /\ \A d \in Call \ {c} : On(d) = On(c) => id[d] # id[c]
    BY <2>1
  <2>3. Numbered' /\ LedgerHonest'
    BY <2>1, <2>2, RememberedOwn
  <2>4. Placed'
    BY <1>a, <1>8 DEF StartReturns, Remember, On, IsMock, Flagged
  <2> QED
    BY <2>3, <2>4
<1>9. CASE ~IsMock(c) /\ Cancel(c)
  BY <1>9 DEF Cancel, Return, ledgerVars, On, IsMock, Flagged, Backend
<1>10. CASE BeginWait(c)
  BY <1>10 DEF BeginWait, Return, ledgerVars, On, IsMock, Flagged
<1>11. CASE ~IsMock(c) /\ WaitTimesOut(c)
  BY <1>11 DEF WaitTimesOut, Return, ledgerVars, On, IsMock, Flagged
<1>12. CASE ~IsMock(c) /\ \E st : WaitReturns(c, st)
  <2>1. Numbered' /\ LedgerHonest'
    BY <1>12, ErasedOwn DEF WaitReturns
  <2>2. Placed'
    BY <1>a, <1>12 DEF WaitReturns, Return, Erase, On, IsMock, Flagged, Backend
  <2> QED
    BY <2>1, <2>2
<1>13. CASE IsMock(c) /\ MockStart(c)
  <2>. DEFINE n == next_id_[On(c)]
  <2>1. /\ at[c] = "starting" /\ at' = [at EXCEPT ![c] = "pretending"]
        /\ Remember(c, n) /\ id' = [id EXCEPT ![c] = n] /\ UNCHANGED <<step, result>>
        /\ next_id_' = [next_id_ EXCEPT ![On(c)] = @ + 1]
    BY <1>13 DEF MockStart, FreshId
  <2>2. /\ n \in Nat /\ n # 0 /\ n < next_id_'[On(c)]
        /\ \A q \in Port : /\ next_id_[q] \in Nat /\ next_id_'[q] \in Nat
                           /\ next_id_[q] <= next_id_'[q]
    BY <1>a, <2>1
  <2>3. \A d \in Call : On(d) \in Port
    BY DEF On, Port
  <2>4. ASSUME NEW d \in Call
        PROVE  /\ id[d] # 0 => id[d] < next_id_'[On(d)]
               /\ On(d) = On(c) => id[d] # n
    <3>1. id[d] \in Nat /\ (id[d] # 0 => id[d] < next_id_[On(d)])
      OBVIOUS
    <3> QED
      BY <2>2, <2>3, <3>1
  <2>5. Numbered' /\ LedgerHonest'
    <3>1. /\ \A d \in Call : id[d] # 0 => id[d] < next_id_'[On(d)]
          /\ \A d \in Call \ {c} : On(d) = On(c) => id[d] # n
      BY <2>4
    <3>. HIDE DEF n
    <3>2. ActionTypeOK /\ Numbered /\ LedgerHonest
      OBVIOUS
    <3> QED
      BY ONLY c \in Call, <2>1, <2>2, <3>1, <3>2, RememberedOwn
  <2>6. Placed'
    BY <1>a, <1>13 DEF MockStart, FreshId, Remember, On, IsMock, Flagged
  <2> QED
    BY <2>5, <2>6
<1>14. CASE IsMock(c) /\ MockArrives(c)
  BY <1>14 DEF MockArrives, callVars, ledgerVars, On, IsMock, Flagged
<1>15. CASE IsMock(c) /\ MockStartReturns(c)
  <2>1. Numbered'
    BY <1>15 DEF MockStartReturns, ledgerVars, On
  <2>2. LedgerHonest'
    BY <1>15 DEF MockStartReturns, ledgerVars, On
  <2>3. Placed'
    BY <1>15 DEF MockStartReturns, ledgerVars, On, IsMock, Flagged, Backend
  <2> QED
    BY <2>1, <2>2, <2>3
<1>16. CASE IsMock(c) /\ MockCancel(c)
  <2>1. Numbered'
    BY <1>a, <1>16 DEF MockCancel, Return, On, IsMock, Flagged
  <2>2. LedgerHonest'
    BY <1>a, <1>16 DEF MockCancel, Return, On, IsMock, Flagged
  <2>3. Placed'
    BY <1>a, <1>16 DEF MockCancel, Return, On, IsMock, Flagged
  <2> QED
    BY <2>1, <2>2, <2>3
<1>17. CASE IsMock(c) /\ MockWait(c)
  <2>1. Numbered' /\ LedgerHonest'
    <3>1. CASE id[c] \in canceled_[On(c)]
      BY <1>a, <1>17, <3>1 DEF MockWait, Return, On
    <3>2. CASE id[c] \notin canceled_[On(c)]
      BY <1>17, <3>2, ErasedOwn DEF MockWait
    <3> QED
      BY <3>1, <3>2
  <2>2. Placed'
    <3>1. CASE id[c] \in canceled_[On(c)]
      BY <1>a, <1>17, <3>1 DEF MockWait, Return, On, IsMock, Flagged
    <3>2. CASE id[c] \notin canceled_[On(c)]
      BY <1>a, <1>17, <3>2 DEF MockWait, Return, Erase, On, IsMock, Flagged
    <3> QED
      BY <3>1, <3>2
  <2> QED
    BY <2>1, <2>2
<1>18. ASSUME ClientStep(c), ~IsMock(c)
       PROVE  Numbered' /\ LedgerHonest' /\ Placed'
  BY <1>3, <1>4, <1>5, <1>6, <1>7, <1>8, <1>9, <1>10, <1>11, <1>12, <1>18 DEF ClientStep
<1>19. ASSUME Mock(c), IsMock(c)
       PROVE  Numbered' /\ LedgerHonest' /\ Placed'
  BY <1>10, <1>13, <1>14, <1>15, <1>16, <1>17, <1>19 DEF Mock
<1> QED
  BY <1>1, <1>2, <1>18, <1>19, AdapterSteps DEF PortStep

-------------------------------------------------------------------------------
(* The runtime.                                                            *)

LEMMA InitInv == Init => Inv
<1> SUFFICES ASSUME Init PROVE Inv
  OBVIOUS
<1> USE DEF Init, LifecycleInit, ActionInit
<1>1. LifecycleTypeOK /\ Arranged
  BY DEF LifecycleTypeOK, ServiceState, Arranged, ActivePrefix, ActiveIsComplete
<1>2. ActionTypeOK
  BY DEF ActionTypeOK, CallPC, Result
<1>3. TypeOK
  BY <1>1, <1>2 DEF TypeOK
<1>4. Numbered /\ LedgerHonest /\ Placed /\ Quiet
  BY DEF Numbered, Holding, LedgerHonest, Placed, Quiet
<1> QED
  BY <1>1, <1>3, <1>4 DEF Inv

LEMMA InvStep == Inv /\ [Next]_vars => Inv'
<1> SUFFICES ASSUME Inv, [Next]_vars PROVE Inv'
  OBVIOUS
<1> USE DEF Inv, TypeOK
<1>a. ASSUME UNCHANGED lifecycleVars
      PROVE  LifecycleTypeOK' /\ Arranged'
  BY <1>a DEF lifecycleVars, LifecycleTypeOK, Arranged, ActivePrefix, ActiveIsComplete
<1>b. ASSUME UNCHANGED <<callVars, goal, ledgerVars>>
      PROVE  ActionTypeOK' /\ Numbered' /\ LedgerHonest'
  BY <1>b DEF callVars, ledgerVars, ActionTypeOK, Numbered, Holding, LedgerHonest, On
<1>c. ASSUME UNCHANGED actionVars
      PROVE  ActionTypeOK' /\ Numbered' /\ LedgerHonest' /\ Placed'
  <2>1. Placed'
    BY <1>c DEF actionVars, callVars, ledgerVars, Placed, IsMock, Flagged, On
  <2> QED
    BY <1>b, <1>c, <2>1 DEF actionVars
<1>1. CASE BuildRuntime
  <2>1. /\ UNCHANGED <<input, lifecycleVars, callVars, goal, ledgerVars>>
        /\ node = "starting" /\ node' \in {"exited", "built"}
    BY <1>1 DEF BuildRuntime
  <2>2. Placed' /\ Quiet'
    BY <2>1 DEF Quiet, Placed, callVars, ledgerVars, ActionTypeOK
  <2> QED
    BY <1>a, <1>b, <2>1, <2>2
<1>2. CASE Configure
  <2>1. configure_all /\ UNCHANGED <<input, actionVars>>
    BY <1>2 DEF Configure
  <2>2. node = "built" /\ node' \in {"configured", "exited"}
    BY <1>2 DEF Configure
  <2>3. LifecycleTypeOK' /\ Arranged'
    BY <2>1, ConfigureStep DEF Arranged
  <2>4. Quiet'
    BY <2>1, <2>2 DEF Quiet, actionVars, callVars
  <2> QED
    BY <1>c, <2>1, <2>2, <2>3, <2>4
<1>3. CASE Activate
  <2>1. activate_all /\ UNCHANGED <<input, actionVars>>
    BY <1>3 DEF Activate
  <2>2. node' \in {"serving", "exited"}
    BY <1>3 DEF Activate
  <2>3. LifecycleTypeOK' /\ Arranged'
    BY <2>1, ActivateStep DEF Arranged
  <2>4. Quiet'
    BY <2>2 DEF Quiet
  <2> QED
    BY <1>c, <2>1, <2>2, <2>3, <2>4
<1>4. CASE TakeDown
  <2>1. (deactivate_all \/ cleanup_all) /\ UNCHANGED <<input, actionVars>> /\ node' = "exited"
    BY <1>4 DEF TakeDown
  <2>2. LifecycleTypeOK' /\ Arranged'
    BY <2>1, DeactivateStep, CleanupStep DEF Arranged
  <2>3. Quiet'
    BY <2>1 DEF Quiet
  <2> QED
    BY <1>c, <2>1, <2>2, <2>3
<1>5. ASSUME NEW c \in Call, BeginStep(c) \/ CallStep(c)
      PROVE  Inv'
  <2>1. PortStep(c) /\ UNCHANGED <<input, node, lifecycleVars>>
    BY <1>5 DEF BeginStep, CallStep, PortStep, runtimeVars
  <2>2. node = "serving" \/ at[c] # "idle"
    BY <1>5 DEF BeginStep, CallStep, Adapter, Capability, ActionTypeOK
  <2>3. Quiet'
    BY <2>1, <2>2 DEF Quiet
  <2> QED
    BY <1>a, <2>1, <2>3, PortTypes, PortHonest
<1>6. CASE UNCHANGED vars
  BY <1>a, <1>c, <1>6 DEF vars, runtimeVars, Quiet, actionVars, callVars
<1> QED
  BY <1>1, <1>2, <1>3, <1>4, <1>5, <1>6 DEF Next, Terminated

\* An active service has all services below it, whatever transition has failed, and
\* the node serves with all of them: for any number of services.
THEOREM ServicesInOrder == Spec => []LifecycleSound
<1>1. Inv => LifecycleSound
  BY DEF Inv, Arranged, LifecycleSound
<1> QED
  BY <1>1, InitInv, InvStep, PTL DEF Spec

\* An id of a port belongs to one goal, a call that may wait finds its entry, and what
\* stays in the map was given up: for any number of concurrent calls and adapters
\* of any kind.
THEOREM HonestLedger == Spec => []PortInv
<1>1. Inv => PortInv
  BY DEF Inv, PortInv
<1> QED
  BY <1>1, InitInv, InvStep, PTL DEF Spec

-------------------------------------------------------------------------------
(* What is started.                                                        *)

\* The runtime is what was built from the two documents.
Built ==
  /\ runtime # Refused => runtime = Build(input.profile, input.runtime)
  /\ node \in {"built", "configured", "serving"} => runtime # Refused

\* A step that a call has been given was planned, and admitted by the gate.
Admitted(c) ==
  /\ runtime # Refused
  /\ step[c].kind \in {"navigate", "manipulate"} /\ step[c].names \in Nat
  /\ Capable(runtime.profile, step[c].kind)
  /\ \A limits \in runtime.policies : PolicyAdmits(limits, Requested(step[c].kind))

Executable(c) ==
  class_[On(c)] = "FollowJointTrajectoryManipulationPort" => TrajectoryStep(step[c])

Earned ==
  /\ Built
  /\ \A c \in Call : at[c] # "idle" => Admitted(c)
  /\ \A c \in Call : goal[c] # "none" => Executable(c)

\* The steps of both planners.
LEMMA PlansCapable ==
  ASSUME NEW st \in PlannedSteps
  PROVE  /\ st.kind \in {"navigate", "manipulate"} /\ st.names \in Nat
         /\ Capable(runtime.profile, st.kind)
<1>1. PICK plan \in Plans \ {Refused} : \E i \in DOMAIN plan : st = plan[i]
  BY DEF PlannedSteps
<1>2. CASE \E words \in Instructions : plan = SimplePlan(runtime.profile, words)
  <2>1. PICK words \in Instructions : plan = SimplePlan(runtime.profile, words)
    BY <1>2
  <2>2. /\ runtime.profile.navigation
        /\ NeedsManipulation(words) => runtime.profile.manipulation
        /\ plan = IF NeedsManipulation(words)
                    THEN <<PlainStep("navigate"), PlainStep("manipulate")>>
                    ELSE <<PlainStep("navigate")>>
    BY <1>1, <2>1 DEF SimplePlan, NeedsNavigation
  <2>3. \/ st = PlainStep("navigate")
        \/ NeedsManipulation(words) /\ st = PlainStep("manipulate")
    BY <1>1, <2>2
  <2> QED
    BY <2>2, <2>3 DEF PlainStep, Capable
<1>3. CASE \E file \in Files : plan = GraphPlan(runtime.profile, file)
  <2>1. PICK file \in Files : plan = GraphPlan(runtime.profile, file)
    BY <1>3
  <2>2. /\ file # Malformed /\ plan = file
        /\ \A i \in DOMAIN file : Capable(runtime.profile, file[i].kind)
    BY <1>1, <2>1 DEF GraphPlan
  <2> QED
    BY <1>1, <2>1, <2>2, FilesAssumption DEF Capable
<1> QED
  BY <1>1, <1>2, <1>3 DEF Plans

\* A goal is started for a step that its adapter has found executable.
LEMMA ExecutableStarts ==
  ASSUME ActionTypeOK, Placed, NEW c \in Call, PortStep(c),
         \A d \in Call : goal[d] # "none" => Executable(d)
  PROVE  \A d \in Call : goal'[d] # "none" => Executable(d)'
<1> USE DEF ActionTypeOK
<1>1. \A d \in Call \ {c} : goal'[d] = goal[d] /\ step'[d] = step[d]
  BY AdapterSteps
  DEF PortStep, Start, Capability, Server, ServerAccepts, ServerRejects, ServerCancels,
      ServerEnds, ClientStep, Mock, Refuse, Send, RequestTimesOut, Rejected, Number,
      StartReturns, Cancel, BeginWait, WaitTimesOut, WaitReturns, MockStart, MockArrives,
      MockStartReturns, MockCancel, MockWait, callVars
<1>2. class_' = class_
  BY PortTypes
<1>3. \A d \in Call \ {c} : goal'[d] # "none" => Executable(d)'
  BY <1>1, <1>2 DEF Executable, On
<1>4. CASE \E st : Start(c, st)
  BY <1>3, <1>4 DEF Start, Placed
<1>5. CASE Capability(c)
  <2>1. goal[c] # "none" /\ step' = step
    BY <1>5 DEF Capability, Server, ServerAccepts, ServerRejects, ServerCancels, ServerEnds,
                callVars
  <2> QED
    BY <1>2, <1>3, <2>1 DEF Executable, On
<1>6. CASE Adapter(c)
  <2>1. step' = step
    BY <1>6, AdapterSteps
    DEF ClientStep, Mock, Refuse, Send, RequestTimesOut, Rejected, Number,
        StartReturns, Cancel, BeginWait, WaitTimesOut, WaitReturns, MockStart, MockArrives,
        MockStartReturns, MockCancel, MockWait, callVars
  <2>2. CASE class_[On(c)] # "FollowJointTrajectoryManipulationPort"
    BY <1>2, <1>3, <2>1, <2>2 DEF Executable, On
  <2>3. CASE class_[On(c)] = "FollowJointTrajectoryManipulationPort"
    <3>1. FollowJointTrajectoryManipulationPort(c)
      BY <1>6, <2>3 DEF Adapter
    <3>2. goal' = goal \/ TrajectoryStep(step[c])
      BY <3>1
      DEF FollowJointTrajectoryManipulationPort, ActionClient, Refuse, Send,
          RequestTimesOut, Rejected, Number, StartReturns, Cancel, BeginWait, WaitTimesOut,
          WaitReturns
    <3> QED
      BY <1>2, <1>3, <2>1, <3>2 DEF Executable, On
  <2> QED
    BY <2>2, <2>3
<1> QED
  BY <1>4, <1>5, <1>6 DEF PortStep

LEMMA EarnedStep ==
  ASSUME Inv, Earned, [Next]_vars
  PROVE  Earned'
<1> USE DEF Inv, TypeOK
<1>1. CASE BuildRuntime
  <2>1. \A c \in Call : at'[c] = "idle" /\ goal'[c] = "none"
    BY <1>1 DEF BuildRuntime, Quiet, Placed, callVars
  <2>2. Built'
    BY <1>1 DEF BuildRuntime, Built
  <2> QED
    BY <2>1, <2>2 DEF Earned
<1>2. ASSUME UNCHANGED <<input, runtime, actionVars>>,
             node' \in {"built", "configured", "serving"} => runtime # Refused
      PROVE  Earned'
  BY <1>2 DEF Earned, Built, Admitted, Executable, On, actionVars, callVars
<1>3. CASE Configure \/ Activate \/ TakeDown
  BY <1>2, <1>3 DEF Configure, Activate, TakeDown, Earned, Built
<1>4. ASSUME NEW c \in Call, BeginStep(c) \/ CallStep(c)
      PROVE  Built' /\ \A d \in Call : goal'[d] # "none" => Executable(d)'
  <2>1. PortStep(c) /\ UNCHANGED <<input, runtime, node>>
    BY <1>4 DEF BeginStep, CallStep, PortStep, runtimeVars
  <2> QED
    BY <2>1, ExecutableStarts DEF Earned, Built
<1>5. ASSUME NEW c \in Call, BeginStep(c)
      PROVE  Earned'
  <2>1. PICK st \in PlannedSteps, estop \in BOOLEAN :
          /\ GateAdmits(runtime.policies, Requested(st.kind),
                        [state_known |-> TRUE, estop_active |-> estop])
          /\ Start(c, st)
    BY <1>5 DEF BeginStep
  <2>2. UNCHANGED <<input, runtime>> /\ node = "serving"
    BY <1>5 DEF BeginStep, runtimeVars
  <2>3. step' = [step EXCEPT ![c] = st] /\ at' = [at EXCEPT ![c] = "starting"]
    BY <2>1 DEF Start
  <2>4. \A limits \in runtime.policies : PolicyAdmits(limits, Requested(st.kind))
    BY <2>1 DEF GateAdmits
  <2>5. Admitted(c)'
    BY <2>2, <2>3, <2>4, PlansCapable DEF Admitted, Earned, Built, ActionTypeOK
  <2>6. \A d \in Call \ {c} : at'[d] # "idle" => Admitted(d)'
    BY <2>2, <2>3 DEF Admitted, Earned, ActionTypeOK
  <2> QED
    BY <1>4, <1>5, <2>5, <2>6 DEF Earned
<1>6. ASSUME NEW c \in Call, CallStep(c)
      PROVE  Earned'
  <2>1. UNCHANGED <<input, runtime>> /\ (Adapter(c) \/ Capability(c))
    BY <1>6 DEF CallStep, runtimeVars
  <2>2. step' = step /\ \A d \in Call : at'[d] # "idle" => at[d] # "idle"
    BY <2>1, AdapterSteps
    DEF Adapter, Capability, Server, ServerAccepts, ServerRejects, ServerCancels,
        ServerEnds, ClientStep, Mock, Refuse, Send, RequestTimesOut, Rejected, Number,
        StartReturns, Cancel, BeginWait, WaitTimesOut, WaitReturns, MockStart, MockArrives,
        MockStartReturns, MockCancel, MockWait, callVars, Return, ActionTypeOK
  <2>3. \A d \in Call : at'[d] # "idle" => Admitted(d)'
    BY <2>1, <2>2 DEF Admitted, Earned
  <2> QED
    BY <1>4, <1>6, <2>3 DEF Earned
<1>7. CASE UNCHANGED vars
  BY <1>2, <1>7 DEF vars, runtimeVars, Earned, Built
<1> QED
  BY <1>1, <1>2, <1>3, <1>5, <1>6, <1>7 DEF Next, Terminated

\* What a test that looks for a wrong number leaves.
LEMMA NothingWrong ==
  ASSUME NEW x \in Double
  PROVE  /\ ~Leq(x, 0) => x = NaN \/ x > 0
         /\ ~Less(x, 0) => x = NaN \/ x >= 0
BY NaNAssumption DEF Double, Leq, Less

\* What a reader makes of a document: what is there is what is read.
LEMMA KeyRead ==
  ASSUME NEW doc, NEW key \in DOMAIN NoProfile
  PROVE  /\ key \in DOMAIN doc => Profile(doc)[key] = doc[key]
         /\ key \notin DOMAIN doc => Profile(doc)[key] = NoProfile[key]
BY DEF Profile, Read

\* A key that is left out is read as what struct RobotProfile starts with.
LEMMA KeyMissing ==
  ASSUME NEW doc
  PROVE  /\ "model" \notin DOMAIN doc => Profile(doc).model = ""
         /\ "max_linear_velocity" \notin DOMAIN doc => Profile(doc).max_linear_velocity = 0
         /\ "max_angular_velocity" \notin DOMAIN doc => Profile(doc).max_angular_velocity = 0
         /\ "limit_lower" \notin DOMAIN doc => Profile(doc).limit_lower = -6
         /\ "limit_upper" \notin DOMAIN doc => Profile(doc).limit_upper = 8
<1>1. {"model", "max_linear_velocity", "max_angular_velocity", "limit_lower", "limit_upper"}
        \subseteq DOMAIN NoProfile
  BY DEF NoProfile
<1>2. /\ NoProfile["model"] = ""
      /\ NoProfile["max_linear_velocity"] = 0 /\ NoProfile["max_angular_velocity"] = 0
      /\ NoProfile["limit_lower"] = -6 /\ NoProfile["limit_upper"] = 8
  BY DEF NoProfile
<1>3. "model" \notin DOMAIN doc => Profile(doc).model = ""
  BY <1>1, <1>2, KeyRead
<1>4. /\ "max_linear_velocity" \notin DOMAIN doc => Profile(doc).max_linear_velocity = 0
      /\ "max_angular_velocity" \notin DOMAIN doc => Profile(doc).max_angular_velocity = 0
  BY <1>1, <1>2, KeyRead
<1>5. /\ "limit_lower" \notin DOMAIN doc => Profile(doc).limit_lower = -6
      /\ "limit_upper" \notin DOMAIN doc => Profile(doc).limit_upper = 8
  BY <1>1, <1>2, KeyRead
<1> QED
  BY <1>3, <1>4, <1>5

\* The tests of the joints, on the document.
LEMMA LoadedJoints ==
  ASSUME NEW doc, ValidJoints(Profile(doc)), "names" \in DOMAIN doc,
         \A key \in NumericKey \cap DOMAIN doc : doc[key] \in Double
  PROVE  LegalJoints(doc)
<1> DEFINE p == Profile(doc)
<1>1. /\ p.names = doc.names
      /\ "unit" \in DOMAIN doc => p.unit = doc.unit
      /\ "type" \in DOMAIN doc => p.type = doc.type
      /\ "limit_lower" \in DOMAIN doc => p.limit_lower = doc.limit_lower
      /\ "limit_upper" \in DOMAIN doc => p.limit_upper = doc.limit_upper
  <2>1. {"names", "unit", "type", "limit_lower", "limit_upper"} \subseteq DOMAIN NoProfile
    BY DEF NoProfile
  <2> QED
    BY <2>1, KeyRead
<1>2. /\ "max_effort" \in DOMAIN doc => p.max_effort = doc.max_effort
      /\ "max_velocity" \in DOMAIN doc => p.max_velocity = doc.max_velocity
  <2>1. {"max_effort", "max_velocity"} \subseteq DOMAIN NoProfile
    BY DEF NoProfile
  <2> QED
    BY <2>1, KeyRead
<1>3. /\ "limit_lower" \notin DOMAIN doc => p.limit_lower = -6
      /\ "limit_upper" \notin DOMAIN doc => p.limit_upper = 8
  BY KeyMissing
<1> HIDE DEF p
<1>4. ValidJoints(p)
  BY DEF p
<1>5. /\ \A i \in DOMAIN doc.names : doc.names[i] # ""
      /\ "unit" \in DOMAIN doc => doc.unit \in {"meter", "radian"}
      /\ "type" \in DOMAIN doc => doc.type \in {"revolute", "prismatic", "mixed"}
  BY <1>1, <1>4 DEF ValidJoints
<1>6. LET lower == IF "limit_lower" \in DOMAIN doc THEN doc.limit_lower ELSE -6
          upper == IF "limit_upper" \in DOMAIN doc THEN doc.limit_upper ELSE 8
      IN  NaN \notin {lower, upper} /\ lower < upper
  <2>1. p.limit_lower # NaN /\ p.limit_upper # NaN /\ p.limit_lower < p.limit_upper
    BY <1>4 DEF ValidJoints, Less
  <2> QED
    BY <1>1, <1>3, <2>1
<1>7. Positive(doc, {"max_effort", "max_velocity"})
  <2>1. ASSUME "max_effort" \in DOMAIN doc PROVE doc.max_effort = NaN \/ doc.max_effort > 0
    <3>1. doc.max_effort \in Double /\ ~Leq(doc.max_effort, 0)
      BY <1>2, <1>4, <2>1 DEF ValidJoints, NumericKey
    <3> QED
      BY <3>1, NothingWrong
  <2>2. ASSUME "max_velocity" \in DOMAIN doc
        PROVE  doc.max_velocity = NaN \/ doc.max_velocity > 0
    <3>1. doc.max_velocity \in Double /\ ~Leq(doc.max_velocity, 0)
      BY <1>2, <1>4, <2>2 DEF ValidJoints, NumericKey
    <3> QED
      BY <3>1, NothingWrong
  <2> QED
    BY <2>1, <2>2 DEF Positive
<1> QED
  BY <1>5, <1>6, <1>7 DEF LegalJoints

\* A profile that loads has nothing in it that the validator refuses.
LEMMA LoadedProfile ==
  ASSUME NEW doc, LoadsProfile(doc),
         \A key \in NumericKey \cap DOMAIN doc : doc[key] \in Double \cup {Malformed}
  PROVE  LegalProfile(doc)
<1> DEFINE p == Profile(doc)
<1>1. /\ "schema_version" \in DOMAIN doc
      /\ \A key \in DOMAIN doc : doc[key] # Malformed
      /\ Valid(p)
  BY DEF LoadsProfile, Unversioned, Throws
<1>2. \A key \in NumericKey \cap DOMAIN doc : doc[key] \in Double
  BY <1>1
<1>3. /\ p.schema_version = doc.schema_version
      /\ "model" \in DOMAIN doc => p.model = doc.model
      /\ "base" \in DOMAIN doc => p.base = doc.base
      /\ "map" \in DOMAIN doc => p.map = doc.map
      /\ "names" \in DOMAIN doc => p.names = doc.names
  <2>1. {"schema_version", "model", "base", "map", "names"} \subseteq DOMAIN NoProfile
    BY DEF NoProfile
  <2> QED
    BY <1>1, <2>1, KeyRead
<1>4. /\ "max_linear_velocity" \in DOMAIN doc =>
           p.max_linear_velocity = doc.max_linear_velocity
      /\ "max_angular_velocity" \in DOMAIN doc =>
           p.max_angular_velocity = doc.max_angular_velocity
      /\ "payload_kg" \in DOMAIN doc => p.payload_kg = doc.payload_kg
  <2>1. {"max_linear_velocity", "max_angular_velocity", "payload_kg"} \subseteq DOMAIN NoProfile
    BY DEF NoProfile
  <2> QED
    BY <2>1, KeyRead
<1>5. /\ "model" \notin DOMAIN doc => p.model = ""
      /\ "max_linear_velocity" \notin DOMAIN doc => p.max_linear_velocity = 0
      /\ "max_angular_velocity" \notin DOMAIN doc => p.max_angular_velocity = 0
  BY KeyMissing
<1> HIDE DEF p
<1>6. Leq(0, 0)
  BY NaNAssumption DEF Leq
<1>7. /\ "model" \in DOMAIN doc
      /\ "max_linear_velocity" \in DOMAIN doc /\ "max_angular_velocity" \in DOMAIN doc
  BY <1>1, <1>5, <1>6 DEF Valid
<1>8. doc.schema_version = 1
  BY <1>1, <1>3 DEF Valid
<1>9. \A key \in {"model", "base", "map"} \cap DOMAIN doc : doc[key] # ""
  BY <1>1, <1>3 DEF Valid
<1>10. Positive(doc, {"max_linear_velocity", "max_angular_velocity"})
  <2>1. doc.max_linear_velocity \in Double /\ ~Leq(doc.max_linear_velocity, 0)
    BY <1>1, <1>2, <1>4, <1>7 DEF Valid, NumericKey
  <2>2. doc.max_angular_velocity \in Double /\ ~Leq(doc.max_angular_velocity, 0)
    BY <1>1, <1>2, <1>4, <1>7 DEF Valid, NumericKey
  <2> QED
    BY <2>1, <2>2, NothingWrong DEF Positive
<1>11. ASSUME "payload_kg" \in DOMAIN doc PROVE doc.payload_kg = NaN \/ doc.payload_kg >= 0
  <2>1. doc.payload_kg \in Double /\ ~Less(doc.payload_kg, 0)
    BY <1>1, <1>2, <1>4, <1>11 DEF Valid, NumericKey
  <2> QED
    BY <2>1, NothingWrong
<1>12. ASSUME "names" \in DOMAIN doc, doc.names # <<>> PROVE LegalJoints(doc)
  <2>1. ValidJoints(Profile(doc))
    BY <1>1, <1>3, <1>12 DEF Valid, p
  <2> QED
    BY <1>2, <1>12, <2>1, LoadedJoints
<1> QED
  BY <1>1, <1>7, <1>8, <1>9, <1>10, <1>11, <1>12 DEF LegalProfile

\* A runtime document that loads and builds has nothing in it that the loader refuses
\* and names nothing that is not registered.
LEMMA LoadedRuntime ==
  ASSUME NEW doc, LoadsConfig(doc), Buildable(Config(doc))
  PROVE  LegalRuntime(doc)
<1> DEFINE p == Config(doc)
<1>1. /\ "schema_version" \in DOMAIN doc
      /\ \A key \in DOMAIN doc : doc[key] # Malformed
      /\ p.schema_version = 1 /\ p.plugin # ""
  BY DEF LoadsConfig, Unversioned, Throws
<1>2. /\ "schema_version" \in DOMAIN doc => p.schema_version = doc.schema_version
      /\ "plugin" \in DOMAIN doc => p.plugin = doc.plugin
      /\ "plugin" \notin DOMAIN doc => p.plugin = ""
      /\ "policies" \in DOMAIN doc => p.policies = doc.policies
      /\ "planner" \in DOMAIN doc => p.planner = doc.planner
  BY DEF Config, Read, NoConfig
<1>3. /\ "navigation" \in DOMAIN doc => p.navigation = ProviderType(doc.navigation)
      /\ "manipulation" \in DOMAIN doc => p.manipulation = ProviderType(doc.manipulation)
      /\ "navigation" \notin DOMAIN doc => p.navigation = ProviderType("")
      /\ "manipulation" \notin DOMAIN doc => p.manipulation = ProviderType("")
  BY DEF Config, Read, NoConfig
<1>4. Buildable(p)
  OBVIOUS
<1> HIDE DEF p
<1>5. doc.schema_version = 1 /\ "plugin" \in DOMAIN doc /\ doc.plugin # ""
  BY <1>1, <1>2
<1>6. DOMAIN NavigationProviders = {"mock", "ros_action"} \cup (IF HasNav2 THEN {"nav2"} ELSE {})
  BY DEF NavigationProviders
<1>7. DOMAIN ManipulationProviders = {"mock", "ros_action", "follow_joint_trajectory", "moveit"}
  BY DEF ManipulationProviders
<1>8. /\ "navigation" \in DOMAIN doc
      /\ doc.navigation \in {"mock", "ros_action", "nav2", "untyped"}
      /\ doc.navigation = "nav2" => HasNav2
  BY <1>3, <1>4, <1>6 DEF Buildable, ProviderType
<1>9. /\ "manipulation" \in DOMAIN doc
      /\ doc.manipulation \in
           {"mock", "ros_action", "follow_joint_trajectory", "moveit", "untyped"}
  BY <1>3, <1>4, <1>7 DEF Buildable, ProviderType
<1>10. "policies" \in DOMAIN doc =>
         \A i \in DOMAIN doc.policies :
           doc.policies[i] \in {"robot_safety/VelocityLimitPolicy", "VelocityLimitPolicy"}
  <2> SUFFICES ASSUME "policies" \in DOMAIN doc, NEW i \in DOMAIN doc.policies
               PROVE  doc.policies[i] \in PolicyNames
    BY DEF PolicyNames
  <2>1. p.policies = doc.policies
    BY <1>2
  <2>2. doc.policies # <<>>
    OBVIOUS
  <2>3. Policies(p) = doc.policies
    BY <2>1, <2>2 DEF Policies
  <2> QED
    BY <1>4, <2>3 DEF Buildable
<1>11. "planner" \in DOMAIN doc => doc.planner \in {"", "simple", "yaml_graph"}
  BY <1>2, <1>4 DEF Buildable, PlannerType, Planners
<1> QED
  BY <1>1, <1>5, <1>8, <1>9, <1>10, <1>11 DEF LegalRuntime

\* What the documents of a runtime that was built must say.
LEMMA Documents ==
  ASSUME Earned, runtime # Refused, input \in Inputs
  PROVE  LET doc == input.profile
             p   == runtime.profile
         IN  /\ LegalProfile(doc) /\ LegalRuntime(input.runtime)
             /\ p.navigation => "navigation" \in DOMAIN doc /\ doc["navigation"]
             /\ p.manipulation => "manipulation" \in DOMAIN doc /\ doc["manipulation"]
             /\ runtime.policies = {[linear  |-> doc.max_linear_velocity,
                                     angular |-> doc.max_angular_velocity]}
<1>. DEFINE doc == input.profile
            p == Profile(doc)
<1>1. /\ LoadsProfile(doc)
      /\ LoadsConfig(input.runtime) /\ Buildable(Config(input.runtime))
      /\ runtime.profile = p
      /\ runtime.policies = {[linear  |-> p.max_linear_velocity,
                              angular |-> p.max_angular_velocity]}
  <2>. HIDE DEF p
  <2> QED
    BY DEF Earned, Built, Build, p
<1>2. LegalProfile(doc)
  BY <1>1, LoadedProfile, InputsAssumption
<1>3. LegalRuntime(input.runtime)
  BY <1>1, LoadedRuntime
<1>4. \A key \in DOMAIN NoProfile :
        p[key] = IF key \in DOMAIN doc THEN doc[key] ELSE NoProfile[key]
  BY DEF Profile, Read
<1>5. /\ {"navigation", "manipulation", "max_linear_velocity", "max_angular_velocity"}
           \subseteq DOMAIN NoProfile
      /\ NoProfile["navigation"] = FALSE /\ NoProfile["manipulation"] = FALSE
  BY DEF NoProfile
<1>6. "max_linear_velocity" \in DOMAIN doc /\ "max_angular_velocity" \in DOMAIN doc
  BY <1>2 DEF LegalProfile
<1>7. /\ p.max_linear_velocity = doc.max_linear_velocity
      /\ p.max_angular_velocity = doc.max_angular_velocity
  <2>. HIDE DEF p
  <2> QED
    BY <1>4, <1>5, <1>6
<1>8. /\ p.navigation => "navigation" \in DOMAIN doc /\ doc["navigation"]
      /\ p.manipulation => "manipulation" \in DOMAIN doc /\ doc["manipulation"]
  <2>. HIDE DEF p
  <2> QED
    BY <1>4, <1>5
<1> QED
  BY <1>1, <1>2, <1>3, <1>7, <1>8

\* No goal is started under a profile or a runtime document with anything in it that a
\* reader or the builder has to refuse, for a capability the profile does not declare,
\* for a trajectory the arm could not follow, or faster than a limit that is a number:
\* for any documents, instructions and graphs.
THEOREM OnlyAllowedStarts == Spec => []StartedIsAllowed
<1>1. ASSUME Inv, Earned PROVE StartedIsAllowed
  <2> SUFFICES ASSUME NEW c \in Call, goal[c] # "none"
               PROVE  LET doc == input.profile
                      IN  /\ LegalProfile(doc) /\ LegalRuntime(input.runtime)
                          /\ LET capability == On(c)
                             IN capability \in DOMAIN doc /\ doc[capability]
                          /\ Within(Requested(step[c].kind).linear, doc.max_linear_velocity)
                          /\ Within(Requested(step[c].kind).angular, doc.max_angular_velocity)
                          /\ class_[On(c)] = "FollowJointTrajectoryManipulationPort" =>
                               step[c].positions > 0 /\ step[c].names \in {0, step[c].positions}
    BY DEF StartedIsAllowed
  <2>. DEFINE doc == input.profile
              kind == step[c].kind
  <2>1. Admitted(c) /\ Executable(c)
    BY <1>1 DEF Inv, Placed, Earned
  <2>2. /\ LegalProfile(doc) /\ LegalRuntime(input.runtime)
        /\ runtime.profile.navigation => "navigation" \in DOMAIN doc /\ doc["navigation"]
        /\ runtime.profile.manipulation => "manipulation" \in DOMAIN doc /\ doc["manipulation"]
        /\ runtime.policies = {[linear  |-> doc.max_linear_velocity,
                                angular |-> doc.max_angular_velocity]}
    BY <1>1, <2>1, Documents DEF Admitted, Inv, TypeOK
  <2>3. On(c) \in DOMAIN doc /\ doc[On(c)]
    BY <2>1, <2>2 DEF Admitted, Capable, On
  <2>4. PolicyAdmits([linear  |-> doc.max_linear_velocity,
                      angular |-> doc.max_angular_velocity], Requested(kind))
    BY <2>1, <2>2 DEF Admitted
  <2>5. doc.max_linear_velocity \in Double /\ doc.max_angular_velocity \in Double
    BY <1>1, <2>2, InputsAssumption DEF Inv, TypeOK, LegalProfile, NumericKey
  <2>6. /\ Requested(kind).linear \in Nat /\ Requested(kind).angular \in Nat
    BY DEF Requested
  <2>7. ASSUME NEW limit \in Double, NEW v \in Nat, ~Leq(limit, 0), ~Less(limit, Magnitude(v))
        PROVE  Within(v, limit)
    <3>1. Magnitude(v) = v /\ 0 # NaN /\ v # NaN
      BY NaNAssumption DEF Magnitude
    <3> QED
      BY <2>7, <3>1 DEF Within, Leq, Less, Double
  <2>8. /\ Within(Requested(kind).linear, doc.max_linear_velocity)
        /\ Within(Requested(kind).angular, doc.max_angular_velocity)
    BY <2>4, <2>5, <2>6, <2>7 DEF PolicyAdmits
  <2>9. class_[On(c)] = "FollowJointTrajectoryManipulationPort" =>
          step[c].positions > 0 /\ step[c].names \in {0, step[c].positions}
    BY <2>1 DEF Admitted, Executable, TrajectoryStep
  <2> QED
    BY <2>2, <2>3, <2>8, <2>9
<1>2. Init => Earned
  BY DEF Init, ActionInit, Earned, Built
<1>3. Inv /\ Earned /\ [Next]_vars => Earned'
  BY EarnedStep
<1> QED
  BY <1>1, <1>2, <1>3, InitInv, InvStep, PTL DEF Spec

-------------------------------------------------------------------------------
(* The ports implement CapabilityPort.                                     *)

\* What the refinement mapping makes of a place, and of the state of a goal.
Seen(place) ==
  IF place \in {"starting", "asking", "numbered", "pretending"} THEN "starting" ELSE place

Told(state) ==
  CASE state \in {"none", "sent", "rejected"} -> "none"
    [] state \in {"executing", "canceling"}   -> "running"
    [] state \in {"unsuccessful", "aborted"}  -> "failed"
    [] OTHER                                  -> state

LEMMA Observed ==
  ASSUME ActionTypeOK
  PROVE  \A c \in Call : Phase[c] = Seen(at[c]) /\ Motion[c] = Told(goal[c])
  BY DEF Phase, Motion, Seen, Told

LEMMA PhaseMoves ==
  ASSUME ActionTypeOK, NEW c \in Call, NEW x, at' = [at EXCEPT ![c] = x]
  PROVE  Phase' = [Phase EXCEPT ![c] = Seen(x)]
  BY DEF ActionTypeOK, Phase, Seen

LEMMA PhaseStays ==
  ASSUME ActionTypeOK, NEW c \in Call, NEW x, at' = [at EXCEPT ![c] = x],
         Seen(x) = Seen(at[c])
  PROVE  Phase' = Phase
  BY DEF ActionTypeOK, Phase, Seen

LEMMA MotionMoves ==
  ASSUME ActionTypeOK, NEW c \in Call, NEW g, goal' = [goal EXCEPT ![c] = g]
  PROVE  Motion' = [Motion EXCEPT ![c] = Told(g)]
  BY DEF ActionTypeOK, Motion, Told

LEMMA MotionStays ==
  ASSUME ActionTypeOK, NEW c \in Call, NEW g, goal' = [goal EXCEPT ![c] = g],
         Told(g) = Told(goal[c])
  PROVE  Motion' = Motion
  BY DEF ActionTypeOK, Motion, Told

LEMMA Unobserved ==
  /\ UNCHANGED at => Phase' = Phase
  /\ UNCHANGED goal => Motion' = Motion
  BY DEF Phase, Motion

PromisedStep(c) ==
  \/ Promised!BeginStart(c) \/ Promised!TakeGoal(c) \/ Promised!StartSucceeds(c)
  \/ Promised!StartFails(c) \/ Promised!CancelGoal(c) \/ Promised!BeginWait(c)
  \/ Promised!GoalEnds(c) \/ Promised!WaitReturns(c)

Stutters == UNCHANGED <<Phase, Motion, result>>

LEMMA ServerKeepsPromise ==
  ASSUME ActionTypeOK, Placed, NEW c \in Call, Capability(c)
  PROVE  PromisedStep(c) \/ Stutters
<1>1. UNCHANGED <<at, result>> /\ Phase' = Phase
  BY Unobserved
  DEF Capability, Server, ServerAccepts, ServerRejects, ServerCancels, ServerEnds, callVars
<1>2. Phase[c] = Seen(at[c]) /\ Motion[c] = Told(goal[c])
  BY Observed
<1>3. CASE ServerAccepts(c)
  <2>1. Motion' = [Motion EXCEPT ![c] = "running"] /\ Motion[c] = "none"
    BY <1>2, <1>3, MotionMoves DEF ServerAccepts, Told
  <2>2. Phase[c] = "starting" \/ result[c] = "Timeout"
    BY <1>2, <1>3 DEF ServerAccepts, Placed, Seen
  <2> QED
    BY <1>1, <2>1, <2>2 DEF PromisedStep, Promised!TakeGoal
<1>4. CASE ServerRejects(c) \/ ServerCancels(c)
  <2>1. Motion' = Motion
    BY <1>4, MotionStays DEF ServerRejects, ServerCancels, Told
  <2> QED
    BY <1>1, <2>1 DEF Stutters
<1>5. CASE ServerEnds(c)
  <2>1. PICK end \in GoalEnd : goal' = [goal EXCEPT ![c] = end]
    BY <1>5 DEF ServerEnds
  <2>2. Motion' = [Motion EXCEPT ![c] = Told(end)] /\ Told(end) \in Promised!Ended
    BY <2>1, MotionMoves DEF Told, GoalEnd, Promised!Ended
  <2>3. Motion[c] = "running"
    BY <1>2, <1>5 DEF ServerEnds, Told
  <2> QED
    BY <1>1, <2>2, <2>3 DEF PromisedStep, Promised!GoalEnds
<1> QED
  BY <1>3, <1>4, <1>5 DEF Capability, Server

LEMMA ClientKeepsPromise ==
  ASSUME ActionTypeOK, LedgerHonest, Placed, NEW c \in Call, ClientStep(c), ~IsMock(c)
  PROVE  PromisedStep(c) \/ Stutters
<1> USE DEF Return
<1>a. Phase[c] = Seen(at[c]) /\ Motion[c] = Told(goal[c])
  BY Observed
<1>b. ASSUME at' = [at EXCEPT ![c] = "done"] PROVE Phase' = [Phase EXCEPT ![c] = "done"]
  BY <1>b, PhaseMoves DEF Seen
<1>1. CASE Refuse(c)
  <2>1. Motion[c] = "none" /\ Phase[c] = "starting"
    BY <1>a, <1>1 DEF Refuse, Placed, Told, Seen
  <2> QED
    BY <1>1, <1>b, <2>1, Unobserved DEF Refuse, PromisedStep, Promised!StartFails
<1>2. CASE Send(c, TRUE)
  <2>1. Phase' = Phase
    BY <1>2, PhaseStays DEF Send, Seen
  <2>2. Motion' = Motion
    BY <1>2, MotionStays DEF Send, Placed, Told
  <2> QED
    BY <1>2, <2>1, <2>2 DEF Send, Stutters
<1>3. CASE RequestTimesOut(c)
  <2>1. Phase[c] = "starting"
    BY <1>a, <1>3 DEF RequestTimesOut, Seen
  <2> QED
    BY <1>3, <1>b, <2>1, Unobserved DEF RequestTimesOut, PromisedStep, Promised!StartFails
<1>4. CASE Rejected(c)
  <2>1. Motion[c] = "none" /\ Phase[c] = "starting"
    BY <1>a, <1>4 DEF Rejected, Told, Seen
  <2> QED
    BY <1>4, <1>b, <2>1, Unobserved DEF Rejected, PromisedStep, Promised!StartFails
<1>5. CASE Number(c)
  <2>1. Phase' = Phase
    BY <1>5, PhaseStays DEF Number, Seen
  <2> QED
    BY <1>5, <2>1, Unobserved DEF Number, Stutters
<1>6. CASE StartReturns(c)
  <2>1. Phase' = [Phase EXCEPT ![c] = "started"] /\ Phase[c] = "starting"
    BY <1>a, <1>6, PhaseMoves DEF StartReturns, Seen
  <2>2. Motion[c] # "none"
    BY <1>a, <1>6 DEF StartReturns, Placed, Backend, Told
  <2> QED
    BY <1>6, <2>1, <2>2, Unobserved DEF StartReturns, PromisedStep, Promised!StartSucceeds
<1>7. CASE Cancel(c)
  <2>1. Phase[c] = "started"
    BY <1>a, <1>7 DEF Cancel, Seen
  <2> QED
    BY <1>7, <1>b, <2>1, Unobserved DEF Cancel, PromisedStep, Promised!CancelGoal
<1>8. CASE BeginWait(c)
  <2>1. at' = [at EXCEPT ![c] = "waiting"] /\ UNCHANGED <<goal, result>> /\ at[c] = "started"
    BY <1>8 DEF BeginWait, LedgerHonest
  <2>2. Phase' = [Phase EXCEPT ![c] = "waiting"] /\ Phase[c] = "started"
    BY <1>a, <2>1, PhaseMoves DEF Seen
  <2> QED
    BY <2>1, <2>2, Unobserved DEF PromisedStep, Promised!BeginWait
<1>9. CASE WaitTimesOut(c)
  <2>1. Phase[c] = "waiting"
    BY <1>a, <1>9 DEF WaitTimesOut, Seen
  <2> QED
    BY <1>9, <1>b, <2>1, Unobserved DEF WaitTimesOut, PromisedStep, Promised!WaitReturns
<1>10. ASSUME NEW st,
              st = IF Flagged(c) THEN FlaggedStatus(goal[c]) ELSE PlainStatus(goal[c]),
              WaitReturns(c, st)
       PROVE  PromisedStep(c)
  <2>1. /\ Phase[c] = "waiting" /\ goal[c] \in GoalEnd
        /\ result' = [result EXCEPT ![c] = st]
        /\ Phase' = [Phase EXCEPT ![c] = "done"] /\ Motion' = Motion
    BY <1>10, <1>a, <1>b, Unobserved DEF WaitReturns, Seen
  <2>2. goal[c] = "unsuccessful" => Flagged(c)
    BY DEF Placed
  <2>3. \/ Motion[c] = "succeeded" /\ st = "Ok"
        \/ Motion[c] = "canceled" /\ st = "Canceled"
        \/ Motion[c] = "failed" /\ st = "Failed"
    BY <1>10, <1>a, <2>1, <2>2 DEF GoalEnd, FlaggedStatus, PlainStatus, Told
  <2> QED
    BY <2>1, <2>3 DEF PromisedStep, Promised!WaitReturns
<1> QED
  BY <1>1, <1>2, <1>3, <1>4, <1>5, <1>6, <1>7, <1>8, <1>9, <1>10 DEF ClientStep

LEMMA MockKeepsPromise ==
  ASSUME ActionTypeOK, Numbered, LedgerHonest, Placed, NEW c \in Call, Mock(c), IsMock(c)
  PROVE  PromisedStep(c) \/ Stutters
<1> USE DEF Return
<1>a. Phase[c] = Seen(at[c]) /\ Motion[c] = Told(goal[c])
  BY Observed
<1>b. ASSUME at' = [at EXCEPT ![c] = "done"] PROVE Phase' = [Phase EXCEPT ![c] = "done"]
  BY <1>b, PhaseMoves DEF Seen
<1>1. CASE MockStart(c)
  <2>1. Phase' = Phase /\ Phase[c] = "starting"
    BY <1>a, <1>1, PhaseStays DEF MockStart, Seen
  <2>2. Motion' = [Motion EXCEPT ![c] = "running"] /\ Motion[c] = "none"
    BY <1>a, <1>1, MotionMoves DEF MockStart, Placed, Told
  <2> QED
    BY <1>1, <2>1, <2>2 DEF MockStart, PromisedStep, Promised!TakeGoal
<1>2. CASE MockArrives(c)
  <2>1. Motion' = [Motion EXCEPT ![c] = "succeeded"] /\ Motion[c] = "running"
    BY <1>a, <1>2, MotionMoves DEF MockArrives, Told
  <2> QED
    BY <1>2, <2>1, Unobserved
    DEF MockArrives, callVars, PromisedStep, Promised!GoalEnds, Promised!Ended
<1>3. CASE MockStartReturns(c)
  <2>1. Phase' = [Phase EXCEPT ![c] = "started"] /\ Phase[c] = "starting"
    BY <1>a, <1>3, PhaseMoves DEF MockStartReturns, Seen
  <2>2. Motion[c] # "none"
    BY <1>a, <1>3 DEF MockStartReturns, Told
  <2> QED
    BY <1>3, <2>1, <2>2, Unobserved
    DEF MockStartReturns, PromisedStep, Promised!StartSucceeds
<1>4. CASE MockCancel(c)
  <2>1. Phase[c] = "started"
    BY <1>a, <1>4 DEF MockCancel, Seen
  <2> QED
    BY <1>4, <1>b, <2>1, Unobserved DEF MockCancel, PromisedStep, Promised!CancelGoal
<1>5. CASE BeginWait(c)
  <2>1. at' = [at EXCEPT ![c] = "waiting"] /\ UNCHANGED <<goal, result>> /\ at[c] = "started"
    BY <1>5 DEF BeginWait, LedgerHonest
  <2>2. Phase' = [Phase EXCEPT ![c] = "waiting"] /\ Phase[c] = "started"
    BY <1>a, <2>1, PhaseMoves DEF Seen
  <2> QED
    BY <2>1, <2>2, Unobserved DEF PromisedStep, Promised!BeginWait
<1>6. CASE MockWait(c)
  <2>1. at[c] = "waiting" /\ goal' = goal /\ goal[c] = "succeeded"
    BY <1>6 DEF MockWait, Placed
  <2>2. id[c] \notin canceled_[On(c)]
    BY <2>1 DEF Placed, LedgerHonest, On, Port
  <2>3. /\ at' = [at EXCEPT ![c] = "done"] /\ result' = [result EXCEPT ![c] = "Ok"]
    BY <1>6, <2>2 DEF MockWait
  <2>4. Phase[c] = "waiting" /\ Motion[c] = "succeeded"
    BY <1>a, <2>1 DEF Seen, Told
  <2> QED
    BY <1>b, <2>1, <2>3, <2>4, Unobserved DEF PromisedStep, Promised!WaitReturns
<1> QED
  BY <1>1, <1>2, <1>3, <1>4, <1>5, <1>6 DEF Mock

\* Whichever adapter a port has, its calls keep the promise of its interface: for any
\* number of concurrent calls, and any mix of adapters.
THEOREM PortsKeepPromise == Spec => ImplementsPort
<1>1. Init => Promised!PortInit
  BY DEF Init, ActionInit, Promised!PortInit, Phase, Motion
<1>2. ASSUME Inv, [Next]_vars
      PROVE  [Promised!PortNext]_(Promised!portVars)
  <2>1. ActionTypeOK /\ Numbered /\ LedgerHonest /\ Placed
    BY <1>2 DEF Inv, TypeOK
  <2>2. ASSUME NEW c \in Call, PromisedStep(c) \/ Stutters
        PROVE  [Promised!PortNext]_(Promised!portVars)
    BY <2>2 DEF PromisedStep, Stutters, Promised!PortNext, Promised!portVars
  <2>3. ASSUME UNCHANGED <<at, goal, result>>
        PROVE  [Promised!PortNext]_(Promised!portVars)
    BY <2>3, Unobserved DEF Promised!portVars
  <2>4. CASE BuildRuntime \/ Configure \/ Activate \/ TakeDown \/ UNCHANGED vars
    BY <2>3, <2>4
    DEF BuildRuntime, Configure, Activate, TakeDown, vars, actionVars, callVars
  <2>5. ASSUME NEW c \in Call, BeginStep(c)
        PROVE  [Promised!PortNext]_(Promised!portVars)
    <3>1. /\ at[c] = "idle" /\ at' = [at EXCEPT ![c] = "starting"]
          /\ UNCHANGED <<goal, result>>
      BY <2>5 DEF BeginStep, Start
    <3>2. Phase' = [Phase EXCEPT ![c] = "starting"] /\ Phase[c] = "idle"
      BY <2>1, <3>1, PhaseMoves, Observed DEF Seen
    <3> QED
      BY <2>2, <3>1, <3>2, Unobserved DEF PromisedStep, Promised!BeginStart
  <2>6. ASSUME NEW c \in Call, CallStep(c)
        PROVE  [Promised!PortNext]_(Promised!portVars)
    <3>1. Capability(c) \/ (~IsMock(c) /\ ClientStep(c)) \/ (IsMock(c) /\ Mock(c))
      BY <2>6, AdapterSteps DEF CallStep
    <3> QED
      BY <2>1, <2>2, <3>1, ServerKeepsPromise, ClientKeepsPromise, MockKeepsPromise
  <2> QED
    BY <1>2, <2>4, <2>5, <2>6 DEF Next, Terminated
<1> QED
  BY <1>1, <1>2, InitInv, InvStep, PTL DEF Spec, ImplementsPort, Promised!PortSpec

===============================================================================
