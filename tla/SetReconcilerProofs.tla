------------------------ MODULE SetReconcilerProofs ------------------------
(***************************************************************************)
(* What SetReconciler guarantees for any number of Pods, any threshold and *)
(* any number of faults.                                                   *)
(***************************************************************************)
EXTENDS SetReconciler, TLAPS

-----------------------------------------------------------------------------
(* Type correctness.                                                       *)

\* The typed local variables of a pass.
PassOK ==
    /\ pc \in Steps
    /\ snap \in [Pod -> PodObject]
    /\ seen \in [Pod -> Sightings]
    /\ todo \in SUBSET Pod
    /\ master \in Pod \cup {NoPod}

\* The typed state of the cluster.
ClusterOK ==
    /\ api \in [Pod -> PodObject]
    /\ up \in [Pod -> BOOLEAN]
    /\ replicaOf \in [Pod -> Addr \cup {NoOne}]
    /\ conf \in [Pod -> Addr \cup {NoOne}]
    /\ late \in SUBSET Command

\* A Pod object that is absent is a Pod object.
LEMMA AbsentPodType ==
    ASSUME NEW i \in Nat
    PROVE  AbsentPod(i) \in PodObject
BY DEF AbsentPod, PodObject, Phases, Labels

\* The end of a pass leaves its variables typed.
LEMMA EndPassType == EndPass => PassOK'
<1>1. NoSnapshot \in [Pod -> PodObject]
  BY AbsentPodType DEF NoSnapshot
<1>2. NotProbed \in [Pod -> Sightings]
  BY DEF NotProbed, Sightings
<1>3. QED
  BY <1>1, <1>2 DEF EndPass, PassOK, Steps

\* A jump inside a pass leaves its variables typed.
LEMMA GoToType ==
    ASSUME PassOK, NEW s \in Steps, NEW m \in Pod, NEW S \in SUBSET Pod,
           GoTo(s, m, S)
    PROVE  PassOK'
BY DEF GoTo, PassOK

\* The effect of a fault, or of none, on the fault counter.
LEMMA FaultType ==
    ASSUME faults \in Nat
    PROVE  /\ NoFault => faults' \in Nat
           /\ \A k : Fault(k) => faults' \in Nat
BY DEF NoFault, Fault

\* A REPLICAOF sent by the pass leaves the cluster typed.
LEMMA ReplicateOfType ==
    ASSUME TypeOK, NEW p \in Pod, master \in Pod, ReplicateOf(p),
           UNCHANGED <<api, up>>
    PROVE  ClusterOK' /\ faults' \in Nat
<1>1. Target(p) \in Addr
  BY DEF Target, SnapAddr, Addr, TypeOK, PodObject
<1>2. faults' \in Nat
  BY FaultType DEF ReplicateOf, TypeOK
<1>3. replicaOf' \in [Pod -> Addr \cup {NoOne}]
  BY <1>1 DEF ReplicateOf, Replicate, TypeOK
<1>4. conf' \in [Pod -> Addr \cup {NoOne}]
  BY <1>1 DEF ReplicateOf, RewriteConfig, TypeOK
<1>5. late' \in SUBSET Command
  BY <1>1 DEF ReplicateOf, TimeOut, Command, TypeOK
<1>6. QED
  BY <1>2, <1>3, <1>4, <1>5 DEF ClusterOK, TypeOK

\* A patch leaves the Pod objects typed.
LEMMA PatchPodType ==
    ASSUME TypeOK, NEW p \in Pod, NEW object \in PodObject,
           PatchPod(p, object)
    PROVE  api' \in [Pod -> PodObject] /\ faults' \in Nat
<1>1. faults' \in Nat
  BY FaultType DEF PatchPod, TypeOK
<1>2. QED
  BY <1>1 DEF PatchPod, TypeOK

\* TypeOK is not inductive by itself: a REPLICAOF carries the address of the
\* chosen master, so a master has to be chosen wherever one is used.
TypeInv ==
    /\ TypeOK
    /\ pc \in {"demote", "promote", "annotate", "redirect", "label"}
       => master \in Pod

\* The initial states are typed.
LEMMA TypeInit == Init => TypeInv
<1> SUFFICES ASSUME Init PROVE TypeInv
  OBVIOUS
<1>1. AbsentPod(0) \in PodObject
  BY AbsentPodType
<1>2. api \in [Pod -> PodObject]
  BY DEF Init, AbsentPod, PodObject, Phases, Labels
<1>3. NoSnapshot \in [Pod -> PodObject] /\ NotProbed \in [Pod -> Sightings]
  BY <1>1 DEF NoSnapshot, NotProbed, Sightings
<1>4. /\ up \in [Pod -> BOOLEAN]
      /\ replicaOf \in [Pod -> Addr \cup {NoOne}]
      /\ conf \in [Pod -> Addr \cup {NoOne}]
      /\ late \in SUBSET Command
  BY DEF Init
<1>5. missing \in NotMissing .. Threshold /\ sinceMaster \in 0 .. Threshold
  BY ConfigAssumption DEF Init, NotMissing
<1>6. faults \in Nat /\ epoch \in Nat /\ restarts \in Nat /\ lastEpoch \in Nat
  BY DEF Init
<1>7. /\ pc \in Steps /\ todo \in SUBSET Pod /\ master \in Pod \cup {NoPod}
      /\ spoiled \in SUBSET {"patch", "operator", "controller"}
  BY DEF Init, Steps
<1>8. snap \in [Pod -> PodObject] /\ seen \in [Pod -> Sightings]
  BY <1>3 DEF Init
<1>9. pc \notin {"demote", "promote", "annotate", "redirect", "label"}
  BY DEF Init
<1>10. QED
  BY <1>2, <1>4, <1>5, <1>6, <1>7, <1>8, <1>9 DEF TypeInv, TypeOK

\* The steps of a pass that read the Pod list and the probes, and decide.
LEMMA TypeDecide ==
    ASSUME TypeInv,
           \/ ListEmpty \/ ListPods \/ ListError
           \/ \E p \in Pod : ProbePod(p)
           \/ AdoptMaster \/ ResolveMasters
           \/ WaitForMaster \/ NoCandidate \/ StartFailover
    PROVE  TypeInv'
<1> USE ConfigAssumption DEF history
<1>1. CASE ListEmpty
  BY <1>1 DEF ListEmpty, ClearTimer, TypeInv, TypeOK, cluster, pass, NotMissing
<1>2. CASE ListPods
  BY <1>2
  DEF ListPods, TypeInv, TypeOK, cluster, setState, Steps, Sightings
<1>3. CASE ListError
  BY <1>3, FaultType DEF ListError, TypeInv, TypeOK, cluster, setState, pass
<1>4. CASE \E p \in Pod : ProbePod(p)
  BY <1>4, FaultType
  DEF ProbePod, Sees, Sightings, TypeInv, TypeOK, cluster, setState
<1>5. CASE AdoptMaster
  <2>1. PICK m \in Pod : SyncLabels(m)
    BY <1>5 DEF AdoptMaster
  <2>2. GoTo("label", m, {p \in Listed : snap[p].label # WantedLabel(p, m)})
    BY <2>1 DEF SyncLabels
  <2>3. PassOK' /\ master' = m
    BY <2>2, GoToType DEF TypeInv, TypeOK, PassOK, Listed, Steps, GoTo
  <2>4. QED
    BY <1>5, <2>3
    DEF AdoptMaster, ClearTimer, TypeInv, TypeOK, PassOK, cluster, NotMissing
<1>6. CASE ResolveMasters
  <2>1. PICK m \in Masters : GoTo("demote", m, Demoted(m))
    BY <1>6 DEF ResolveMasters
  <2>2. PassOK' /\ master' = m /\ m \in Pod
    BY <2>1, GoToType
    DEF TypeInv, TypeOK, PassOK, Demoted, Masters, Steps, GoTo
  <2>3. QED
    BY <1>6, <2>2
    DEF ResolveMasters, ClearTimer, TypeInv, TypeOK, PassOK, cluster, NotMissing
<1>7. MissingFor \in 0 .. Threshold
  BY DEF MissingFor, TypeInv, TypeOK, NotMissing
<1>8. CASE WaitForMaster \/ NoCandidate
  <2>1. PassOK' /\ pc' = "idle"
    BY <1>8, EndPassType DEF WaitForMaster, NoCandidate, EndPass
  <2>2. missing' = MissingFor /\ UNCHANGED <<cluster, faults, epoch, history>>
    BY <1>8, Zenon DEF WaitForMaster, NoCandidate
  <2>3. QED
    BY <1>7, <2>1, <2>2 DEF TypeInv, TypeOK, PassOK, cluster, NotMissing
<1>9. CASE StartFailover
  <2>1. PICK c \in Replicas : GoTo("promote", c, {})
    BY <1>9 DEF StartFailover
  <2>2. PassOK' /\ master' = c /\ c \in Pod
    BY <2>1, GoToType DEF TypeInv, TypeOK, PassOK, Replicas, Steps, GoTo
  <2>3. epoch' \in Nat
    <3>1. \A e \in {0} \cup {snap[p].epoch : p \in Listed} : e \in Nat
      BY DEF TypeInv, TypeOK, Listed, PodObject
    <3>2. QED
      BY <1>9, <3>1 DEF StartFailover, NextEpoch, TypeInv, TypeOK
  <2>4. QED
    BY <1>7, <1>9, <2>2, <2>3
    DEF StartFailover, TypeInv, TypeOK, PassOK, cluster, NotMissing
<1>10. QED
  BY <1>1, <1>2, <1>3, <1>4, <1>5, <1>6, <1>8, <1>9

\* The steps of a pass that carry the decision out.
LEMMA TypeAct ==
    ASSUME TypeInv,
           \/ \E p \in Pod : DemotePod(p) \/ RedirectPod(p) \/ LabelPod(p)
           \/ DemotesDone \/ RedirectsDone \/ LabelsDone
           \/ Promote \/ PromoteError \/ Annotate
    PROVE  TypeInv'
<1> USE ConfigAssumption DEF history
<1>1. ASSUME NEW p \in Pod, DemotePod(p) \/ RedirectPod(p)
      PROVE  TypeInv'
  <2>1. master \in Pod /\ UNCHANGED <<api, up>> /\ ReplicateOf(p)
    BY <1>1 DEF DemotePod, RedirectPod, TypeInv
  <2>2. ClusterOK' /\ faults' \in Nat
    BY <2>1, ReplicateOfType DEF TypeInv
  <2>3. PassOK' /\ master' \in Pod
    BY <1>1, <2>1, GoToType
    DEF DemotePod, RedirectPod, TypeInv, TypeOK, PassOK, Steps, GoTo
  <2>4. QED
    BY <1>1, <2>2, <2>3
    DEF DemotePod, RedirectPod, TypeInv, TypeOK, PassOK, ClusterOK, setState
<1>2. ASSUME NEW p \in Pod, LabelPod(p)
      PROVE  TypeInv'
  <2>1. [api[p] EXCEPT !.label = WantedLabel(p, master)] \in PodObject
    BY DEF TypeInv, TypeOK, PodObject, WantedLabel, Labels
  <2>2. api' \in [Pod -> PodObject] /\ faults' \in Nat
    BY <1>2, <2>1, PatchPodType DEF LabelPod, TypeInv
  <2>3. PassOK' /\ master' \in Pod
    BY <1>2, GoToType DEF LabelPod, TypeInv, TypeOK, PassOK, Steps, GoTo
  <2>4. QED
    BY <1>2, <2>2, <2>3 DEF LabelPod, TypeInv, TypeOK, PassOK, setState
<1>3. CASE DemotesDone \/ RedirectsDone
  <2>1. master \in Pod /\ SyncLabels(master)
    BY <1>3 DEF DemotesDone, RedirectsDone, TypeInv
  <2>2. PassOK' /\ master' \in Pod
    BY <2>1, GoToType
    DEF SyncLabels, TypeInv, TypeOK, PassOK, Listed, Steps, GoTo
  <2>3. missing' \in {missing, NotMissing} /\ epoch' = epoch
        /\ UNCHANGED <<cluster, faults, history>>
    BY <1>3 DEF DemotesDone, RedirectsDone, ClearTimer, setState
  <2>4. QED
    BY <2>2, <2>3 DEF TypeInv, TypeOK, PassOK, cluster, NotMissing
<1>4. CASE LabelsDone
  <2>1. PassOK' /\ pc' = "idle"
    BY <1>4, EndPassType DEF LabelsDone, EndPass
  <2>2. QED
    BY <1>4, <2>1 DEF LabelsDone, TypeInv, TypeOK, PassOK, cluster, setState
<1>5. CASE Promote
  <2>1. PassOK' /\ master' \in Pod
    BY <1>5, GoToType DEF Promote, TypeInv, TypeOK, PassOK, Steps, GoTo
  <2>2. replicaOf' \in [Pod -> Addr \cup {NoOne}]
    BY <1>5 DEF Promote, Replicate, TypeInv, TypeOK
  <2>3. conf' \in [Pod -> Addr \cup {NoOne}]
    BY <1>5 DEF Promote, RewriteConfig, TypeInv, TypeOK
  <2>4. QED
    BY <1>5, <2>1, <2>2, <2>3 DEF Promote, TypeInv, TypeOK, PassOK, setState
<1>6. CASE PromoteError
  <2>1. PassOK' /\ pc' = "idle"
    BY <1>6, EndPassType DEF PromoteError, EndPass
  <2>2. replicaOf' \in [Pod -> Addr \cup {NoOne}] /\ faults' \in Nat
    BY <1>6, FaultType DEF PromoteError, PromoteFails, Replicate, TypeInv, TypeOK
  <2>3. late' \in SUBSET Command
    BY <1>6 DEF PromoteError, PromoteFails, TimeOut, Command, TypeInv, TypeOK
  <2>4. QED
    BY <1>6, <2>1, <2>2, <2>3 DEF PromoteError, TypeInv, TypeOK, PassOK, setState
<1>7. CASE Annotate
  <2>1. master \in Pod
    BY <1>7 DEF Annotate, TypeInv
  <2>2. [api[master] EXCEPT !.epoch = epoch] \in PodObject
    BY <2>1 DEF TypeInv, TypeOK, PodObject
  <2>3. api' \in [Pod -> PodObject] /\ faults' \in Nat
    BY <1>7, <2>1, <2>2, PatchPodType DEF Annotate, TypeInv
  <2>4. PassOK' /\ master' \in Pod
    BY <1>7, <2>1, GoToType
    DEF Annotate, TypeInv, TypeOK, PassOK, Replicas, Steps, GoTo
  <2>5. QED
    BY <1>7, <2>3, <2>4 DEF Annotate, TypeInv, TypeOK, PassOK, setState
<1>8. QED
  BY <1>1, <1>2, <1>3, <1>4, <1>5, <1>6, <1>7

\* The steps of the environment.
LEMMA TypeEnv ==
    ASSUME TypeInv, Recovery \/ Disruption \/ TimePasses
    PROVE  TypeInv'
<1> USE ConfigAssumption DEF history
<1>1. ASSUME NEW p \in Pod, RedisBoot(p) \/ PodCreate(p) \/ PodStart(p)
      PROVE  TypeInv'
  <2>1. api' \in [Pod -> PodObject]
    <3>1. [AbsentPod(api[p].inc + 1) EXCEPT !.phase = "Pending"] \in PodObject
      BY DEF TypeInv, TypeOK, AbsentPod, PodObject, Phases, Labels
    <3>2. CASE PodCreate(p)
      BY <3>1, <3>2 DEF PodCreate, TypeInv, TypeOK
    <3>3. CASE RedisBoot(p)
      BY <3>3 DEF RedisBoot, TypeInv, TypeOK
    <3>4. CASE PodStart(p)
      <4>1. api \in [Pod -> PodObject] /\ api' = [api EXCEPT ![p].phase = "Running"]
        BY <3>4 DEF PodStart, TypeInv, TypeOK
      <4>2. QED
        BY <4>1 DEF PodObject, Phases
    <3>5. QED
      BY <1>1, <3>2, <3>3, <3>4
  <2>2. QED
    BY <1>1, <2>1
    DEF RedisBoot, PodCreate, PodStart, TypeInv, TypeOK, setState, pass
<1>2. ASSUME NEW p \in Pod, RedisCrash(p) \/ PodDelete(p) \/ OperatorLabel(p)
      PROVE  TypeInv'
  <2>1. api' \in [Pod -> PodObject]
    <3>1. AbsentPod(api[p].inc) \in PodObject
      BY AbsentPodType DEF TypeInv, TypeOK, PodObject
    <3>2. CASE OperatorLabel(p)
      <4>1. PICK l \in Labels : api' = [api EXCEPT ![p].label = l]
        BY <3>2 DEF OperatorLabel
      <4>2. QED
        BY <4>1 DEF TypeInv, TypeOK, PodObject
    <3>3. CASE RedisCrash(p) \/ PodDelete(p)
      BY <3>1, <3>3 DEF RedisCrash, PodDelete, TypeInv, TypeOK
    <3>4. QED
      BY <1>2, <3>2, <3>3
  <2>2. late' \in SUBSET Command
    BY <1>2 DEF RedisCrash, PodDelete, OperatorLabel, LateLost, TypeInv, TypeOK
  <2>3. QED
    BY <1>2, <2>1, <2>2, FaultType
    DEF RedisCrash, PodDelete, OperatorLabel, TypeInv, TypeOK, setState, pass
<1>l. ASSUME NEW p \in Pod, LateCommand(p)
      PROVE  TypeInv'
  <2>1. PICK c \in late : Replicate(p, c.to) /\ late' = late \ {c}
    BY <1>l DEF LateCommand
  <2>2. c.to \in Addr \cup {NoOne}
    BY DEF Command, TypeInv, TypeOK
  <2>3. replicaOf' \in [Pod -> Addr \cup {NoOne}] /\ late' \in SUBSET Command
    BY <2>1, <2>2 DEF Replicate, TypeInv, TypeOK
  <2>4. QED
    BY <1>l, <2>3 DEF LateCommand, TypeInv, TypeOK, setState, pass
<1>3. CASE ControllerRestart
  <2>1. PassOK' /\ pc' = "idle"
    BY <1>3, EndPassType DEF ControllerRestart, EndPass
  <2>2. QED
    BY <1>3, <2>1, FaultType
    DEF ControllerRestart, ClearTimer, TypeInv, TypeOK, PassOK, cluster, NotMissing
<1>4. CASE TimePasses
  BY <1>4 DEF TimePasses, TypeInv, TypeOK, cluster, pass, NotMissing
<1>5. QED
  BY <1>1, <1>2, <1>l, <1>3, <1>4 DEF Recovery, Disruption

\* Every step keeps the state typed.
LEMMA TypeNext == TypeInv /\ [Next]_vars => TypeInv'
<1> SUFFICES ASSUME TypeInv, [Next]_vars PROVE TypeInv'
  OBVIOUS
<1>1. CASE Controller
  BY <1>1, TypeDecide, TypeAct DEF Controller
<1>2. CASE Recovery \/ Disruption \/ TimePasses
  BY <1>2, TypeEnv
<1>3. CASE UNCHANGED vars
  BY <1>3 DEF TypeInv, TypeOK, vars, cluster, setState, pass, history
<1>4. QED
  BY <1>1, <1>2, <1>3 DEF Next

\* Every reachable state of the set and of the controller is well typed: in
\* particular no step of controller.go uses a master before one is chosen.
THEOREM TypeCorrect == Spec => []TypeInv
BY TypeInit, TypeNext, PTL DEF Spec

\* The type invariant of the runs.
THEOREM TypeOKCorrect == Spec => []TypeOK
<1>1. TypeInv => TypeOK
  BY DEF TypeInv
<1>2. QED
  BY <1>1, TypeCorrect, PTL

-----------------------------------------------------------------------------
(* The failure threshold.                                                  *)

\* The timer of the set never runs ahead of the time for which no pass has
\* found a master. A promotion under way has seen the timer at the threshold.
TimerInv ==
    /\ missing <= sinceMaster
    /\ PromotionWaitsOutThreshold

\* Every step keeps the timer behind the time without a master.
LEMMA TimerNext == TypeInv /\ TimerInv /\ [Next]_vars => TimerInv'
<1> SUFFICES ASSUME TypeInv, TimerInv, [Next]_vars PROVE TimerInv'
  OBVIOUS
<1> USE ConfigAssumption DEF TimerInv, PromotionWaitsOutThreshold, NotMissing, history
<1>a. missing \in -1 .. Threshold /\ sinceMaster \in 0 .. Threshold
  BY DEF TypeInv, TypeOK
<1>0. CASE ListEmpty
  BY <1>a, <1>0 DEF ListEmpty, ClearTimer, pass
<1>1. CASE ListPods \/ ListError \/ \E p \in Pod : ProbePod(p)
  BY <1>1 DEF ListPods, ListError, ProbePod, setState, pass
<1>2. CASE AdoptMaster \/ ResolveMasters
  BY <1>2 DEF AdoptMaster, ResolveMasters, ClearTimer, SyncLabels, GoTo
<1>3. CASE WaitForMaster \/ NoCandidate
  BY <1>a, <1>3 DEF WaitForMaster, NoCandidate, MissingFor, EndPass
<1>4. CASE StartFailover
  <2>1. MissingFor >= Threshold /\ missing' = MissingFor /\ sinceMaster' = sinceMaster
    BY <1>4, Zenon DEF StartFailover
  <2>2. QED
    BY <1>a, <2>1 DEF MissingFor
<1>5. CASE \E p \in Pod : DemotePod(p) \/ RedirectPod(p) \/ LabelPod(p)
  BY <1>5 DEF DemotePod, RedirectPod, LabelPod, GoTo, setState
<1>6. CASE DemotesDone \/ RedirectsDone \/ LabelsDone
  BY <1>a, <1>6
  DEF DemotesDone, RedirectsDone, LabelsDone, SyncLabels, GoTo, EndPass,
      ClearTimer, setState
<1>7. CASE Promote \/ PromoteError \/ Annotate
  BY <1>7 DEF Promote, PromoteError, Annotate, GoTo, EndPass, setState
<1>8. CASE Recovery \/ Disruption
  BY <1>a, <1>8
  DEF Recovery, RedisBoot, PodCreate, PodStart, Disruption, RedisCrash,
      PodDelete, OperatorLabel, LateCommand, ControllerRestart, ClearTimer,
      EndPass, setState, pass
<1>9. CASE TimePasses
  BY <1>a, <1>9 DEF TimePasses, pass
<1>10. CASE UNCHANGED vars
  BY <1>10 DEF vars, setState, pass
<1>11. QED
  BY <1>0, <1>1, <1>2, <1>3, <1>4, <1>5, <1>6, <1>7, <1>8, <1>9, <1>10
  DEF Next, Controller

\* For any threshold and any faults, REPLICAOF NO ONE is only sent when no pass
\* has found a master for the failure threshold (controller.go:193-206).
THEOREM ThresholdRespected == Spec => []PromotionWaitsOutThreshold
<1>1. Init => TimerInv
  BY DEF Init, TimerInv, PromotionWaitsOutThreshold, NotMissing
<1>2. TimerInv => PromotionWaitsOutThreshold
  BY DEF TimerInv
<1>3. QED
  BY <1>1, <1>2, TimerNext, TypeCorrect, PTL DEF Spec

-----------------------------------------------------------------------------
(* The refinement of SetWatch.                                             *)

\* Every step of a pass, of a fault and of the clock is one of SetWatch.
LEMMA WatchStep == TypeOK /\ [Next]_vars => [Watch!Next]_(Watch!vars)
<1> SUFFICES ASSUME TypeOK, Next PROVE Watch!Next \/ UNCHANGED Watch!vars
  BY DEF vars, Watch!vars, Watch!surroundings, cluster, setState, pass, history,
         Masters
<1> USE DEF Watch!NotMissing, NotMissing
<1>1. CASE ListEmpty
  BY <1>1 DEF ListEmpty, ClearTimer, pass, Watch!Next, Watch!Forget
<1>2. CASE ListPods \/ ListError \/ \E p \in Pod : ProbePod(p)
  BY <1>2 DEF ListPods, ListError, ProbePod, setState, pass, Watch!Next
<1>3. CASE AdoptMaster \/ ResolveMasters
  <2>1. Masters # {}
    BY <1>3 DEF AdoptMaster, ResolveMasters
  <2>2. missing' = NotMissing /\ pc = "probe" /\ pc' \in {"demote", "label"}
    BY <1>3 DEF AdoptMaster, ResolveMasters, ClearTimer, SyncLabels, GoTo, Probed
  <2>3. QED
    BY <2>1, <2>2 DEF Watch!Next, Watch!MasterFound
<1>4. CASE WaitForMaster \/ NoCandidate
  BY <1>4 DEF WaitForMaster, NoCandidate, Probed, EndPass, MissingFor,
              Watch!Next, Watch!MasterMissed, Watch!Elapsed
<1>5. CASE StartFailover
  <2>1. /\ Masters = {} /\ pc = "probe" /\ pc' = "promote"
        /\ missing' = MissingFor /\ MissingFor >= Threshold
    BY <1>5 DEF StartFailover, Probed, GoTo
  <2>2. Watch!StartFailover
    BY <2>1 DEF Watch!StartFailover, Watch!Elapsed, MissingFor
  <2>3. QED
    BY <2>2 DEF Watch!Next
<1>6. CASE DemotesDone \/ Annotate \/ LabelsDone
  BY <1>6 DEF DemotesDone, Annotate, LabelsDone, SyncLabels, GoTo, EndPass,
              setState, Watch!Next
<1>7. CASE \E p \in Pod : DemotePod(p) \/ RedirectPod(p) \/ LabelPod(p)
  BY <1>7 DEF DemotePod, RedirectPod, LabelPod, GoTo, setState, Watch!Next
<1>8. CASE Promote \/ PromoteError
  BY <1>8 DEF Promote, PromoteError, GoTo, EndPass, setState, Watch!Next,
              Watch!Promote, Watch!FailoverFailed
<1>9. CASE RedirectsDone
  BY <1>9 DEF RedirectsDone, ClearTimer, SyncLabels, GoTo, Watch!Next,
               Watch!FailoverDone
<1>10. CASE Recovery
  BY <1>10 DEF Recovery, RedisBoot, PodCreate, PodStart, setState, pass, Watch!Next
<1>11. CASE \E p \in Pod : \/ RedisCrash(p) \/ PodDelete(p) \/ OperatorLabel(p)
                          \/ LateCommand(p)
  BY <1>11 DEF RedisCrash, PodDelete, OperatorLabel, LateCommand, setState, pass,
               Watch!Next
<1>12. CASE ControllerRestart
  BY <1>12 DEF ControllerRestart, ClearTimer, EndPass, TypeOK,
               Watch!Next, Watch!Restart
<1>13. CASE TimePasses
  BY <1>13 DEF TimePasses, pass, Watch!Next, Watch!Tick
<1>14. QED
  BY <1>1, <1>2, <1>3, <1>4, <1>5, <1>6, <1>7, <1>8, <1>9, <1>10, <1>11,
     <1>12, <1>13 DEF Next, Controller, Disruption

\* One set with its controller implements SetWatch, for any number of Pods, any
\* threshold and any faults.
THEOREM WatchImplemented == Spec => ImplementsWatch
<1>1. Init => Watch!Init
  BY DEF Init, Watch!Init, Watch!NotMissing, NotMissing
<1>2. QED
  BY <1>1, WatchStep, TypeOKCorrect, PTL DEF Spec, ImplementsWatch, Watch!Spec

-----------------------------------------------------------------------------
(* Facts about single steps that the proofs of other modules use.          *)

\* NO ONE is not an address.
LEMMA NoOneNoAddress == \A q \in Pod : \A i \in Nat : NoOne # <<q, i>>
BY NoOneAssumption DEF Addr

\* SetRoleLabel changes a label and nothing else.
LEMMA LabelEffect ==
    ASSUME TypeInv, NEW p \in Pod, LabelPod(p)
    PROVE  \A q \in Pod :
             /\ api'[q].inc = api[q].inc
             /\ api'[q].phase = api[q].phase
             /\ api'[q].epoch = api[q].epoch
             /\ api'[q].label # api[q].label
                => q = p /\ api'[q].label = WantedLabel(p, master)
<1>1. api[p] \in PodObject /\ api \in [Pod -> PodObject]
  BY DEF TypeInv, TypeOK
<1>2. CASE api' = api
  BY <1>2
<1>3. CASE api' = [api EXCEPT ![p] =
                     [api[p] EXCEPT !.label = WantedLabel(p, master)]]
  BY <1>1, <1>3 DEF PodObject
<1>4. QED
  BY <1>2, <1>3 DEF LabelPod, PatchPod

\* SetAnnotations changes the epoch of the promoted Pod and nothing else.
LEMMA AnnotateEffect ==
    ASSUME TypeInv, Annotate
    PROVE  \A q \in Pod :
             /\ api'[q].inc = api[q].inc
             /\ api'[q].phase = api[q].phase
             /\ api'[q].label = api[q].label
             /\ api'[q].epoch # api[q].epoch
                => q = master /\ api'[q].epoch = epoch
<1>1. api[master] \in PodObject /\ api \in [Pod -> PodObject] /\ master \in Pod
  BY DEF Annotate, TypeInv, TypeOK
<1>2. CASE api' = api
  BY <1>2
<1>3. CASE api' = [api EXCEPT ![master] = [api[master] EXCEPT !.epoch = epoch]]
  BY <1>1, <1>3 DEF PodObject
<1>4. QED
  BY <1>2, <1>3 DEF Annotate, PatchPod

-----------------------------------------------------------------------------
(* Who replicates from whom, and which Pod is labelled master, when Redis  *)
(* does not rewrite its configuration file (ENABLE_CONFIG_REWRITE off, the *)
(* default), so that a process that boots is a standalone master, and no   *)
(* command is executed after its client gave up on it.                     *)

\* The steps of a pass in which a master is chosen and known to be one.
Settled == pc \in {"demote", "annotate", "redirect", "label"}

\* Why no loop is ever closed: whatever happens between a probe and the
\* commands that follow it, only the controller turns a master into a replica,
\* and it spares the one it has chosen. So the end of a new edge has no edge of
\* its own. Addresses of future incarnations are unknown to everybody.
TopoInv ==
    /\ late = {}
    /\ \A p \in Pod : conf[p] = NoOne
    /\ \A p, q \in Pod : \A i \in Nat :
         replicaOf[p] = <<q, i>> => i <= api[q].inc
    /\ \A p \in Pod : snap[p].inc <= api[p].inc
    /\ pc = "probe" => \A p \in Pod : seen[p] = "master" => replicaOf[p] = NoOne
    /\ Settled => replicaOf[master] = NoOne
    /\ pc \in {"demote", "redirect"} => master \notin todo
    /\ NoReplicationLoop

\* Removing edges closes no loop.
LEMMA FewerEdges ==
    ASSUME NoReplicationLoop,
           \A p, q \in Pod : Follows(p, q)' => Follows(p, q)
    PROVE  NoReplicationLoop'
BY DEF NoReplicationLoop

\* An edge to a Pod that follows nobody closes no loop.
LEMMA EdgeToRoot ==
    ASSUME NoReplicationLoop, NEW m \in Pod, NEW r \in Pod,
           \A q \in Pod : ~Follows(m, q)',
           \A p, q \in Pod : Follows(p, q)' => Follows(p, q) \/ (p = r /\ q = m)
    PROVE  NoReplicationLoop'
<1> SUFFICES ASSUME NEW S \in SUBSET Pod, S # {}
             PROVE  \E p \in S : \A q \in S : ~Follows(p, q)'
  BY DEF NoReplicationLoop
<1>1. CASE m \in S
  BY <1>1
<1>2. CASE m \notin S
  <2>1. PICK p \in S : \A q \in S : ~Follows(p, q)
    BY DEF NoReplicationLoop
  <2>2. QED
    BY <1>2, <2>1
<1>3. QED
  BY <1>1, <1>2

\* A REPLICAOF to a Pod other than the chosen master.
LEMMA TopoReplicate ==
    ASSUME ~ConfigRewrite, "late" \notin Faults, TypeInv, TopoInv, NEW r \in Pod,
           DemotePod(r) \/ RedirectPod(r)
    PROVE  TopoInv'
<1>1. /\ pc \in {"demote", "redirect"} /\ pc' = pc /\ r \in todo
      /\ master \in Pod /\ master' = master /\ todo' = todo \ {r}
      /\ snap' = snap /\ seen' = seen /\ api' = api
  BY DEF DemotePod, RedirectPod, IsFirst, GoTo, TypeInv
<1>2. r # master
  BY <1>1 DEF TopoInv
<1>3. conf' = conf /\ late' = {}
  BY DEF DemotePod, RedirectPod, ReplicateOf, RewriteConfig, Fault, TopoInv
<1>4. replicaOf' \in {replicaOf, [replicaOf EXCEPT ![r] = SnapAddr(master)]}
  BY DEF DemotePod, RedirectPod, ReplicateOf, Replicate, Target
<1>5. replicaOf'[master] = NoOne
  BY <1>1, <1>2, <1>4 DEF TopoInv, Settled, TypeInv, TypeOK
<1>6. NoReplicationLoop'
  <2>1. TypeOK'
    BY TypeAct DEF TypeInv
  <2>2. \A q \in Pod : ~Follows(master, q)'
    BY <1>1, <1>5, <2>1, NoOneAssumption
    DEF Follows, Addr, TypeOK, PodObject
  <2>3. \A p, q \in Pod :
          Follows(p, q)' => Follows(p, q) \/ (p = r /\ q = master)
    BY <1>1, <1>4 DEF Follows, SnapAddr, TypeInv, TypeOK
  <2>4. NoReplicationLoop
    BY DEF TopoInv
  <2>5. QED
    BY <1>1, <2>2, <2>3, <2>4, EdgeToRoot, Zenon
<1>7. \A p, q \in Pod : \A i \in Nat :
        replicaOf'[p] = <<q, i>> => i <= api'[q].inc
  <2>1. /\ replicaOf \in [Pod -> Addr \cup {NoOne}]
        /\ \A p, q \in Pod : \A i \in Nat : replicaOf[p] = <<q, i>> => i <= api[q].inc
        /\ snap[master].inc <= api[master].inc
    BY <1>1 DEF TopoInv, TypeInv, TypeOK
  <2>2. QED
    BY <1>1, <1>4, <2>1 DEF SnapAddr
<1>8. QED
  BY <1>1, <1>3, <1>5, <1>6, <1>7 DEF TopoInv, Settled

\* The steps of a pass that send no command to Redis.
LEMMA TopoQuiet ==
    ASSUME TypeInv, TopoInv,
           \/ ListEmpty \/ ListPods \/ ListError
           \/ \E p \in Pod : ProbePod(p) \/ LabelPod(p)
           \/ AdoptMaster \/ ResolveMasters
           \/ WaitForMaster \/ NoCandidate \/ StartFailover
           \/ DemotesDone \/ Annotate \/ RedirectsDone \/ LabelsDone
    PROVE  TopoInv'
<1>1. conf' = conf /\ replicaOf' = replicaOf /\ late' = late
  BY DEF ListEmpty, ListPods, ListError, ProbePod, LabelPod, AdoptMaster,
         ResolveMasters, WaitForMaster, NoCandidate, StartFailover,
         DemotesDone, Annotate, RedirectsDone, LabelsDone, cluster
<1>2. \A p \in Pod : api'[p].inc = api[p].inc
  <2>1. CASE Annotate \/ \E p \in Pod : LabelPod(p)
    BY <2>1, AnnotateEffect, LabelEffect
  <2>2. CASE api' = api
    BY <2>2
  <2>3. QED
    BY <2>1, <2>2
    DEF ListEmpty, ListPods, ListError, ProbePod, AdoptMaster,
        ResolveMasters, WaitForMaster, NoCandidate, StartFailover,
        DemotesDone, RedirectsDone, LabelsDone, cluster
<1>3. \A p \in Pod : snap'[p].inc <= api'[p].inc
  <2>a. \A p \in Pod : api[p].inc \in Nat /\ snap[p].inc <= api[p].inc
    BY DEF TopoInv, TypeInv, TypeOK, PodObject
  <2>1. CASE snap' = snap
    BY <1>2, <2>1, <2>a, Zenon
  <2>2. CASE snap' = api
    <3>1. \A p \in Pod : snap'[p].inc = api'[p].inc /\ api'[p].inc \in Nat
      BY <1>2, <2>2, <2>a, Zenon
    <3>2. \A n \in Nat : n <= n
      OBVIOUS
    <3>3. QED
      BY <3>1, <3>2, Zenon
  <2>3. CASE snap' = NoSnapshot
    <3>1. \A p \in Pod : snap'[p].inc = 0
      BY <2>3 DEF NoSnapshot, AbsentPod
    <3>2. \A p \in Pod : api'[p].inc \in Nat
      BY <1>2, <2>a, Zenon
    <3>3. \A n \in Nat : 0 <= n
      OBVIOUS
    <3>4. QED
      BY <3>1, <3>2, <3>3, Zenon
  <2>4. QED
    BY <2>1, <2>2, <2>3
    DEF ListEmpty, ListPods, ListError, ProbePod, LabelPod, AdoptMaster,
        ResolveMasters, WaitForMaster, NoCandidate, StartFailover,
        DemotesDone, Annotate, RedirectsDone, LabelsDone, SyncLabels, GoTo,
        EndPass, pass
<1>4. NoReplicationLoop'
  BY <1>1, <1>2, FewerEdges DEF TopoInv, Follows
<1>5. pc' = "probe" =>
        \A p \in Pod : seen'[p] = "master" => replicaOf'[p] = NoOne
  <2>1. CASE ListPods
    BY <2>1 DEF ListPods
  <2>2. CASE \E p \in Pod : ProbePod(p)
    BY <1>1, <2>2 DEF ProbePod, Sees, TopoInv, TypeInv, TypeOK
  <2>3. QED
    BY <2>1, <2>2
    DEF ListEmpty, ListError, LabelPod, AdoptMaster, ResolveMasters,
        WaitForMaster, NoCandidate, StartFailover, DemotesDone, Annotate,
        RedirectsDone, LabelsDone, SyncLabels, GoTo, EndPass, pass
<1>6. Settled' => replicaOf'[master'] = NoOne
  <2>1. CASE AdoptMaster \/ ResolveMasters
    BY <1>1, <2>1
    DEF AdoptMaster, ResolveMasters, Probed, Masters, SyncLabels, GoTo, TopoInv
  <2>2. CASE Settled /\ master' = master
    BY <1>1, <2>2 DEF TopoInv
  <2>3. QED
    BY <2>1, <2>2
    DEF ListEmpty, ListPods, ListError, ProbePod, LabelPod, WaitForMaster,
        NoCandidate, StartFailover, DemotesDone, Annotate, RedirectsDone,
        LabelsDone, SyncLabels, GoTo, EndPass, pass, Settled
<1>7. pc' \in {"demote", "redirect"} => master' \notin todo'
  BY DEF ListEmpty, ListPods, ListError, ProbePod, LabelPod, AdoptMaster,
         ResolveMasters, WaitForMaster, NoCandidate, StartFailover,
         DemotesDone, Annotate, RedirectsDone, LabelsDone, SyncLabels, GoTo,
         EndPass, pass, Demoted, Probed, TopoInv
<1>8. \A p, q \in Pod : \A i \in Nat :
        replicaOf'[p] = <<q, i>> => i <= api'[q].inc
  BY <1>1, <1>2 DEF TopoInv
<1>9. QED
  BY <1>1, <1>3, <1>4, <1>5, <1>6, <1>7, <1>8 DEF TopoInv

\* REPLICAOF NO ONE.
LEMMA TopoPromote ==
    ASSUME ~ConfigRewrite, "late" \notin Faults, TypeInv, TopoInv, Promote \/ PromoteError
    PROVE  TopoInv'
<1>1. /\ master \in Pod /\ api' = api /\ conf' = conf /\ late' = {}
      /\ replicaOf' \in {replicaOf, [replicaOf EXCEPT ![master] = NoOne]}
  BY DEF Promote, PromoteError, PromoteFails, RewriteConfig, Replicate, Fault,
         TypeInv, TopoInv
<1>2. \A p, q \in Pod : Follows(p, q)' => Follows(p, q)
  <2>1. \A q \in Pod : api[q].inc \in Nat
    BY DEF TypeInv, TypeOK, PodObject
  <2>2. QED
    BY <1>1, <2>1, NoOneNoAddress DEF Follows, TypeInv, TypeOK
<1>3. NoReplicationLoop'
  BY <1>2, FewerEdges DEF TopoInv
<1>4. \A p, q \in Pod : \A i \in Nat :
        replicaOf'[p] = <<q, i>> => i <= api'[q].inc
  BY <1>1, NoOneAssumption DEF TopoInv, Addr, TypeInv, TypeOK
<1>5. \A p \in Pod : snap'[p].inc <= api'[p].inc
  <2>1. \A p \in Pod : api[p].inc \in Nat
    BY DEF TypeInv, TypeOK, PodObject
  <2>2. \A p \in Pod : snap[p].inc <= api[p].inc
    BY DEF TopoInv
  <2>3. snap' = snap \/ snap' = NoSnapshot
    BY Zenon DEF Promote, PromoteError, GoTo, EndPass
  <2>4. \A p \in Pod : NoSnapshot[p].inc = 0
    BY DEF NoSnapshot, AbsentPod
  <2>5. QED
    BY <1>1, <2>1, <2>2, <2>3, <2>4
<1>6. Settled' => replicaOf'[master'] = NoOne
  BY <1>1
  DEF Promote, PromoteError, Replicate, GoTo, EndPass, Settled, TypeInv, TypeOK
<1>7. QED
  BY <1>1, <1>3, <1>4, <1>5, <1>6
  DEF TopoInv, Promote, PromoteError, GoTo, EndPass

\* What the environment may do to the topology: a Pod becomes a standalone
\* master or gets an address nobody knows.
LEMMA TopoEnv ==
    ASSUME TypeInv, TopoInv, Recovery \/ Disruption \/ TimePasses
    PROVE  TopoInv'
<1>t. /\ api \in [Pod -> PodObject]
      /\ replicaOf \in [Pod -> Addr \cup {NoOne}]
      /\ conf \in [Pod -> Addr \cup {NoOne}]
      /\ \A p \in Pod : api[p].inc \in Nat
  BY DEF TypeInv, TypeOK, PodObject
<1>n. \A p \in Pod : api[p].inc \in Nat
  BY <1>t
<1>l. late' = {} /\ \A p \in Pod : ~LateCommand(p)
  BY DEF Recovery, RedisBoot, PodCreate, PodStart, Disruption, RedisCrash,
         PodDelete, OperatorLabel, LateCommand, LateLost, ControllerRestart,
         TimePasses, cluster, TopoInv
<1>1. \A p \in Pod : replicaOf'[p] \in {replicaOf[p], NoOne}
  BY <1>t, <1>l
  DEF Recovery, RedisBoot, PodCreate, PodStart, Disruption, RedisCrash,
      PodDelete, OperatorLabel, ControllerRestart, TimePasses, cluster, TopoInv
<1>2. \A p \in Pod : conf'[p] = NoOne
  BY <1>t, <1>l
  DEF Recovery, RedisBoot, PodCreate, PodStart, Disruption, RedisCrash,
      PodDelete, OperatorLabel, ControllerRestart, TimePasses, cluster, TopoInv
<1>3. \A p \in Pod : api'[p].inc \in {api[p].inc, api[p].inc + 1}
  <2>1. ASSUME NEW p \in Pod, PodDelete(p) \/ PodCreate(p)
        PROVE  \A q \in Pod : api'[q].inc \in {api[q].inc, api[q].inc + 1}
    BY <1>t, <2>1 DEF PodDelete, PodCreate, AbsentPod
  <2>2. ASSUME NEW p \in Pod, PodStart(p) \/ OperatorLabel(p)
        PROVE  \A q \in Pod : api'[q].inc = api[q].inc
    BY <1>t, <2>2 DEF PodStart, OperatorLabel, PodObject
  <2>3. CASE api' = api
    BY <2>3
  <2>4. QED
    BY <1>l, <2>1, <2>2, <2>3
    DEF Recovery, RedisBoot, Disruption, RedisCrash, ControllerRestart,
        TimePasses, cluster
<1>4. \A p, q \in Pod : \A i \in Nat :
        replicaOf'[p] = <<q, i>> => replicaOf[p] = <<q, i>> /\ i <= api[q].inc
  BY <1>1, NoOneNoAddress DEF TopoInv
<1>5. \A p, q \in Pod : \A i \in Nat :
        replicaOf'[p] = <<q, i>> => i <= api'[q].inc
  BY <1>n, <1>3, <1>4
<1>6. NoReplicationLoop'
  <2>1. \A p, q \in Pod : Follows(p, q)' => Follows(p, q)
    <3> SUFFICES ASSUME NEW p \in Pod, NEW q \in Pod,
                        replicaOf'[p] = <<q, api'[q].inc>>
                 PROVE  replicaOf[p] = <<q, api[q].inc>>
      BY DEF Follows
    <3>1. api[q].inc \in Nat /\ api'[q].inc \in Nat
      BY <1>n, <1>3
    <3>2. replicaOf[p] = <<q, api'[q].inc>> /\ api'[q].inc <= api[q].inc
      BY <1>4, <3>1, Zenon
    <3>3. api'[q].inc = api[q].inc
      BY <1>3, <3>1, <3>2
    <3>4. QED
      BY <3>2, <3>3, Zenon
  <2>2. QED
    BY <2>1, FewerEdges DEF TopoInv
<1>7. CASE UNCHANGED pass
  <2>1. \A p \in Pod : snap'[p].inc <= api'[p].inc
    <3>1. \A p \in Pod : snap[p].inc \in Nat
      BY DEF TypeInv, TypeOK, PodObject
    <3>2. snap' = snap /\ \A p \in Pod : snap[p].inc <= api[p].inc
      BY <1>7 DEF TopoInv, pass
    <3>3. QED
      BY <1>3, <1>n, <3>1, <3>2
  <2>2. Settled' => replicaOf'[master'] = NoOne
    <3>1. Settled => master \in Pod
      BY DEF Settled, TypeInv
    <3>2. QED
      BY <1>1, <1>7, <3>1 DEF TopoInv, Settled, pass
  <2>3. QED
    BY <1>l, <1>1, <1>2, <1>5, <1>6, <1>7, <2>1, <2>2 DEF TopoInv, pass
<1>8. CASE ControllerRestart
  <2>1. \A p \in Pod : snap'[p].inc = 0 /\ api'[p].inc \in Nat
    <3>1. \A p \in Pod : snap'[p].inc = 0
      BY <1>8 DEF ControllerRestart, EndPass, NoSnapshot, AbsentPod
    <3>2. \A p \in Pod : api'[p].inc \in Nat
      BY <1>3, <1>n
    <3>3. QED
      BY <3>1, <3>2
  <2>2. pc' = "idle"
    BY <1>8 DEF ControllerRestart, EndPass
  <2>3. QED
    <3>1. \A p \in Pod : snap'[p].inc <= api'[p].inc
      BY <2>1
    <3>2. QED
      BY <1>l, <1>2, <1>5, <1>6, <2>2, <3>1 DEF TopoInv, Settled
<1>9. QED
  BY <1>l, <1>7, <1>8
  DEF Recovery, RedisBoot, PodCreate, PodStart, Disruption, RedisCrash,
      PodDelete, OperatorLabel, TimePasses

\* Every step keeps the topology free of loops.
LEMMA TopoNext ==
    ASSUME ~ConfigRewrite, "late" \notin Faults
    PROVE  TypeInv /\ TopoInv /\ [Next]_vars => TopoInv'
<1> SUFFICES ASSUME TypeInv, TopoInv, [Next]_vars PROVE TopoInv'
  OBVIOUS
<1>1. CASE Controller
  BY <1>1, TopoReplicate, TopoQuiet, TopoPromote DEF Controller
<1>2. CASE Recovery \/ Disruption \/ TimePasses
  BY <1>2, TopoEnv
<1>3. CASE UNCHANGED vars
  BY <1>3
  DEF TopoInv, Settled, NoReplicationLoop, Follows, vars, cluster, pass
<1>4. QED
  BY <1>1, <1>2, <1>3 DEF Next

\* A fresh set has no edges.
LEMMA TopoInit == Init => TopoInv
<1> SUFFICES ASSUME Init PROVE TopoInv
  OBVIOUS
<1>1. \A p, q \in Pod : \A i \in Nat : replicaOf[p] # <<q, i>>
  BY NoOneNoAddress DEF Init
<1>2. \A p \in Pod : api[p].inc = 0 /\ snap[p].inc = 0
  BY DEF Init, AbsentPod, NoSnapshot
<1>3. NoReplicationLoop
  BY <1>1, <1>2 DEF NoReplicationLoop, Follows
<1>4. QED
  BY <1>1, <1>2, <1>3 DEF Init, TopoInv, Settled

\* The invariant behind both theorems below.
LEMMA TopoCorrect == ASSUME ~ConfigRewrite, "late" \notin Faults PROVE Spec => []TopoInv
BY TopoInit, TopoNext, TypeCorrect, PTL DEF Spec

\* With any number of Pods and any faults but late commands, the commands of the
\* controller never close a loop of replicas (controller.go:352-369).
THEOREM LoopFree == ASSUME ~ConfigRewrite, "late" \notin Faults PROVE Spec => []NoReplicationLoop
<1>1. TopoInv => NoReplicationLoop
  BY DEF TopoInv
<1>2. QED
  BY <1>1, TopoCorrect, PTL

-----------------------------------------------------------------------------
(* The role label: who gets it, who loses it, and when two Pods carry it.  *)

\* The steps of a pass before it patches labels.
BeforeLabels == pc \in {"probe", "demote", "promote", "annotate", "redirect"}

\* Only SetRoleLabel and operators give out the master label.
LEMMA MasterLabelGiven ==
    ASSUME TypeInv, [Next]_vars, NEW p \in Pod,
           api[p].label # "master", api'[p].label = "master"
    PROVE  OperatorLabel(p) \/ (LabelPod(p) /\ p = master)
<1>t. api \in [Pod -> PodObject]
  BY DEF TypeInv, TypeOK
<1>1. CASE \E q \in Pod : LabelPod(q)
  BY <1>1, LabelEffect DEF WantedLabel
<1>2. CASE Annotate
  BY <1>2, AnnotateEffect
<1>3. CASE Recovery \/ Disruption
  <2>1. ASSUME NEW q \in Pod, PodDelete(q) \/ PodCreate(q)
        PROVE  FALSE
    BY <1>t, <2>1 DEF PodDelete, PodCreate, AbsentPod
  <2>2. ASSUME NEW q \in Pod, PodStart(q)
        PROVE  FALSE
    BY <1>t, <2>2 DEF PodStart, PodObject
  <2>3. ASSUME NEW q \in Pod, OperatorLabel(q)
        PROVE  q = p
    BY <1>t, <2>3 DEF OperatorLabel
  <2>4. QED
    BY <1>3, <2>1, <2>2, <2>3
    DEF Recovery, RedisBoot, Disruption, RedisCrash, LateCommand,
        ControllerRestart, cluster
<1>4. CASE api' = api
  BY <1>4
<1>5. QED
  BY <1>1, <1>2, <1>3, <1>4
  DEF Next, Controller, ListEmpty, ListPods, ListError, ProbePod, AdoptMaster,
      ResolveMasters, WaitForMaster, NoCandidate, StartFailover, DemotePod,
      DemotesDone, Promote, PromoteError, RedirectPod, RedirectsDone,
      LabelsDone, TimePasses, vars, cluster

\* With any number of Pods and any faults but late commands, syncLabels gives the
\* master label to a master only (controller.go:275-291).
THEOREM OnlyMastersLabeled ==
    ASSUME ~ConfigRewrite, "late" \notin Faults PROVE Spec => LabelsOnlyMasters
<1>1. ASSUME TypeInv, TopoInv, [Next]_vars, NEW p \in Pod,
             api[p].label # "master", api'[p].label = "master",
             ~OperatorLabel(p)
      PROVE  replicaOf[p] = NoOne
  BY <1>1, MasterLabelGiven DEF LabelPod, TopoInv, Settled
<1>2. TypeInv /\ TopoInv /\ [Next]_vars
      => [\A p \in Pod :
            /\ api[p].label # "master" /\ api'[p].label = "master"
            /\ ~OperatorLabel(p)
            => replicaOf[p] = NoOne]_vars
  BY <1>1
<1>3. QED
  BY <1>2, TopoCorrect, TypeCorrect, PTL DEF Spec, LabelsOnlyMasters

-----------------------------------------------------------------------------
(* The labelled master stays.                                              *)

\* What the history of the labels remembers is not forgotten, and an operator's
\* edit is remembered.
LEMMA SpoiledGrows ==
    ASSUME [Next]_vars
    PROVE  /\ spoiled \subseteq spoiled'
           /\ \A p \in Pod : OperatorLabel(p) => "operator" \in spoiled'
<1>1. CASE \E p \in Pod : LabelPod(p) \/ OperatorLabel(p)
  BY <1>1 DEF LabelPod, OperatorLabel
<1>2. CASE ControllerRestart
  BY <1>2 DEF ControllerRestart, OperatorLabel, EndPass
<1>3. CASE spoiled' = spoiled /\ ~\E p \in Pod : OperatorLabel(p)
  BY <1>3
<1>4. QED
  BY <1>1, <1>2, <1>3
  DEF Next, Controller, ListEmpty, ListPods, ListError, ProbePod, AdoptMaster,
      ResolveMasters, WaitForMaster, NoCandidate, StartFailover, DemotePod,
      DemotesDone, Promote, PromoteError, Annotate, RedirectPod, RedirectsDone,
      LabelsDone, Recovery, RedisBoot, PodCreate, PodStart, Disruption,
      RedisCrash, PodDelete, LateCommand, TimePasses, vars, history

\* Until a pass patches labels, the Pod list knows of every label there is,
\* unless an operator edited one;
\* if a labelled master is to be demoted, the master that stays is labelled.
KeptInv ==
    /\ BeforeLabels /\ "operator" \notin spoiled =>
         \A p \in Pod : api[p].label = "master" => snap[p].label = "master"
    /\ pc = "demote" =>
         /\ seen[master] = "master"
         /\ \A p \in todo : snap[p].label = "master" => snap[master].label = "master"
    /\ pc = "redirect" => \A p \in todo : seen[p] # "master"

\* Every step keeps this.
LEMMA KeptNext == TypeInv /\ KeptInv /\ [Next]_vars => KeptInv'
<1> SUFFICES ASSUME TypeInv, KeptInv, [Next]_vars PROVE KeptInv'
  OBVIOUS
<1>1. BeforeLabels' /\ "operator" \notin spoiled' =>
        \A p \in Pod : api'[p].label = "master" => snap'[p].label = "master"
  <2> SUFFICES ASSUME BeforeLabels', "operator" \notin spoiled', NEW p \in Pod, api'[p].label = "master"
               PROVE  snap'[p].label = "master"
    OBVIOUS
  <2>1. CASE ListPods
    BY <2>1 DEF ListPods, cluster
  <2>2. CASE ~ListPods
    <3>1. BeforeLabels /\ snap' = snap
      BY <2>2
      DEF BeforeLabels, Probed, Next, Controller, ListEmpty, ListError, ProbePod,
          AdoptMaster, ResolveMasters, WaitForMaster, NoCandidate,
          StartFailover, DemotePod, DemotesDone, Promote, PromoteError,
          Annotate, RedirectPod, RedirectsDone, LabelPod, LabelsDone,
          SyncLabels, GoTo, EndPass, Recovery, RedisBoot, PodCreate, PodStart,
          Disruption, RedisCrash, PodDelete, OperatorLabel, LateCommand,
          ControllerRestart, TimePasses, vars, pass
    <3>2. api[p].label = "master"
      BY <3>1, MasterLabelGiven, SpoiledGrows DEF LabelPod, BeforeLabels
    <3>3. QED
      BY <3>1, <3>2, SpoiledGrows DEF KeptInv
  <2>3. QED
    BY <2>1, <2>2
<1>2. CASE ResolveMasters
  <2>1. PICK m \in Masters : IsAuthority(m) /\ GoTo("demote", m, Demoted(m))
    BY <1>2 DEF ResolveMasters
  <2>2. \A p \in Masters : snap[p].label = "master" => snap[m].label = "master"
    BY <2>1 DEF IsAuthority, IsFirst, LabeledMasters
  <2>3. QED
    BY <1>1, <2>1, <2>2 DEF KeptInv, GoTo, Demoted, Masters
<1>3. CASE Annotate
  BY <1>1, <1>3 DEF KeptInv, Annotate, GoTo, Replicas
<1>4. CASE ~ResolveMasters /\ ~Annotate
  <2>1. pc' \in {"demote", "redirect"} =>
          /\ pc' = pc /\ todo' \subseteq todo
          /\ master' = master /\ snap' = snap /\ seen' = seen
    BY <1>4
    DEF Next, Controller, ListEmpty, ListPods, ListError, ProbePod,
        AdoptMaster, WaitForMaster, NoCandidate, StartFailover, DemotePod,
        DemotesDone, Promote, PromoteError, RedirectPod, RedirectsDone,
        LabelPod, LabelsDone, SyncLabels, GoTo, EndPass, Recovery, RedisBoot,
        PodCreate, PodStart, Disruption, RedisCrash, PodDelete, OperatorLabel,
        LateCommand, ControllerRestart, TimePasses, vars, pass
  <2>2. QED
    BY <1>1, <2>1 DEF KeptInv
<1>5. QED
  BY <1>2, <1>3, <1>4

\* Only a REPLICAOF of a demotion or a redirection makes a replica of a master.
LEMMA MasterTurned ==
    ASSUME ~ConfigRewrite, "late" \notin Faults, TypeInv, TopoInv, [Next]_vars, NEW p \in Pod,
           replicaOf[p] = NoOne, replicaOf'[p] # NoOne
    PROVE  (DemotePod(p) \/ RedirectPod(p)) /\ p \in todo
<1>t. replicaOf \in [Pod -> Addr \cup {NoOne}]
  BY DEF TypeInv, TypeOK
<1>1. ASSUME NEW r \in Pod, DemotePod(r) \/ RedirectPod(r)
      PROVE  r = p /\ p \in todo
  BY <1>t, <1>1 DEF DemotePod, RedirectPod, ReplicateOf, Replicate, IsFirst
<1>2. CASE Promote \/ PromoteError
  BY <1>t, <1>2 DEF Promote, PromoteError, PromoteFails, Replicate
<1>3. CASE Recovery \/ Disruption
  BY <1>t, <1>3
  DEF Recovery, RedisBoot, PodCreate, PodStart, Disruption, RedisCrash,
      PodDelete, OperatorLabel, LateCommand, ControllerRestart, TopoInv, cluster
<1>4. CASE replicaOf' = replicaOf
  BY <1>4
<1>5. QED
  BY <1>1, <1>2, <1>3, <1>4
  DEF Next, Controller, ListEmpty, ListPods, ListError, ProbePod, AdoptMaster,
      ResolveMasters, WaitForMaster, NoCandidate, StartFailover, DemotesDone,
      Annotate, RedirectsDone, LabelPod, LabelsDone, TimePasses, vars, cluster

\* A labelled master gives way only to another labelled master
\* (controller.go:160-176), with any number of Pods and any faults but late
\* commands, until an operator edits labels.
THEOREM LabeledMasterStays ==
    ASSUME ~ConfigRewrite, "late" \notin Faults
    PROVE  Spec => LabeledMasterKept
<1>1. Init => KeptInv
  BY DEF Init, KeptInv, BeforeLabels
<1>2. ASSUME TypeInv, TopoInv, KeptInv, [Next]_vars, NEW p \in Pod,
             "operator" \notin spoiled, seen[p] = "master", api[p].label = "master",
             replicaOf[p] = NoOne, replicaOf'[p] # NoOne
      PROVE  \E q \in Pod \ {p} : seen[q] = "master" /\ snap[q].label = "master"
  <2>1. (DemotePod(p) \/ RedirectPod(p)) /\ p \in todo
    BY <1>2, MasterTurned
  <2>2. pc = "demote"
    BY <1>2, <2>1 DEF DemotePod, RedirectPod, KeptInv
  <2>3. snap[p].label = "master"
    BY <1>2, <2>2 DEF KeptInv, BeforeLabels
  <2>4. master \in Pod \ {p}
    BY <1>2, <2>1, <2>2 DEF TypeInv, TopoInv
  <2>5. QED
    BY <1>2, <2>1, <2>2, <2>3, <2>4 DEF KeptInv
<1>3. TypeInv /\ TopoInv /\ KeptInv /\ [Next]_vars
      => [\A p \in Pod :
            /\ "operator" \notin spoiled
            /\ seen[p] = "master" /\ api[p].label = "master"
            /\ replicaOf[p] = NoOne /\ replicaOf'[p] # NoOne
            => \E q \in Pod \ {p} : seen[q] = "master"
                                    /\ snap[q].label = "master"]_vars
  BY <1>2
<1>4. QED
  BY <1>1, <1>3, KeptNext, TopoCorrect, TypeCorrect, PTL
  DEF Spec, LabeledMasterKept

-----------------------------------------------------------------------------
(* One master label outside syncLabels.                                    *)

\* Absent Pods have no label. Until something spoils the labels, the list knows
\* of them before syncLabels, and within it the Pods that still carry a stale
\* label are still to come.
LabelInv ==
    /\ \A p \in Pod : /\ api[p].phase = "Absent" => api[p].label = "none"
                      /\ snap[p].phase = "Absent" => snap[p].label = "none"
    /\ BeforeLabels /\ spoiled = {} =>
         \A p \in Pod : api[p].label = "master" => snap[p].label = "master"
    /\ pc = "label" /\ spoiled = {} =>
         \A p \in Pod : api[p].label = "master" => p = master \/ p \in todo
    /\ SingleLabelOutsideSync

\* Absent Pods stay unlabelled.
LEMMA AbsentUnlabeled ==
    ASSUME TypeInv, LabelInv, [Next]_vars
    PROVE  \A p \in Pod : /\ api'[p].phase = "Absent" => api'[p].label = "none"
                          /\ snap'[p].phase = "Absent" => snap'[p].label = "none"
<1>t. api \in [Pod -> PodObject]
  BY DEF TypeInv, TypeOK
<1>1. \A p \in Pod : api'[p].phase = "Absent" => api'[p].label = "none"
  <2>1. ASSUME NEW q \in Pod, LabelPod(q)
        PROVE  \A p \in Pod : api'[p].phase = "Absent" => api'[p].label = "none"
    <3>1. CASE api' = api
      BY <3>1 DEF LabelInv
    <3>2. CASE api[q].phase # "Absent"
      <4>1. \A p \in Pod : api'[p].phase = api[p].phase
        BY <2>1, LabelEffect, Zenon
      <4>2. \A p \in Pod : api[p].phase # "Absent" \/ api'[p].label = api[p].label
        BY <2>1, <3>2, LabelEffect
      <4>3. \A p \in Pod : api[p].phase = "Absent" => api[p].label = "none"
        BY DEF LabelInv
      <4>4. QED
        BY <4>1, <4>2, <4>3
    <3>3. QED
      BY <2>1, <3>1, <3>2 DEF LabelPod, PatchPod
  <2>2. CASE Annotate
    BY <2>2, AnnotateEffect DEF LabelInv
  <2>3. ASSUME NEW q \in Pod,
               PodDelete(q) \/ PodCreate(q) \/ PodStart(q) \/ OperatorLabel(q)
        PROVE  \A p \in Pod : api'[p].phase = "Absent" => api'[p].label = "none"
    BY <1>t, <2>3
    DEF PodDelete, PodCreate, PodStart, OperatorLabel, AbsentPod, PodObject,
        LabelInv
  <2>4. CASE api' = api
    BY <2>4 DEF LabelInv
  <2>5. QED
    BY <2>1, <2>2, <2>3, <2>4
    DEF Next, Controller, ListEmpty, ListPods, ListError, ProbePod,
        AdoptMaster, ResolveMasters, WaitForMaster, NoCandidate,
        StartFailover, DemotePod, DemotesDone, Promote, PromoteError,
        RedirectPod, RedirectsDone, LabelsDone, Recovery, RedisBoot,
        Disruption, RedisCrash, LateCommand, ControllerRestart, TimePasses,
        vars, cluster
<1>2. CASE snap' = snap \/ snap' = api
  BY <1>1, <1>2 DEF LabelInv
<1>3. CASE snap' = NoSnapshot
  BY <1>1, <1>3 DEF NoSnapshot, AbsentPod
<1>4. QED
  BY <1>2, <1>3
  DEF Next, Controller, ListEmpty, ListPods, ListError, ProbePod, AdoptMaster,
      ResolveMasters, WaitForMaster, NoCandidate, StartFailover, DemotePod,
      DemotesDone, Promote, PromoteError, Annotate, RedirectPod,
      RedirectsDone, LabelPod, LabelsDone, SyncLabels, GoTo, EndPass,
      Recovery, RedisBoot, PodCreate, PodStart, Disruption, RedisCrash,
      PodDelete, OperatorLabel, LateCommand, ControllerRestart, TimePasses,
      vars, pass

\* Outside LabelPod no Pod gets the master label, unless an operator gives it.
LEMMA NoNewLabel ==
    ASSUME TypeInv, [Next]_vars, spoiled' = {},
           \A q \in Pod : ~LabelPod(q)
    PROVE  \A p \in Pod : api'[p].label = "master" => api[p].label = "master"
BY MasterLabelGiven, SpoiledGrows

\* A step of syncLabels leaves its Pod with the wanted label, or absent.
LEMMA LabelStep ==
    ASSUME TypeInv, LabelInv, spoiled = {}, spoiled' = {},
           NEW r \in Pod, LabelPod(r)
    PROVE  \A p \in Pod : api'[p].label = "master" =>
             p = master \/ p \in todo \ {r}
<1>t. api \in [Pod -> PodObject]
  BY DEF TypeInv, TypeOK
<1>1. api'[r].label = "master" => r = master
  <2>1. CASE api[r].phase = "Absent" /\ api' = api
    BY <2>1 DEF LabelInv
  <2>2. CASE api' = [api EXCEPT ![r] =
                       [api[r] EXCEPT !.label = WantedLabel(r, master)]]
    BY <1>t, <2>2 DEF WantedLabel, PodObject
  <2>3. faults' = faults
    BY DEF LabelPod
  <2>4. ~Fault("patch")
    BY <2>3 DEF Fault, TypeInv, TypeOK
  <2>5. QED
    BY <2>1, <2>2, <2>4 DEF LabelPod, PatchPod
<1>2. \A p \in Pod \ {r} : api'[p].label = api[p].label
  BY LabelEffect
<1>3. \A p \in Pod : api[p].label = "master" => p = master \/ p \in todo
  BY DEF LabelInv, LabelPod
<1>4. QED
  BY <1>1, <1>2, <1>3

\* Every step keeps the labels in order.
LEMMA LabelNext == TypeInv /\ LabelInv /\ [Next]_vars => LabelInv'
<1> SUFFICES ASSUME TypeInv, LabelInv, [Next]_vars PROVE LabelInv'
  OBVIOUS
<1>0. CASE spoiled' # {}
  BY <1>0, AbsentUnlabeled DEF LabelInv, SingleLabelOutsideSync
<1> SUFFICES ASSUME spoiled' = {} PROVE LabelInv'
  BY <1>0
<1>s. spoiled = {}
  BY SpoiledGrows
<1>1. CASE \E r \in Pod : LabelPod(r)
  <2>1. PICK r \in Pod : LabelPod(r)
    BY <1>1
  <2>2. pc' = "label" /\ master' = master /\ todo' = todo \ {r}
    BY <2>1 DEF LabelPod, GoTo
  <2>3. QED
    BY <1>s, <2>1, <2>2, LabelStep, AbsentUnlabeled
    DEF LabelInv, BeforeLabels, SingleLabelOutsideSync
<1>2. CASE AdoptMaster \/ DemotesDone \/ RedirectsDone
  <2>1. PICK m \in Pod : SyncLabels(m)
    BY <1>2 DEF AdoptMaster, DemotesDone, RedirectsDone, TypeInv
  <2>2. BeforeLabels /\ api' = api
    BY <1>2
    DEF AdoptMaster, DemotesDone, RedirectsDone, Probed, BeforeLabels, cluster
  <2>3. /\ pc' = "label" /\ master' = m
        /\ todo' = {p \in Listed : snap[p].label # WantedLabel(p, m)}
    BY <2>1 DEF SyncLabels, GoTo
  <2>4. \A p \in Pod : api'[p].label = "master" => p = m \/ p \in todo'
    BY <1>s, <2>2, <2>3 DEF LabelInv, Listed, WantedLabel
  <2>5. QED
    BY <2>3, <2>4, AbsentUnlabeled
    DEF LabelInv, BeforeLabels, SingleLabelOutsideSync
<1>3. CASE LabelsDone
  <2>1. api' = api /\ pc = "label" /\ todo = {} /\ pc' = "idle"
    BY <1>3 DEF LabelsDone, EndPass, cluster
  <2>2. QED
    BY <1>s, <2>1, AbsentUnlabeled
    DEF LabelInv, BeforeLabels, SingleLabelOutsideSync
<1>4. CASE /\ ~(\E r \in Pod : LabelPod(r)) /\ ~LabelsDone
           /\ ~(AdoptMaster \/ DemotesDone \/ RedirectsDone)
  <2>1. \A p \in Pod : api'[p].label = "master" => api[p].label = "master"
    BY <1>4, NoNewLabel
  <2>2. /\ (pc' = "label") <=> (pc = "label")
        /\ pc = "label" => master' = master /\ todo' = todo
        /\ BeforeLabels' => (BeforeLabels /\ snap' = snap) \/ snap' = api
    BY <1>4
    DEF BeforeLabels, Probed, Next, Controller, ListEmpty,
        ListPods, ListError, ProbePod, ResolveMasters, WaitForMaster,
        NoCandidate, StartFailover, DemotePod, Promote, PromoteError,
        Annotate, RedirectPod, GoTo, EndPass, Recovery, RedisBoot, PodCreate,
        PodStart, Disruption, RedisCrash, PodDelete, OperatorLabel,
        LateCommand, ControllerRestart, TimePasses, vars, pass
  <2>3. QED
    BY <1>s, <2>1, <2>2, AbsentUnlabeled DEF LabelInv, SingleLabelOutsideSync
<1>5. QED
  BY <1>1, <1>2, <1>3, <1>4

\* With any number of Pods and any crashes, deletions, failed and late commands,
\* two Pods carry the master label only inside syncLabels
\* (controller.go:275-291), until a label patch fails, the controller stops
\* inside syncLabels or an operator edits labels.
THEOREM SingleLabel == Spec => []SingleLabelOutsideSync
<1>1. Init => LabelInv
  BY DEF Init, LabelInv, BeforeLabels, SingleLabelOutsideSync, AbsentPod,
         NoSnapshot
<1>2. LabelInv => SingleLabelOutsideSync
  BY DEF LabelInv
<1>3. QED
  BY <1>1, <1>2, LabelNext, TypeCorrect, PTL DEF Spec
============================================================================
