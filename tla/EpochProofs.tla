---------------------------- MODULE EpochProofs ----------------------------
(***************************************************************************)
(* Failover epochs, for any number of Pods.                                *)
(*                                                                         *)
(* The Pod list of a pass may be stale, but only in one direction: nobody  *)
(* but the pass itself annotates epochs, and a Pod that is re-created      *)
(* starts without one.  So the epochs of the list bound those in the API   *)
(* server, and the epoch of a failover exceeds them all until it has been  *)
(* recorded.                                                               *)
(***************************************************************************)
EXTENDS SetReconcilerProofs

\* The pass has a failover epoch that it has not recorded yet.
EpochChosen == pc \in {"promote", "annotate"}

\* A Pod that is not there has no epoch; the list of a pass bounds the epochs
\* on the Pods, and so does an epoch that is chosen and not recorded.
EpochInv ==
    /\ \A p \in Pod : snap[p].phase = "Absent" => snap[p].epoch = 0
    /\ \A p \in Pod : api[p].phase = "Absent" => api[p].epoch = 0
    /\ pc = "probe" => \A p \in Pod : api[p].epoch <= snap[p].epoch
    /\ EpochChosen => \A p \in Pod : api[p].epoch < epoch

\* Outside Annotate an epoch only changes to none, when its Pod goes away.
LEMMA EpochsStay ==
    ASSUME TypeInv, [Next]_vars, ~Annotate
    PROVE  \A p \in Pod :
             \/ api'[p].epoch = api[p].epoch /\ api'[p].phase # "Absent"
             \/ api'[p].epoch = api[p].epoch /\ api'[p].phase = api[p].phase
             \/ /\ api'[p].epoch = 0
                /\ "Absent" \in {api[p].phase, api'[p].phase}
<1>t. api \in [Pod -> PodObject]
  BY DEF TypeInv, TypeOK
<1>1. CASE \E r \in Pod : LabelPod(r)
  BY <1>1, <1>t, LabelEffect
<1>2. CASE \E r \in Pod : PodDelete(r) \/ PodCreate(r)
  BY <1>2, <1>t DEF PodDelete, PodCreate, AbsentPod, PodObject
<1>3. CASE \E r \in Pod : PodStart(r) \/ OperatorLabel(r)
  BY <1>3, <1>t DEF PodStart, OperatorLabel, PodObject
<1>4. CASE api' = api
  BY <1>4
<1>5. QED
  BY <1>1, <1>2, <1>3, <1>4
  DEF Next, Controller, ListEmpty, ListPods, ListError, ProbePod, AdoptMaster,
      ResolveMasters, WaitForMaster, NoCandidate, StartFailover, DemotePod,
      DemotesDone, Promote, PromoteError, RedirectPod, RedirectsDone,
      LabelsDone, Recovery, RedisBoot, Disruption, RedisCrash, LateCommand,
      ControllerRestart, TimePasses, vars, cluster

\* The epoch of a failover exceeds every epoch of the Pod list.
LEMMA EpochExceeds ==
    ASSUME TypeInv, EpochInv, StartFailover
    PROVE  \A p \in Pod : api'[p].epoch < epoch'
<1>1. PICK e \in {0} \cup {snap[p].epoch : p \in Listed} :
        IsMaxEpoch(e) /\ epoch' = NextEpoch(e)
  BY DEF StartFailover
<1>2. /\ api \in [Pod -> PodObject] /\ snap \in [Pod -> PodObject]
      /\ epoch \in Nat /\ Listed \subseteq Pod
  BY DEF TypeInv, TypeOK, Listed
<1>3. e \in Nat
  BY <1>1, <1>2 DEF PodObject
<1>4. e < epoch'
  BY <1>1, <1>2, <1>3 DEF NextEpoch
<1>5. ASSUME NEW p \in Pod PROVE api[p].epoch <= e
  <2>1. snap[p].epoch <= e
    BY <1>1, <1>3 DEF IsMaxEpoch, Listed, EpochInv
  <2>2. api[p].epoch <= snap[p].epoch
    BY DEF EpochInv, StartFailover, Probed
  <2>3. QED
    BY <1>2, <1>3, <2>1, <2>2 DEF PodObject
<1>6. epoch' \in Nat /\ api' = api
  BY <1>1, <1>2, <1>3 DEF NextEpoch, StartFailover, cluster
<1>7. QED
  BY <1>2, <1>3, <1>4, <1>5, <1>6 DEF PodObject

\* Every step keeps EpochInv.
LEMMA EpochNext == TypeInv /\ TypeInv' /\ EpochInv /\ [Next]_vars => EpochInv'
<1> SUFFICES ASSUME TypeInv, TypeInv', EpochInv, [Next]_vars PROVE EpochInv'
  OBVIOUS
<1>t. /\ api \in [Pod -> PodObject] /\ api' \in [Pod -> PodObject]
      /\ epoch \in Nat /\ snap \in [Pod -> PodObject]
  BY DEF TypeInv, TypeOK
<1>1. CASE Annotate
  <2>1. pc' = "redirect" /\ snap' = snap
    BY <1>1 DEF Annotate, GoTo
  <2>2. \A p \in Pod : api[p].phase = "Absent" => api'[p].epoch = api[p].epoch
    BY <1>1, <1>t DEF Annotate, PatchPod
  <2>3. QED
    BY <1>1, <2>1, <2>2, AnnotateEffect DEF EpochInv, EpochChosen
<1>2. CASE ~Annotate
  <2>1. \A p \in Pod : /\ api'[p].epoch <= api[p].epoch
                       /\ api'[p].phase = "Absent" => api'[p].epoch = 0
    BY <1>2, <1>t, EpochsStay DEF EpochInv, PodObject
  <2>2. CASE StartFailover
    BY <2>2, <2>1, EpochExceeds DEF StartFailover, GoTo, EpochInv, EpochChosen
  <2>3. CASE ListPods
    BY <2>3, <2>1, <1>t DEF ListPods, EpochInv, EpochChosen, cluster, PodObject
  <2>4. CASE pc' = "idle" /\ snap' = NoSnapshot
    BY <2>4, <2>1 DEF EpochInv, EpochChosen, NoSnapshot, AbsentPod
  <2>5. CASE /\ snap' = snap
             /\ pc' = "probe" => pc = "probe"
             /\ EpochChosen' => EpochChosen /\ epoch' = epoch
    <3>1. pc' = "probe" => \A p \in Pod : api'[p].epoch <= snap'[p].epoch
      BY <2>5, <2>1, <1>t DEF EpochInv, PodObject
    <3>2. EpochChosen' => \A p \in Pod : api'[p].epoch < epoch'
      BY <2>5, <2>1, <1>t DEF EpochInv, PodObject
    <3>3. QED
      BY <2>5, <2>1, <3>1, <3>2 DEF EpochInv
  <2>6. QED
    BY <1>2, <2>2, <2>3, <2>4, <2>5
    DEF Next, Controller, ListEmpty, ListError, ProbePod, AdoptMaster,
        ResolveMasters, WaitForMaster, NoCandidate, DemotePod, DemotesDone,
        Promote, PromoteError, RedirectPod, RedirectsDone, LabelPod,
        LabelsDone, SyncLabels, GoTo, EndPass, Recovery, RedisBoot, PodCreate,
        PodStart, Disruption, RedisCrash, PodDelete, OperatorLabel,
        LateCommand, ControllerRestart, TimePasses, vars, pass, setState,
        EpochChosen
<1>3. QED
  BY <1>1, <1>2

\* EpochInv holds throughout.
LEMMA EpochCorrect == Spec => []EpochInv
<1>1. Init => EpochInv
  BY DEF Init, EpochInv, EpochChosen, NoSnapshot, AbsentPod
<1>2. QED
  BY <1>1, EpochNext, TypeCorrect, PTL DEF Spec

\* A step that records an epoch is Annotate, and the epoch is a larger one.
LEMMA RecordedLarger ==
    ASSUME TypeInv, EpochInv, [Next]_vars, NEW p \in Pod, Recorded(p)
    PROVE  /\ Annotate /\ p = master /\ api'[p].epoch = epoch
           /\ \A q \in Pod : api[q].epoch < api'[p].epoch
<1>1. Annotate
  BY EpochsStay DEF Recorded
<1>2. QED
  BY <1>1, AnnotateEffect DEF Recorded, Annotate, EpochInv, EpochChosen

\* With any number of Pods, across controller restarts, failed patches and
\* re-created Pods, the epoch on a Pod is only replaced by a larger one
\* (controller.go:301-308), as long as the Pod lives.
THEOREM EpochMonotone == Spec => EpochNeverRegresses
<1> DEFINE Larger == \A p \in Pod :
                       api'[p].epoch # api[p].epoch /\ api'[p].phase # "Absent"
                       => api'[p].epoch > api[p].epoch
<1>1. TypeInv /\ EpochInv /\ [Next]_vars => [Larger]_vars
  <2> SUFFICES ASSUME TypeInv, EpochInv, [Next]_vars, NEW p \in Pod,
                      api'[p].epoch # api[p].epoch, api'[p].phase # "Absent"
               PROVE  api'[p].epoch > api[p].epoch
    OBVIOUS
  <2>1. Recorded(p)
    <3>1. CASE Annotate
      BY <3>1, AnnotateEffect DEF Recorded, Annotate, EpochInv, EpochChosen,
                                  TypeInv, TypeOK, PodObject
    <3>2. CASE ~Annotate
      BY <3>2, EpochsStay DEF EpochInv
    <3>3. QED
      BY <3>1, <3>2
  <2>2. QED
    BY <2>1, RecordedLarger DEF TypeInv, TypeOK, PodObject, Annotate
<1>2. QED
  BY <1>1, TypeCorrect, EpochCorrect, PTL DEF Spec, EpochNeverRegresses

\* Only Annotate (controller.go:329-336) records an epoch.
LEMMA LastStays ==
    ASSUME [Next]_vars, ~Annotate
    PROVE  lastEpoch' = lastEpoch
BY DEF Next, Controller, ListEmpty, ListPods, ListError, ProbePod, AdoptMaster,
       ResolveMasters, WaitForMaster, NoCandidate, StartFailover, DemotePod,
       DemotesDone, Promote, PromoteError, RedirectPod, RedirectsDone, LabelPod,
       LabelsDone, Recovery, RedisBoot, PodCreate, PodStart, Disruption,
       RedisCrash, PodDelete, OperatorLabel, LateCommand, ControllerRestart,
       TimePasses, vars, history

\* A patch of the annotation that changes nothing is no record.
LEMMA LastRecorded ==
    ASSUME TypeInv, EpochInv, Annotate, \A p \in Pod : ~Recorded(p)
    PROVE  lastEpoch' = lastEpoch
<1>1. master \in Pod /\ api \in [Pod -> PodObject] /\ epoch \in Nat
  BY DEF TypeInv, TypeOK, Annotate
<1>2. epoch # 0 /\ api[master].epoch # epoch
  BY <1>1 DEF EpochInv, EpochChosen, Annotate, PodObject
<1>3. api' # [api EXCEPT ![master] = [api[master] EXCEPT !.epoch = epoch]]
  BY <1>1, <1>2 DEF Recorded, PodObject
<1>4. api' = api
  BY <1>3 DEF Annotate, PatchPod
<1>5. QED
  BY <1>4 DEF Annotate

\* While every Pod stays, the last epoch stays on some Pod.
HistoryInv == NoneReplaced => \E p \in Pod : lastEpoch <= api[p].epoch

\* Every step keeps HistoryInv.
LEMMA HistoryNext ==
    TypeInv /\ TypeInv' /\ EpochInv /\ HistoryInv /\ [Next]_vars => HistoryInv'
<1> SUFFICES ASSUME TypeInv, TypeInv', EpochInv, HistoryInv, [Next]_vars
             PROVE  HistoryInv'
  OBVIOUS
<1>t. /\ api \in [Pod -> PodObject] /\ api' \in [Pod -> PodObject]
      /\ epoch \in Nat /\ lastEpoch \in Nat
  BY DEF TypeInv, TypeOK
<1>1. CASE \E p \in Pod : Recorded(p)
  <2>1. PICK p \in Pod : Recorded(p)
    BY <1>1
  <2>2. /\ Annotate /\ p = master /\ api'[p].epoch = epoch
        /\ lastEpoch' = epoch
    <3>1. Annotate /\ p = master /\ api'[p].epoch = epoch
      BY <2>1, RecordedLarger
    <3>2. QED
      BY <2>1, <3>1 DEF Annotate, Recorded
  <2>3. QED
    BY <1>t, <2>2, AnnotateEffect DEF HistoryInv
<1>2. CASE ~(\E p \in Pod : Recorded(p))
  <2>1. lastEpoch' = lastEpoch
    <3>1. CASE Annotate
      BY <1>2, <3>1, LastRecorded
    <3>2. CASE ~Annotate
      BY <3>2, LastStays
    <3>3. QED
      BY <3>1, <3>2
  <2> SUFFICES ASSUME NoneReplaced'
               PROVE  \E p \in Pod : lastEpoch <= api'[p].epoch
    BY <2>1 DEF HistoryInv
  <2>2. NoneReplaced /\ \A p \in Pod : api'[p].epoch = api[p].epoch
    <3> USE DEF NoneReplaced
    <3>1. CASE Annotate
      BY <1>2, <3>1, AnnotateEffect
      DEF Recorded, Annotate, EpochInv, EpochChosen, TypeInv, TypeOK, PodObject
    <3>2. CASE \E r \in Pod : LabelPod(r)
      BY <3>2, LabelEffect
    <3>3. CASE \E r \in Pod : PodStart(r) \/ OperatorLabel(r)
      BY <1>t, <3>3 DEF PodStart, OperatorLabel, PodObject
    <3>4. ~\E r \in Pod : PodCreate(r) \/ PodDelete(r)
      <4>1. ASSUME NEW r \in Pod, PodDelete(r) PROVE FALSE
        BY <1>t, <4>1 DEF PodDelete, AbsentPod
      <4>2. ASSUME NEW r \in Pod, PodCreate(r) PROVE FALSE
        <5>1. api[r].inc \in Nat /\ api'[r].inc = api[r].inc + 1
          BY <1>t, <4>2 DEF PodCreate, AbsentPod, PodObject
        <5>2. QED
          BY <5>1
      <4>3. QED
        BY <4>1, <4>2
    <3>6. CASE api' = api
      BY <3>6
    <3>5. QED
      BY <3>1, <3>2, <3>3, <3>4, <3>6
      DEF Next, Controller, ListEmpty, ListPods, ListError,
          ProbePod, AdoptMaster, ResolveMasters, WaitForMaster, NoCandidate,
          StartFailover, DemotePod, DemotesDone, Promote, PromoteError,
          RedirectPod, RedirectsDone, LabelsDone, Recovery, RedisBoot,
          Disruption, RedisCrash, LateCommand, ControllerRestart, TimePasses,
          vars, cluster
  <2>3. QED
    BY <2>1, <2>2 DEF HistoryInv
<1>3. QED
  BY <1>1, <1>2

\* Until a Pod is deleted, the epochs recorded over the life of a set of any size
\* increase strictly (config.go:19-20), whichever Pods they are recorded on and
\* however many controllers record them.
THEOREM EpochsAlwaysIncrease == Spec => EpochsIncrease
<1> DEFINE Larger == \A p \in Pod :
                       NoneReplaced /\ Recorded(p) => api'[p].epoch > lastEpoch
<1>1. Init => HistoryInv
  BY SizeAssumption
  DEF Init, HistoryInv, AbsentPod, Pod
<1>2. TypeInv /\ EpochInv /\ HistoryInv /\ [Next]_vars => [Larger]_vars
  <2> SUFFICES ASSUME TypeInv, EpochInv, HistoryInv, [Next]_vars,
                      NEW p \in Pod, NoneReplaced, Recorded(p)
               PROVE  api'[p].epoch > lastEpoch
    OBVIOUS
  <2>1. PICK q \in Pod : lastEpoch <= api[q].epoch
    BY DEF HistoryInv
  <2>2. api[q].epoch < api'[p].epoch /\ api'[p].epoch = epoch
    BY RecordedLarger
  <2>3. QED
    BY <2>1, <2>2 DEF TypeInv, TypeOK, PodObject
<1>3. QED
  BY <1>1, <1>2, HistoryNext, TypeCorrect, EpochCorrect, PTL
  DEF Spec, EpochsIncrease
=============================================================================
