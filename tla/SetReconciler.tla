--------------------------- MODULE SetReconciler ---------------------------
(***************************************************************************)
(* One replication set and the controller that reconciles it.              *)
(*                                                                         *)
(* The module models controller.reconcile for a single set, one step per   *)
(* call the code makes to the Kubernetes API or to a Redis server          *)
(* (internal/controller/controller.go), interleaved with everything that   *)
(* can happen to the set between two such calls: Redis processes crash and *)
(* boot again, Pods are deleted and re-created under the same name with a  *)
(* new IP, calls fail, replies are lost, a command that timed out is       *)
(* executed after all, an operator edits labels and the controller itself  *)
(* is replaced by another replica.                                         *)
(*                                                                         *)
(* Pods are named by their StatefulSet ordinal, so the order of the        *)
(* integers is the order of the Pod list (ListRedisPods sorts it).         *)
(***************************************************************************)
EXTENDS Integers, FiniteSets

CONSTANTS
    N,              \* number of Pods in the set
    Threshold,      \* MASTER_FAILURE_THRESHOLD_SECONDS, in clock ticks
    MaxOffset,      \* replication offsets are 0..MaxOffset
    ConfigRewrite,  \* ENABLE_CONFIG_REWRITE
    Strategy,       \* INITIAL_MASTER_STRATEGY
    Preferred,      \* Pods annotated redis-controller/preferred-master=true
    Faults,         \* kinds of fault that may happen
    MaxFaults,      \* how many faults happen in one behaviour
    NoOne           \* the "NO ONE" of REPLICAOF NO ONE

FaultKinds == {"list", "probe", "malformed", "command", "reply", "late",
               "patch", "crash", "delete", "operator", "controller"}

Strategies == {"first-healthy", "lowest-pod-ordinal", "annotation-preferred"}

Pod    == 0 .. N-1
NoPod  == -1
Addr   == Pod \X Nat          \* a Pod IP: the Pod's name and its incarnation
Offset == 0 .. MaxOffset
Link   == {"", "up", "down"}  \* master_link_status; "" when INFO omits it

ASSUME SizeAssumption == N \in Nat \ {0}
ASSUME ConfigAssumption ==
    /\ Threshold \in Nat
    /\ MaxOffset \in Nat
    /\ ConfigRewrite \in BOOLEAN
    /\ Strategy \in Strategies
    /\ Preferred \subseteq Pod
ASSUME FaultAssumption == Faults \subseteq FaultKinds /\ MaxFaults \in Nat
ASSUME NoOneAssumption == NoOne \notin Addr

VARIABLES
    \* The cluster.
    api,          \* the Pod objects held by the API server
    up,           \* whether the Pod's Redis process answers
    replicaOf,    \* whom it replicates from, NoOne for a master; for a
                  \* process that is down, what it will boot with
    conf,         \* the replicaof directive of its configuration file
    late,         \* commands whose client has given up and that the process
                  \* has not read yet
    faults,       \* number of faults so far
    \* setState, the controller's memory of the set between two passes.
    missing,      \* time since masterMissingAt, NotMissing when that is zero
    epoch,        \* failoverEpoch
    \* Local variables of the pass in progress.
    pc,           \* the call the pass makes next
    snap,         \* the Pod list it works on
    seen,         \* what the probe of each Pod returned
    todo,         \* the Pods left in the current loop
    master,       \* the Pod chosen as master, or NoPod
    \* History, read by properties only.
    sinceMaster,  \* time since a pass of this controller last found a master
                  \* or the set gone, or since it started (up to Threshold)
    spoiled,      \* the kinds of fault that left labels syncLabels did not mean
    restarts,     \* number of controllers replaced so far
    lastEpoch     \* the epoch that was recorded last on a Pod

cluster  == <<api, up, replicaOf, conf, late>>
setState == <<missing, epoch>>
pass     == <<pc, snap, seen, todo, master>>
history  == <<sinceMaster, spoiled, restarts, lastEpoch>>
vars     == <<cluster, faults, setState, pass, history>>

NotMissing == -1
Labels     == {"none", "master", "replica"}
Phases     == {"Absent", "Pending", "Running"}
PodObject  == [phase : Phases, inc : Nat, label : Labels, epoch : Nat]
Sightings  == {"skipped", "pending", "unreached", "master", "slave", "other"}
Command    == [pod : Pod, to : Addr \cup {NoOne}, at : Nat]
Steps      == {"idle", "probe", "demote", "promote", "annotate", "redirect",
               "label"}

\* The values every variable stays within, whatever the order of steps: the
\* clocks stop at Threshold and a pass only ever chooses a Pod of the set.
TypeOK ==
    /\ api \in [Pod -> PodObject]
    /\ up \in [Pod -> BOOLEAN]
    /\ replicaOf \in [Pod -> Addr \cup {NoOne}]
    /\ conf \in [Pod -> Addr \cup {NoOne}]
    /\ late \in SUBSET Command
    /\ faults \in Nat
    /\ missing \in NotMissing .. Threshold
    /\ epoch \in Nat
    /\ pc \in Steps
    /\ snap \in [Pod -> PodObject]
    /\ seen \in [Pod -> Sightings]
    /\ todo \in SUBSET Pod
    /\ master \in Pod \cup {NoPod}
    /\ sinceMaster \in 0 .. Threshold
    /\ spoiled \in SUBSET {"patch", "operator", "controller"}
    /\ restarts \in Nat
    /\ lastEpoch \in Nat

-----------------------------------------------------------------------------
(* Shared vocabulary.                                                       *)

AbsentPod(i) == [phase |-> "Absent", inc |-> i, label |-> "none", epoch |-> 0]
NoSnapshot   == [p \in Pod |-> AbsentPod(0)]
NotProbed    == [p \in Pod |-> "skipped"]

\* The address of p according to the Pod list of the pass.
SnapAddr(p) == <<p, snap[p].inc>>

\* A dial to the address of p in the Pod list reaches a Redis process.
Reachable(p) ==
    /\ api[p].phase = "Running"
    /\ api[p].inc = snap[p].inc
    /\ up[p]

\* A fault of kind k happens, within the budget of the behaviour.
Fault(k) ==
    /\ k \in Faults
    /\ faults < MaxFaults
    /\ faults' = faults + 1

NoFault == UNCHANGED faults

\* The Pods of the Pod list, and what the probes found among them.
Listed   == {p \in Pod : snap[p].phase # "Absent"}
Masters  == {p \in Pod : seen[p] = "master"}
Replicas == {p \in Pod : seen[p] \in {"slave", "other"}}

\* p is the next element of S in list order.
IsFirst(p, S) == p \in S /\ \A q \in S : p <= q

\* The pass returns: its local variables are gone.
EndPass ==
    /\ pc' = "idle"
    /\ snap' = NoSnapshot
    /\ seen' = NotProbed
    /\ todo' = {}
    /\ master' = NoPod

\* The pass goes on to step s, with m as master, looping over S.
GoTo(s, m, S) ==
    /\ pc' = s
    /\ master' = m
    /\ todo' = S
    /\ UNCHANGED <<snap, seen>>

\* Mutant of ClearTimer: the reset of masterMissingAt is forgotten.
KeepTimer == UNCHANGED missing

\* masterMissingAt = time.Time{}
ClearTimer == missing' = NotMissing

-----------------------------------------------------------------------------
(* The Pod list and the probes.                                            *)

\* ListRedisPods returned no Pod of the set: its state is pruned.
ListEmpty ==
    /\ pc = "idle"
    /\ \A p \in Pod : api[p].phase = "Absent"
    /\ ClearTimer
    /\ epoch' = 0
    /\ sinceMaster' = 0
    /\ UNCHANGED <<cluster, faults, pass, spoiled, restarts, lastEpoch>>

\* ListRedisPods returned the set's Pods; those with an IP that are Running
\* are probed.
ListPods ==
    /\ pc = "idle"
    /\ \E p \in Pod : api[p].phase # "Absent"
    /\ pc' = "probe"
    /\ snap' = api
    /\ seen' = [p \in Pod |->
                  IF api[p].phase = "Running" THEN "pending" ELSE "skipped"]
    /\ UNCHANGED <<cluster, faults, setState, todo, master, history>>

\* ListRedisPods failed: the pass is over before it began.
ListError ==
    /\ pc = "idle"
    /\ Fault("list")
    /\ UNCHANGED <<cluster, setState, pass, history>>

\* The slot of p in the results of the probes.
Sees(p, s) == seen' = [seen EXCEPT ![p] = s]

\* One probe goroutine: dial and INFO replication. "other" is a reply without
\* a role field, which parseReplicationInfo turns into an empty Role.
ProbePod(p) ==
    /\ pc = "probe"
    /\ seen[p] = "pending"
    /\ \/ ~Reachable(p) /\ NoFault /\ Sees(p, "unreached")
       \/ Reachable(p) /\ Fault("probe") /\ Sees(p, "unreached")
       \/ Reachable(p) /\ Fault("malformed") /\ Sees(p, "other")
       \/ Reachable(p) /\ replicaOf[p] = NoOne /\ NoFault /\ Sees(p, "master")
       \/ Reachable(p) /\ replicaOf[p] # NoOne /\ NoFault /\ Sees(p, "slave")
    /\ UNCHANGED <<cluster, setState, pc, snap, todo, master, history>>

Probed == pc = "probe" /\ \A p \in Pod : seen[p] # "pending"

-----------------------------------------------------------------------------
(* The decision: reconcileSet's switch on the number of masters.           *)

\* labeledMaster: the first reached master that the Pod list labels master.
LabeledMasters == {p \in Masters : snap[p].label = "master"}

\* selectBootstrapCandidate; the list is sorted, so that the first candidate
\* is the one with the lowest ordinal.
IsBootstrapCandidate(m) ==
    IF Strategy = "annotation-preferred" /\ Masters \cap Preferred # {}
    THEN IsFirst(m, Masters \cap Preferred)
    ELSE IsFirst(m, Masters)

\* Mutant of IsAuthority: the label is not consulted.
IsAuthorityUnlabeled(m) == IsBootstrapCandidate(m)

\* The authoritative master among several.
IsAuthority(m) ==
    IF LabeledMasters # {} THEN IsFirst(m, LabeledMasters)
                           ELSE IsBootstrapCandidate(m)

\* The label of p when m is the master.
WantedLabel(p, m) == IF p = m THEN "master" ELSE "replica"

\* Mutant of SyncLabels: the other Pods keep their labels.
SyncMasterLabel(m) ==
    GoTo("label", m, {p \in Listed \cap {m} : snap[p].label # "master"})

\* syncLabels loops over the listed Pods and patches those whose label in the
\* list is not the wanted one.
SyncLabels(m) ==
    GoTo("label", m, {p \in Listed : snap[p].label # WantedLabel(p, m)})

\* Exactly one master.
AdoptMaster ==
    /\ Probed
    /\ \E m \in Pod : Masters = {m} /\ SyncLabels(m)
    /\ ClearTimer
    /\ sinceMaster' = 0
    /\ UNCHANGED <<cluster, faults, epoch, spoiled, restarts, lastEpoch>>

\* Mutant of Demoted: only Pods that were labelled master are demoted.
DemotedLabeled(m) == {p \in Masters \ {m} : snap[p].label = "master"}

\* The masters to demote when m stays.
Demoted(m) == Masters \ {m}

\* Several masters: all but the authoritative one are to be demoted.
ResolveMasters ==
    /\ Probed
    /\ Cardinality(Masters) > 1
    /\ \E m \in Masters :
          IsAuthority(m) /\ GoTo("demote", m, Demoted(m))
    /\ ClearTimer
    /\ sinceMaster' = 0
    /\ UNCHANGED <<cluster, faults, epoch, spoiled, restarts, lastEpoch>>

\* Mutants of MissingFor: masterMissingAt is set again on every pass; passes
\* are counted on top of the time.
MissingForRearmed == 0
MissingForCounted == IF missing = NotMissing THEN 0 ELSE missing + 1

\* masterMissingAt is set when the first pass finds no master.
MissingFor == IF missing = NotMissing THEN 0 ELSE missing

\* No master, and the failure threshold has not been reached.
WaitForMaster ==
    /\ Probed
    /\ Masters = {}
    /\ MissingFor < Threshold
    /\ missing' = MissingFor
    /\ EndPass
    /\ UNCHANGED <<cluster, faults, epoch, history>>

\* The threshold is reached but no replica was reached.
NoCandidate ==
    /\ Probed
    /\ Masters = {}
    /\ MissingFor >= Threshold
    /\ Replicas = {}
    /\ missing' = MissingFor
    /\ EndPass
    /\ UNCHANGED <<cluster, faults, epoch, history>>

\* selectFailoverCandidate, for the offsets and link states that INFO reported:
\* replicas whose link is not down first, then the highest offset, then the
\* lowest ordinal.
IsFailoverCandidate(c, off, link) ==
    LET linkUp == {r \in Replicas : link[r] # "down"}
        cands  == IF linkUp # {} THEN linkUp ELSE Replicas
    IN  /\ c \in cands
        /\ \A r \in cands :
              off[c] > off[r] \/ (off[c] = off[r] /\ c <= r)

\* maxEpoch: e is the largest epoch annotated on a listed Pod.
IsMaxEpoch(e) ==
    /\ e \in {0} \cup {snap[p].epoch : p \in Listed}
    /\ \A p \in Listed : snap[p].epoch <= e

\* Mutant of NextEpoch: the annotations are not consulted.
NextEpochInMemory(e) == epoch + 1

\* The epoch of a failover when e is the largest one annotated.
NextEpoch(e) == IF epoch >= e + 1 THEN epoch + 1 ELSE e + 1

\* The threshold is reached: failover picks a replica and an epoch.
StartFailover ==
    /\ Probed
    /\ Masters = {}
    /\ MissingFor >= Threshold
    /\ missing' = MissingFor
    /\ \E c \in Replicas :
          /\ \E off \in [Replicas -> Offset], link \in [Replicas -> Link] :
                IsFailoverCandidate(c, off, link)
          /\ GoTo("promote", c, {})
    /\ \E e \in {0} \cup {snap[p].epoch : p \in Listed} :
          IsMaxEpoch(e) /\ epoch' = NextEpoch(e)
    /\ UNCHANGED <<cluster, faults, history>>

-----------------------------------------------------------------------------
(* Carrying the decision out: one step per remote call.                    *)

\* CONFIG REWRITE after a REPLICAOF: best effort, its failure is only logged.
RewriteConfig(p, target) ==
    IF ConfigRewrite
    THEN conf' \in {conf, [conf EXCEPT ![p] = target]}
    ELSE UNCHANGED conf

\* REPLICAOF target reaches the process at the listed address of p.
Replicate(p, target) == replicaOf' = [replicaOf EXCEPT ![p] = target]

\* Mutant of Target: the arguments of replicateOf are swapped.
TargetSwapped(p) == SnapAddr(p)

\* The host in the REPLICAOF sent to p.
Target(p) == SnapAddr(master)

\* The client gives up on REPLICAOF target before the process at p has read it:
\* do (client.go:61) closes the connection, which takes nothing back. at tells
\* commands apart.
TimeOut(p, target) ==
    late' = late \cup {[pod |-> p, to |-> target, at |-> faults]}

\* replicateOf(p, master): its error is only logged. A lost reply leaves the
\* command applied and skips CONFIG REWRITE; a late one applies it afterwards.
ReplicateOf(p) ==
    \/ /\ Reachable(p) /\ NoFault
       /\ Replicate(p, Target(p)) /\ RewriteConfig(p, Target(p))
       /\ UNCHANGED late
    \/ /\ Reachable(p) /\ Fault("reply")
       /\ Replicate(p, Target(p)) /\ UNCHANGED <<conf, late>>
    \/ /\ Reachable(p) /\ Fault("command")
       /\ UNCHANGED <<replicaOf, conf, late>>
    \/ /\ Reachable(p) /\ Fault("late")
       /\ TimeOut(p, Target(p)) /\ UNCHANGED <<replicaOf, conf>>
    \/ /\ ~Reachable(p) /\ NoFault
       /\ UNCHANGED <<replicaOf, conf, late>>

\* The next master to demote.
DemotePod(p) ==
    /\ pc = "demote"
    /\ IsFirst(p, todo)
    /\ ReplicateOf(p)
    /\ GoTo("demote", master, todo \ {p})
    /\ UNCHANGED <<api, up, setState, history>>

DemotesDone ==
    /\ pc = "demote"
    /\ todo = {}
    /\ SyncLabels(master)
    /\ UNCHANGED <<cluster, faults, setState, history>>

\* REPLICAOF NO ONE on the candidate was acknowledged.
Promote ==
    /\ pc = "promote"
    /\ Reachable(master)
    /\ Replicate(master, NoOne)
    /\ RewriteConfig(master, NoOne)
    /\ GoTo("annotate", master, {})
    /\ UNCHANGED <<api, up, late, faults, setState, history>>

\* Mutant of PromoteError: the error is logged and the failover goes on.
PromoteErrorIgnored ==
    /\ pc = "promote"
    /\ Reachable(master) /\ Fault("command")
    /\ GoTo("annotate", master, {})
    /\ UNCHANGED <<cluster, setState, history>>

\* REPLICAOF NO ONE was not acknowledged: the dial or the command failed, or its
\* reply was lost or comes too late, with the candidate a master by then, at some
\* later time or never.
PromoteFails ==
    \/ ~Reachable(master) /\ NoFault /\ UNCHANGED <<replicaOf, late>>
    \/ Reachable(master) /\ Fault("command") /\ UNCHANGED <<replicaOf, late>>
    \/ Reachable(master) /\ Fault("reply") /\ Replicate(master, NoOne) /\ UNCHANGED late
    \/ Reachable(master) /\ Fault("late") /\ TimeOut(master, NoOne) /\ UNCHANGED replicaOf

\* Mutant of PromoteError: the timer starts again after a failed failover.
PromoteErrorRearms ==
    /\ pc = "promote"
    /\ PromoteFails
    /\ ClearTimer
    /\ EndPass
    /\ UNCHANGED <<api, up, conf, epoch, history>>

\* failover returns the error and so does the pass.
PromoteError ==
    /\ pc = "promote"
    /\ PromoteFails
    /\ EndPass
    /\ UNCHANGED <<api, up, conf, setState, history>>

\* A patch of Pod p, by name: it applies to whatever Pod has that name now.
\* Every caller only logs its error.
PatchPod(p, object) ==
    \/ api[p].phase # "Absent" /\ NoFault /\ api' = [api EXCEPT ![p] = object]
    \/ api[p].phase # "Absent" /\ Fault("patch") /\ UNCHANGED api
    \/ api[p].phase = "Absent" /\ NoFault /\ UNCHANGED api

\* SetAnnotations on the promoted Pod.
Annotate ==
    /\ pc = "annotate"
    /\ PatchPod(master, [api[master] EXCEPT !.epoch = epoch])
    /\ GoTo("redirect", master, Replicas \ {master})
    /\ lastEpoch' = IF api' = api THEN lastEpoch ELSE epoch
    /\ UNCHANGED <<up, replicaOf, conf, late, setState>>
    /\ UNCHANGED <<sinceMaster, spoiled, restarts>>

\* The next replica to point at the promoted Pod.
RedirectPod(p) ==
    /\ pc = "redirect"
    /\ IsFirst(p, todo)
    /\ ReplicateOf(p)
    /\ GoTo("redirect", master, todo \ {p})
    /\ UNCHANGED <<api, up, setState, history>>

RedirectsDone ==
    /\ pc = "redirect"
    /\ todo = {}
    /\ ClearTimer
    /\ SyncLabels(master)
    /\ UNCHANGED <<cluster, faults, epoch, history>>

\* Mutant of LabelPod: the listed object is written back with the new label.
LabelPodStale(p) ==
    /\ pc = "label"
    /\ IsFirst(p, todo)
    /\ PatchPod(p, [snap[p] EXCEPT !.label = WantedLabel(p, master)])
    /\ GoTo("label", master, todo \ {p})
    /\ UNCHANGED <<up, replicaOf, conf, late, setState, history>>

\* SetRoleLabel on the next Pod of syncLabels.
LabelPod(p) ==
    /\ pc = "label"
    /\ IsFirst(p, todo)
    /\ PatchPod(p, [api[p] EXCEPT !.label = WantedLabel(p, master)])
    /\ GoTo("label", master, todo \ {p})
    /\ spoiled' = IF faults' = faults THEN spoiled ELSE spoiled \cup {"patch"}
    /\ UNCHANGED <<up, replicaOf, conf, late, setState>>
    /\ UNCHANGED <<sinceMaster, restarts, lastEpoch>>

LabelsDone ==
    /\ pc = "label"
    /\ todo = {}
    /\ EndPass
    /\ UNCHANGED <<cluster, faults, setState, history>>

-----------------------------------------------------------------------------
(* The environment.                                                        *)

\* The commands still unread by the process at p are lost with it.
LateLost(p) == late' = {c \in late : c.pod # p}

\* The process at p dies; it will boot with what its configuration file says.
RedisCrash(p) ==
    /\ up[p]
    /\ Fault("crash")
    /\ up' = [up EXCEPT ![p] = FALSE]
    /\ replicaOf' = [replicaOf EXCEPT ![p] = conf[p]]
    /\ LateLost(p)
    /\ UNCHANGED <<api, conf, setState, pass, history>>

RedisBoot(p) ==
    /\ api[p].phase = "Running"
    /\ ~up[p]
    /\ up' = [up EXCEPT ![p] = TRUE]
    /\ UNCHANGED <<api, replicaOf, conf, late, faults, setState, pass, history>>

\* The Pod object goes away, and with it labels, annotations and IP.
PodDelete(p) ==
    /\ api[p].phase # "Absent"
    /\ Fault("delete")
    /\ api' = [api EXCEPT ![p] = AbsentPod(api[p].inc)]
    /\ up' = [up EXCEPT ![p] = FALSE]
    /\ replicaOf' = [replicaOf EXCEPT ![p] = NoOne]
    /\ conf' = [conf EXCEPT ![p] = NoOne]
    /\ LateLost(p)
    /\ UNCHANGED <<setState, pass, history>>

\* The StatefulSet creates the Pod under the same name, with a new IP.
PodCreate(p) ==
    /\ api[p].phase = "Absent"
    /\ api' = [api EXCEPT ![p] =
                 [AbsentPod(api[p].inc + 1) EXCEPT !.phase = "Pending"]]
    /\ UNCHANGED <<up, replicaOf, conf, late, faults, setState, pass, history>>

PodStart(p) ==
    /\ api[p].phase = "Pending"
    /\ api' = [api EXCEPT ![p].phase = "Running"]
    /\ up' = [up EXCEPT ![p] = TRUE]
    /\ UNCHANGED <<replicaOf, conf, late, faults, setState, pass, history>>

\* An operator edits the role label.
OperatorLabel(p) ==
    /\ api[p].phase # "Absent"
    /\ Fault("operator")
    /\ \E l \in Labels \ {api[p].label} : api' = [api EXCEPT ![p].label = l]
    /\ spoiled' = spoiled \cup {"operator"}
    /\ UNCHANGED <<up, replicaOf, conf, late, setState, pass>>
    /\ UNCHANGED <<sinceMaster, restarts, lastEpoch>>

\* The process at p executes a command whose client has given up on it.
LateCommand(p) ==
    /\ up[p]
    /\ \E c \in late : /\ c.pod = p
                       /\ Replicate(p, c.to)
                       /\ late' = late \ {c}
    /\ UNCHANGED <<api, up, conf, faults, setState, pass, history>>

\* The controller stops, at any point, and the next one starts: it has no
\* memory of the set.
ControllerRestart ==
    /\ Fault("controller")
    /\ ClearTimer
    /\ epoch' = 0
    /\ EndPass
    /\ sinceMaster' = 0
    /\ spoiled' = IF pc = "label" THEN spoiled \cup {"controller"} ELSE spoiled
    /\ restarts' = restarts + 1
    /\ UNCHANGED <<cluster, lastEpoch>>

\* A clock tick. Only the comparison with Threshold matters, so both clocks
\* stop there.
TimePasses ==
    /\ missing \in 0 .. Threshold-1 \/ sinceMaster < Threshold
    /\ missing' = IF missing \in 0 .. Threshold-1 THEN missing + 1 ELSE missing
    /\ sinceMaster' = IF sinceMaster < Threshold THEN sinceMaster + 1
                                                  ELSE sinceMaster
    /\ UNCHANGED <<cluster, faults, epoch, pass, spoiled, restarts, lastEpoch>>

-----------------------------------------------------------------------------

\* A fresh StatefulSet: every Pod runs a standalone master, none is labelled.
Init ==
    /\ api = [p \in Pod |-> [AbsentPod(0) EXCEPT !.phase = "Running"]]
    /\ up = [p \in Pod |-> TRUE]
    /\ replicaOf = [p \in Pod |-> NoOne]
    /\ conf = [p \in Pod |-> NoOne]
    /\ late = {}
    /\ faults = 0
    /\ missing = NotMissing
    /\ epoch = 0
    /\ pc = "idle"
    /\ snap = NoSnapshot
    /\ seen = NotProbed
    /\ todo = {}
    /\ master = NoPod
    /\ sinceMaster = 0
    /\ spoiled = {}
    /\ restarts = 0
    /\ lastEpoch = 0

\* The steps of the controller's only goroutine, its probes included.
Controller ==
    \/ ListEmpty \/ ListPods \/ ListError
    \/ AdoptMaster \/ ResolveMasters
    \/ WaitForMaster \/ NoCandidate \/ StartFailover
    \/ DemotesDone \/ Promote \/ PromoteError \/ Annotate
    \/ RedirectsDone \/ LabelsDone
    \/ \E p \in Pod : ProbePod(p) \/ DemotePod(p) \/ RedirectPod(p) \/ LabelPod(p)

\* What Kubernetes does to bring the set's Pods back.
Recovery == \E p \in Pod : RedisBoot(p) \/ PodCreate(p) \/ PodStart(p)

Disruption ==
    \/ ControllerRestart
    \/ \E p \in Pod : \/ RedisCrash(p) \/ PodDelete(p) \/ OperatorLabel(p)
                     \/ LateCommand(p)

Next == Controller \/ Recovery \/ Disruption \/ TimePasses

Spec == Init /\ [][Next]_vars

\* The reconcile loop keeps running and time passes; nothing is assumed of the
\* faults, nor of the recovery from them.
FairSpec ==
    /\ Spec
    /\ WF_vars(Controller)
    /\ WF_vars(TimePasses)

-----------------------------------------------------------------------------
(* Safety.                                                                 *)

\* The process at p replicates from the current incarnation of q.
Follows(p, q) == replicaOf[p] = <<q, api[q].inc>>

\* The commands of demotions and redirections, some lost, some applied without
\* an answer, mixed with crashes and re-created Pods, never close a loop of
\* replicas that follow one another (replicateOf, controller.go:352): in every
\* group of Pods some Pod follows none of the group. (A command executed after
\* its client gave up on it can: it may come after a failover has turned the
\* roles round.)
NoReplicationLoop ==
    \A S \in SUBSET Pod : S # {} => \E p \in S : \A q \in S : ~Follows(p, q)

\* syncLabels (controller.go:275) runs after a probe, several commands and
\* any number of crashes, and patches by name; still it never gives the master
\* label to a Pod whose process is a replica, unless a late command made it one
\* after the probe.
LabelsOnlyMasters ==
    [][\A p \in Pod :
         /\ api[p].label # "master" /\ api'[p].label = "master"
         /\ ~OperatorLabel(p)
         => replicaOf[p] = NoOne]_vars

\* A replica is promoted only when no pass has found a master for at least the
\* failure threshold (controller.go:193-206), however passes, failed failovers
\* and returning masters alternate. The wait starts anew with every controller
\* and with every set of that name: neither a restart nor a set that vanished
\* (controller.go:131) hands down a timer that has already run.
PromotionWaitsOutThreshold == pc = "promote" => sinceMaster >= Threshold

\* The epoch annotated on a Pod is only ever replaced by a larger one: a
\* controller that restarts, or repeats a failed failover, does not write "a
\* smaller epoch over a larger one" (controller.go:301-308).
EpochNeverRegresses ==
    [][\A p \in Pod :
         api'[p].epoch # api[p].epoch /\ api'[p].phase # "Absent"
         => api'[p].epoch > api[p].epoch]_vars

\* An epoch is recorded on p in this step.
Recorded(p) == api'[p].epoch # api[p].epoch /\ api'[p].epoch # 0

\* No Pod of the set has been deleted, and its annotations with it.
NoneReplaced == \A p \in Pod : api[p].phase # "Absent" /\ api[p].inc = 0

\* While the set keeps its Pods, the epochs recorded on them are "monotonically
\* increasing" (config.go:19) whichever Pod they are recorded on, and across
\* controllers: "a controller restart or leader handover continues the sequence"
\* (controller.go:301-303).
EpochsIncrease ==
    [][\A p \in Pod : NoneReplaced /\ Recorded(p) => api'[p].epoch > lastEpoch]_vars

\* A Pod that the controller found to be a master and that carries the master
\* label is turned into a replica only in favour of another such Pod: among
\* several masters the labelled one stays (controller.go:160-176), also when
\* label patches failed, as long as no operator edits labels under the pass and
\* no late command acts in its place.
LabeledMasterKept ==
    [][\A p \in Pod :
         /\ "operator" \notin spoiled
         /\ seen[p] = "master" /\ api[p].label = "master"
         /\ replicaOf[p] = NoOne /\ replicaOf'[p] # NoOne
         => \E q \in Pod \ {p} : seen[q] = "master" /\ snap[q].label = "master"
      ]_vars

\* Until a label patch fails, the controller stops inside syncLabels or somebody
\* else edits labels, two Pods carry the master label only inside the loop of
\* syncLabels (controller.go:275-285), never between two passes nor while a
\* failover is under way.
SingleLabelOutsideSync ==
    pc # "label" /\ spoiled = {} =>
      \A p, q \in Pod :
        api[p].label = "master" /\ api[q].label = "master" => p = q

\* The set as SetWatch sees it.
Watch == INSTANCE SetWatch WITH
    found    <- Masters # {},
    gone     <- \A p \in Pod : api[p].phase = "Absent",
    life     <- restarts,
    timer    <- missing,
    failover <- IF pc = "promote" THEN "begun"
                ELSE IF pc \in {"annotate", "redirect"} THEN "promoted" ELSE "none"

\* With all its calls, faults and early returns a pass does no more to the
\* failure timer, and starts no other failovers, than SetWatch allows: the
\* timer survives a failed failover and an aborted pass, whichever call failed,
\* and only a master in sight, a finished failover, a vanished set or a new
\* controller clears it (controller.go:155, 161, 193-217).
ImplementsWatch == Watch!Spec

-----------------------------------------------------------------------------
(* Liveness.                                                               *)

\* m is a master, and the only live Pod with the master label.
Serving(m) ==
    /\ up[m] /\ replicaOf[m] = NoOne
    /\ \A p \in Pod : up[p] => (api[p].label = "master") = (p = m)

\* "Each set keeps serving down to its last surviving Pod" (README.md:324-326):
\* wherever the faults leave the set, if some Pod stays up, then in the end the
\* write Service has a master to route to, and only one. "Only one" is the code's
\* doing, not the documentation's: see AmbiguityLeftAlone.
KeepsServing == (\E p \in Pod : <>[]up[p]) => <>[](\E m \in Pod : Serving(m))

\* m is the set's only master, and the labels say so.
SoleMaster(m) ==
    /\ up[m] /\ replicaOf[m] = NoOne /\ api[m].label = "master"
    /\ \A p \in Pod \ {m} : /\ up[p] /\ replicaOf[p] # NoOne
                            /\ api[p].label = "replica"

\* Every Pod is up again.
Recovered == \A p \in Pod : up[p]

\* Once the faults are over and all Pods are up, the set converges to one master
\* and labels that route to it, from whatever state the faults left it in: also
\* after commands that were executed late, and also from several masters that are
\* all labelled, or none of which is, where the README has the controller wait for
\* an operator (AmbiguityLeftAlone) and the code demotes all but the first
\* (controller.go:160-190).
Converges == <>[]Recovered => <>[](\E m \in Pod : SoleMaster(m))

\* m feeds the whole set: no group of other Pods is cut off from the rest.
Feeds(m) ==
    \A S \in SUBSET (Pod \ {m}) :
      S # {} => \E p \in S, q \in Pod \ S : Follows(p, q)

\* Moreover every other Pod ends up replicating from that master, directly or
\* through other replicas (README.md:132-133).
ReplicasFed ==
    <>[]Recovered => <>[](\E m \in Pod : SoleMaster(m) /\ Feeds(m))

\* No Pod object was replaced, so no IP changed, no reply lacked a role and no
\* command is executed after its client gave up on it.
Stable ==
    /\ late = {}
    /\ \A p \in Pod : api[p].phase = "Running" /\ api[p].inc = 0 /\ seen[p] # "other"

\* While Pods keep their addresses the code does keep that promise: failed and
\* half-applied failovers, restarts and conflicting masters leave no replica
\* cut off, although a pass that finds one master sends no REPLICAOF
\* (controller.go:155-159).
StableSetFed == []Stable => ReplicasFed

-----------------------------------------------------------------------------
(* What the README promises and the code does not do.                      *)

\* "If authority is ambiguous (zero or several labeled masters), it makes no
\* destructive change and waits for an operator", but for "a brand-new cluster
\* with no recorded master anywhere" (README.md:216-219, also 163-165, 451-454):
\* as long as a pass has such masters in sight, none of them is turned into a
\* replica.
AmbiguityLeftAlone ==
    [][/\ Cardinality(Masters) > 1
       /\ Cardinality(LabeledMasters) # 1
       /\ \E p \in Listed : snap[p].label = "master" \/ snap[p].epoch > 0
       => \A p \in Masters : replicaOf[p] = NoOne => replicaOf'[p] = NoOne]_vars

\* "The controller guarantees that at most one Pod ever carries
\* redis-current-role=master" (README.md:117-118).
OneLabelEver ==
    \A p, q \in Pod : api[p].label = "master" /\ api[q].label = "master" => p = q
=============================================================================
