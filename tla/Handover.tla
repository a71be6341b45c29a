------------------------------ MODULE Handover ------------------------------
(***************************************************************************)
(* Two replicas of the controller around a change of leadership.           *)
(*                                                                         *)
(* leader.Run (internal/leader/leader.go) leaves the lease to client-go,   *)
(* which does not fence a leader: when renewal fails it gives the lease up *)
(* before it cancels the context of Run, and the process exits only after  *)
(* that (cmd/main.go). A leader that was paused finds out even later.      *)
(* Meanwhile the pass in progress goes on, next to the passes of the new   *)
(* leader. Both work on one replication set: the module instantiates       *)
(* SetReconciler twice, with a common cluster and a memory each.           *)
(***************************************************************************)
EXTENDS Integers, FiniteSets

CONSTANTS N, Threshold, MaxOffset, ConfigRewrite, Strategy, Preferred, Faults,
          MaxFaults, NoOne,     \* as in SetReconciler
          ExtraPasses           \* passes the old leader begins without a lease

ASSUME HandoverAssumption == ExtraPasses \in Nat

VARIABLES
    api, up, replicaOf, conf, late, faults, \* the cluster, as in SetReconciler
    spoiled, restarts, lastEpoch,       \* its history, as in SetReconciler
    lease,                              \* who leads, and whether both run
    extra,                              \* passes begun without a lease
    missing, epoch, pc, snap, seen, todo, master, sinceMaster,  \* old leader
    missing2, epoch2, pc2, snap2, seen2, todo2, master2, sinceMaster2

oldLocals == <<missing, epoch, pc, snap, seen, todo, master, sinceMaster>>
newLocals == <<missing2, epoch2, pc2, snap2, seen2, todo2, master2, sinceMaster2>>
cluster   == <<api, up, replicaOf, conf, late>>
record    == <<spoiled, restarts, lastEpoch>>
vars      == <<cluster, faults, record, lease, extra, oldLocals, newLocals>>

Old == INSTANCE SetReconciler
New == INSTANCE SetReconciler WITH
    missing <- missing2, epoch <- epoch2, pc <- pc2, snap <- snap2,
    seen <- seen2, todo <- todo2, master <- master2,
    sinceMaster <- sinceMaster2

Pod == Old!Pod

\* The old leader holds the lease, the new one does and both processes run, or
\* the old process is gone.
Leases == {"old", "overlap", "new"}

Init == Old!Init /\ New!Init /\ lease = "old" /\ extra = 0

\* The old leader's lease is released or has expired, and the new one's Run
\* begins.
TakeLease ==
    /\ lease = "old"
    /\ lease' = "overlap"
    /\ UNCHANGED <<cluster, faults, record, extra, oldLocals, newLocals>>

\* RunOrDie returns, and so does main: the process and its pass are gone.
OldStops ==
    /\ lease = "overlap"
    /\ lease' = "new"
    /\ Old!EndPass
    /\ Old!ClearTimer
    /\ epoch' = 0
    /\ sinceMaster' = 0
    /\ extra' = 0
    /\ UNCHANGED <<cluster, faults, record, newLocals>>

\* The old leader's pass goes on; it begins another only within the bound.
OldRuns ==
    /\ lease \in {"old", "overlap"}
    /\ Old!Controller
    /\ IF lease = "overlap" /\ pc = "idle"
       THEN extra < ExtraPasses /\ extra' = extra + 1
       ELSE UNCHANGED extra
    /\ UNCHANGED <<lease, newLocals>>

OldTime ==
    /\ lease \in {"old", "overlap"}
    /\ Old!TimePasses
    /\ UNCHANGED <<lease, extra, newLocals>>

NewRuns ==
    /\ lease \in {"overlap", "new"}
    /\ New!Controller
    /\ UNCHANGED <<lease, extra, oldLocals>>

NewTime ==
    /\ lease \in {"overlap", "new"}
    /\ New!TimePasses
    /\ UNCHANGED <<lease, extra, oldLocals>>

\* Redis processes crash and boot.
Environment ==
    /\ \E p \in Pod : Old!RedisCrash(p) \/ Old!RedisBoot(p)
    /\ UNCHANGED <<lease, extra, newLocals>>

Next == TakeLease \/ OldStops \/ OldRuns \/ OldTime \/ NewRuns \/ NewTime
        \/ Environment

Spec == Init /\ [][Next]_vars

\* A leader that has lost its lease exits in the end, and the new one runs.
\* Nothing is assumed of when leadership changes.
FairSpec ==
    /\ Spec
    /\ WF_vars(OldStops)
    /\ WF_vars(OldRuns)
    /\ WF_vars(OldTime)
    /\ WF_vars(NewRuns)
    /\ WF_vars(NewTime)

-----------------------------------------------------------------------------

\* Whatever two leaders did to the set at the same time, promoting different
\* replicas, pointing them at each other, labelling both: once all Pods are up
\* the set ends with one master and labels that say so (controller.go:72-95), two
\* labelled masters included (SetReconciler!AmbiguityLeftAlone).
ConvergesAfterOverlap == New!Converges

\* Nor do the two leave a set without a master that is routed to, if some Pod
\* survives: a loop of replicas they may close is noticed as a missing master
\* and broken by the next failover (controller.go:193-217).
ServesAfterOverlap == New!KeepsServing
=============================================================================
