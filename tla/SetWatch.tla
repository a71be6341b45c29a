------------------------------ MODULE SetWatch ------------------------------
(***************************************************************************)
(* What the controller does about the master of one replication set, in    *)
(* the abstract: it watches for a master, a timer runs from the first pass *)
(* that misses one until a pass finds one, and a failover starts only when *)
(* the timer has reached the threshold. SetReconciler implements this with *)
(* all the calls of a pass, ControlLoop with several sets and namespaces   *)
(* in one process.                                                         *)
(***************************************************************************)
EXTENDS Integers

CONSTANT Threshold      \* MASTER_FAILURE_THRESHOLD_SECONDS, in clock ticks

VARIABLES
    found,      \* a master is in sight of the pass
    gone,       \* the set has no Pods
    life,       \* changes when a controller stops or another one starts
    timer,      \* time since the master was first missed, or NotMissing
    failover    \* how far a failover of the set is

surroundings == <<found, gone, life>>
vars         == <<surroundings, timer, failover>>

NotMissing == -1

Elapsed == IF timer = NotMissing THEN 0 ELSE timer

Init == timer = NotMissing /\ failover = "none"

\* A pass finds a master.
MasterFound ==
    found /\ failover = "none" /\ timer' = NotMissing /\ UNCHANGED failover

\* A pass finds none, and waits or has nobody to promote.
MasterMissed ==
    ~found /\ failover = "none" /\ timer' = Elapsed /\ UNCHANGED failover

StartFailover ==
    /\ ~found /\ failover = "none"
    /\ Elapsed >= Threshold
    /\ timer' = Elapsed
    /\ failover' = "begun"

\* A replica has become the master.
Promote == failover = "begun" /\ failover' = "promoted" /\ UNCHANGED timer

FailoverFailed == failover = "begun" /\ failover' = "none" /\ UNCHANGED timer
FailoverDone   == failover = "promoted" /\ failover' = "none" /\ timer' = NotMissing

\* The set is gone, and its state with it.
Forget == gone /\ failover = "none" /\ timer' = NotMissing /\ UNCHANGED failover

\* The controller is replaced by one that knows nothing.
Restart == life' # life /\ timer' = NotMissing /\ failover' = "none"

\* Time passes; beyond the threshold it does not matter.
Tick == timer \in 0 .. Threshold-1 /\ timer' = timer + 1 /\ UNCHANGED failover

\* What the set looks like may change with any step.
Next ==
    \/ MasterFound \/ MasterMissed
    \/ StartFailover \/ Promote \/ FailoverFailed \/ FailoverDone
    \/ Forget \/ Restart \/ Tick
    \/ UNCHANGED <<timer, failover>>

Spec == Init /\ [][Next]_vars
=============================================================================
