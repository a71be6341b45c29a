---------------------------- MODULE ControlLoop -----------------------------
(***************************************************************************)
(* The controller process: the ticker loop of Run, one pass over all       *)
(* replication sets of all namespaces (reconcile), the state it keeps per  *)
(* set, and the readiness that the health server reports                   *)
(* (internal/controller/controller.go, cmd/main.go).                       *)
(*                                                                         *)
(* What happens inside one set is the subject of SetReconciler; here a set *)
(* is served by a master, headless (replicas answer but no master), stuck  *)
(* (headless, and promotions fail), dead (nobody answers) or gone (no      *)
(* Pods); its reconciliation is one step, or three when it fails over.     *)
(***************************************************************************)
EXTENDS Integers

CONSTANTS
    Namespaces,     \* REDIS_NAMESPACES, as the numbers 1, 2, ...
    Names,          \* names of sets, as numbers
    Threshold,      \* MASTER_FAILURE_THRESHOLD_SECONDS, in clock ticks
    Interval,       \* RECONCILE_INTERVAL_SECONDS, in clock ticks
    MaxPass,        \* the longest a pass takes
    MaxChanges      \* changes of the environment in one behaviour

ASSUME LoopAssumption ==
    /\ Namespaces \subseteq Nat /\ Names \subseteq Nat
    /\ Threshold \in Nat
    /\ Interval \in Nat \ {0}
    /\ MaxPass \in Nat
    /\ MaxChanges \in Nat

Keys == Namespaces \X Names     \* setKey

VARIABLES
    \* The environment.
    view,       \* condition of each set
    down,       \* namespaces whose Pods cannot be listed
    changes,    \* number of changes so far
    \* The Controller.
    started,    \* Run has been called
    sets,       \* state of the sets seen: time since masterMissingAt
    age,        \* time since lastReconcileAt, up to 3 * Interval
    \* The ticker of Run.
    next,       \* time to the next tick
    fired,      \* a tick waits in the channel
    \* The pass in progress.
    pc,         \* where it is
    nsLeft,     \* namespaces left to list
    groups,     \* sets found
    todo,       \* sets left to reconcile
    current,    \* the set in failover
    passTime,   \* how long the pass has taken
    \* History, read by properties only.
    errs        \* passes that failed since the last one that did not, up to 2

env   == <<view, down, changes>>
tick  == <<next, fired>>
local == <<nsLeft, groups, todo, current>>
vars  == <<env, started, sets, age, tick, pc, local, passTime, errs>>

NotMissing == -1
Views      == {"served", "headless", "stuck", "dead", "gone"}
Phases     == {"standby", "wait", "list", "sets", "failover", "promoted"}
NoKey      == <<>>

\* The values every variable stays within.
TypeOK ==
    /\ view \in [Keys -> Views]
    /\ down \in SUBSET Namespaces
    /\ changes \in Nat
    /\ started = (pc # "standby")
    /\ \E K \in SUBSET Keys : sets \in [K -> NotMissing .. Threshold]
    /\ age \in 0 .. 3 * Interval
    /\ next \in 1 .. Interval
    /\ fired \in BOOLEAN
    /\ pc \in Phases
    /\ nsLeft \in SUBSET Namespaces
    /\ groups \in SUBSET Keys
    /\ todo \in SUBSET Keys
    /\ current \in Keys \cup {NoKey}
    /\ passTime \in 0 .. MaxPass
    /\ errs \in 0 .. 2

-----------------------------------------------------------------------------

\* Mutant of Ready: the pass in progress is not allowed for.
ReadyTwoIntervals == ~started \/ age < 2 * Interval

\* The readiness served at /readyz.
Ready == ~started \/ age < 3 * Interval

\* sortedKeys: by namespace, then by name.
Before(j, k) == j[1] < k[1] \/ (j[1] = k[1] /\ j[2] <= k[2])

IsFirstKey(k, S) == k \in S /\ \A j \in S : Before(k, j)

\* Mutant of StateKey: set names are unique, namespaces are left out.
StateKeyByName(k) == <<1, k[2]>>

\* The key under which stateFor keeps the state of a set.
StateKey(k) == k

\* masterMissingAt of a set; a set without state has never missed its master.
Timer(k) ==
    IF StateKey(k) \in DOMAIN sets THEN sets[StateKey(k)] ELSE NotMissing

\* Mutant of MissingFor: passes are counted on top of the time.
MissingForCounted(k) == Timer(k) + 1

\* time.Since(masterMissingAt), which is set when the first pass finds no master.
MissingFor(k) == IF Timer(k) = NotMissing THEN 0 ELSE Timer(k)

\* The state of set k becomes t; stateFor creates it when there is none.
SetTimer(k, t) ==
    sets' = [j \in DOMAIN sets \cup {StateKey(k)} |->
               IF j = StateKey(k) THEN t ELSE sets[j]]

NoPass ==
    /\ nsLeft' = {} /\ groups' = {} /\ todo' = {}
    /\ current' = NoKey /\ passTime' = 0

-----------------------------------------------------------------------------
(* The loop of Run.                                                        *)

\* A replica of the controller becomes the leader and calls Run.
Lead ==
    /\ pc = "standby"
    /\ started' = TRUE
    /\ age' = 0
    /\ next' = Interval /\ fired' = FALSE
    /\ pc' = "wait"
    /\ errs' = 0
    /\ UNCHANGED <<env, sets, local, passTime>>

\* A tick is received: reconcile starts with ListRedisPods.
BeginPass ==
    /\ pc = "wait" /\ fired
    /\ fired' = FALSE
    /\ pc' = "list"
    /\ nsLeft' = Namespaces
    /\ UNCHANGED <<env, started, sets, age, next, groups, todo, current, passTime, errs>>

\* ListRedisPods lists the next namespace. The order of REDIS_NAMESPACES is
\* the operator's.
ListNamespace(n) ==
    /\ pc = "list" /\ n \in nsLeft
    /\ n \notin down
    /\ nsLeft' = nsLeft \ {n}
    /\ groups' = groups \cup {k \in Keys : k[1] = n /\ view[k] # "gone"}
    /\ UNCHANGED <<env, started, sets, age, tick, pc, todo, current, passTime, errs>>

\* Mutant of ListError: a pass that could not list counts as one that could.
ListErrorIgnored(n) ==
    /\ pc = "list" /\ n \in nsLeft
    /\ n \in down
    /\ pc' = "wait"
    /\ NoPass
    /\ age' = 0
    /\ errs' = IF errs = 2 THEN 2 ELSE errs + 1
    /\ UNCHANGED <<env, started, sets, tick>>

\* One namespace cannot be listed: reconcile returns the error, no set is
\* touched, no state is pruned and lastReconcileAt stays.
ListError(n) ==
    /\ pc = "list" /\ n \in nsLeft
    /\ n \in down
    /\ pc' = "wait"
    /\ NoPass
    /\ errs' = IF errs = 2 THEN 2 ELSE errs + 1
    /\ UNCHANGED <<env, started, sets, age, tick>>

\* groupBySet and sortedKeys.
ListDone ==
    /\ pc = "list" /\ nsLeft = {}
    /\ pc' = "sets"
    /\ todo' = groups
    /\ UNCHANGED <<env, started, sets, age, tick, nsLeft, groups, current, passTime, errs>>

-----------------------------------------------------------------------------
(* reconcileSet, for the next set.                                         *)

NextSet(k) == pc = "sets" /\ IsFirstKey(k, todo)

MasterFound(k) ==
    /\ NextSet(k)
    /\ view[k] = "served"
    /\ SetTimer(k, NotMissing)
    /\ todo' = todo \ {k}
    /\ UNCHANGED <<env, started, age, tick, pc, nsLeft, groups, current, passTime, errs>>

\* No master: the threshold is not reached, or nobody can be promoted.
MasterMissed(k) ==
    /\ NextSet(k)
    /\ view[k] # "served"
    /\ MissingFor(k) < Threshold \/ view[k] \in {"dead", "gone"}
    /\ SetTimer(k, MissingFor(k))
    /\ todo' = todo \ {k}
    /\ UNCHANGED <<env, started, age, tick, pc, nsLeft, groups, current, passTime, errs>>

StartFailover(k) ==
    /\ NextSet(k)
    /\ view[k] \in {"headless", "stuck"}
    /\ MissingFor(k) >= Threshold
    /\ SetTimer(k, MissingFor(k))
    /\ todo' = todo \ {k}
    /\ current' = k
    /\ pc' = "failover"
    /\ UNCHANGED <<env, started, age, tick, nsLeft, groups, passTime, errs>>

\* REPLICAOF NO ONE succeeds.
Promote ==
    /\ pc = "failover"
    /\ view[current] \in {"headless", "served"}
    /\ view' = [view EXCEPT ![current] = "served"]
    /\ pc' = "promoted"
    /\ UNCHANGED <<down, changes, started, sets, age, tick, local, passTime, errs>>

\* failover returns nil and the timer is cleared.
FailoverDone ==
    /\ pc = "promoted"
    /\ SetTimer(current, NotMissing)
    /\ current' = NoKey
    /\ pc' = "sets"
    /\ UNCHANGED <<env, started, age, tick, nsLeft, groups, todo, passTime, errs>>

\* Mutant of FailoverFailed: reconcile returns the error of a set.
FailoverFailedStops ==
    /\ pc = "failover"
    /\ view[current] \notin {"headless", "served"}
    /\ pc' = "wait"
    /\ NoPass
    /\ errs' = IF errs = 2 THEN 2 ELSE errs + 1
    /\ UNCHANGED <<env, started, sets, age, tick>>

\* The error of one set is logged and the pass goes on.
FailoverFailed ==
    /\ pc = "failover"
    /\ view[current] \notin {"headless", "served"}
    /\ current' = NoKey
    /\ pc' = "sets"
    /\ UNCHANGED <<env, started, sets, age, tick, nsLeft, groups, todo, passTime, errs>>

\* pruneVanishedSets, and lastReconcileAt = time.Now().
EndPass ==
    /\ pc = "sets" /\ todo = {}
    /\ sets' = [k \in DOMAIN sets \cap {StateKey(j) : j \in groups} |-> sets[k]]
    /\ age' = 0
    /\ errs' = 0
    /\ pc' = "wait"
    /\ NoPass
    /\ UNCHANGED <<env, started, tick>>

\* The context is cancelled, or leadership is lost: Run returns and the
\* process exits. The next process knows nothing.
Exit ==
    /\ pc # "standby"
    /\ changes < MaxChanges /\ changes' = changes + 1
    /\ started' = FALSE
    /\ sets' = [k \in {} |-> NotMissing]
    /\ age' = 0
    /\ next' = Interval /\ fired' = FALSE
    /\ pc' = "standby"
    /\ NoPass
    /\ errs' = 0
    /\ UNCHANGED <<view, down>>

-----------------------------------------------------------------------------
(* Time and the environment.                                               *)

\* One tick of the clock. A pass that can start does so at once, and none
\* takes longer than MaxPass. The channel of the ticker holds one tick.
TimePasses ==
    /\ pc # "standby"
    /\ IF pc = "wait" THEN ~fired /\ UNCHANGED passTime
                      ELSE passTime < MaxPass /\ passTime' = passTime + 1
    /\ age' = IF age < 3 * Interval THEN age + 1 ELSE age
    /\ sets' = [k \in DOMAIN sets |->
                  IF sets[k] \in 0 .. Threshold-1 THEN sets[k] + 1 ELSE sets[k]]
    /\ next' = IF next = 1 THEN Interval ELSE next - 1
    /\ fired' = (fired \/ next = 1)
    /\ UNCHANGED <<env, started, pc, local, errs>>

Change == changes < MaxChanges /\ changes' = changes + 1

\* A master crashes or returns, Pods appear or go away.
SetChanges(k) ==
    /\ Change
    /\ \E v \in Views \ {view[k]} : view' = [view EXCEPT ![k] = v]
    /\ UNCHANGED <<down, started, sets, age, tick, pc, local, passTime, errs>>

\* Listing a namespace starts to fail, or works again.
NamespaceChanges(n) ==
    /\ Change
    /\ down' = IF n \in down THEN down \ {n} ELSE down \cup {n}
    /\ UNCHANGED <<view, started, sets, age, tick, pc, local, passTime, errs>>

-----------------------------------------------------------------------------

Init ==
    /\ view = [k \in Keys |-> "served"]
    /\ down = {}
    /\ changes = 0
    /\ started = FALSE
    /\ sets = [k \in {} |-> NotMissing]
    /\ age = 0
    /\ next = Interval /\ fired = FALSE
    /\ pc = "standby"
    /\ nsLeft = {} /\ groups = {} /\ todo = {} /\ current = NoKey
    /\ passTime = 0
    /\ errs = 0

Process ==
    \/ Lead \/ BeginPass \/ ListDone \/ EndPass
    \/ Promote \/ FailoverDone \/ FailoverFailed
    \/ \E n \in Namespaces : ListNamespace(n) \/ ListError(n)
    \/ \E k \in Keys : MasterFound(k) \/ MasterMissed(k) \/ StartFailover(k)

Environment ==
    \/ Exit
    \/ \E k \in Keys : SetChanges(k)
    \/ \E n \in Namespaces : NamespaceChanges(n)

Next == Process \/ Environment \/ TimePasses

Spec == Init /\ [][Next]_vars

\* Some replica leads and its goroutine runs, and time passes.
FairSpec == Spec /\ WF_vars(Process) /\ WF_vars(TimePasses)

-----------------------------------------------------------------------------

\* Set k as SetWatch sees it.
Watch(k) == INSTANCE SetWatch WITH
    found    <- view[k] = "served",
    gone     <- pc = "sets" /\ k \notin groups,
    life     <- pc = "standby",
    timer    <- Timer(k),
    failover <- IF current # k THEN "none"
                ELSE IF pc = "promoted" THEN "promoted" ELSE "begun"

\* A set behaves as if it were alone: whatever the other sets, their failures,
\* their comings and goings, and the errors of the API do to the pass, its
\* timer and its failovers follow SetWatch (README.md:289-292). This is
\* Watch(k)!Spec for every set k.
SetsIndependent ==
    /\ \A k \in Keys : Watch(k)!Init
    /\ [][\A k \in Keys : [Watch(k)!Next]_(Watch(k)!vars)]_vars

\* One failed pass, next to slow ones, does not flap readiness: with passes
\* shorter than the interval the leader is unready only after two failures in a
\* row (controller.go:97-107).
ReadyDespiteOneError == errs <= 1 => Ready

\* A leader whose passes fail for good does become unready (controller.go:86-92).
UnreadyWhenFailing == <>[](down # {}) => <>[]~Ready

Promoted(k) == view[k] = "headless" ~> view[k] # "headless"

\* A headless set is promoted in the end, also when other sets are stuck, dead
\* or gone (controller.go:126-128). All namespaces must be listed again for
\* that: one that cannot be fails the pass for every set (pods.go:75).
HeadlessSetsPromoted == <>[](down = {}) => \A k \in Keys : Promoted(k)
=============================================================================
