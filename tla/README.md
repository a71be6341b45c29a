# Formal model of the Redis replication controller

TLA+ specifications of `redis-replication-controller`, checked with TLC on small
instances and, where it matters most, proved with TLAPS for every number of
Pods, sets and namespaces, every threshold and interval, and every number of
faults.

## The system

| Part | Source | Modelled by |
| --- | --- | --- |
| Set reconciliation: probes, decision, demotion, failover, label sync, failure timer | `internal/controller/controller.go` | `SetReconciler`, abstractly `SetWatch` |
| Failover epochs | `controller.go` (`failover`, `maxEpoch`), `internal/config/config.go` | `SetReconciler` |
| Master selection and Pod order | `controller.go` (`select*`), `internal/kubernetes/pods.go` | `Selection` (loops), `SetReconciler` (meaning) |
| Probe pool | `controller.go` (`probe`) | `ProbePool`, abstractly `ProbePhase` |
| Loop over sets, `Run`, readiness | `controller.go` | `ControlLoop` |
| Leader election | `internal/leader/leader.go` | `Handover`; the lease itself is external |
| Start-up, health server | `cmd/main.go` | what leading starts and ends, in `Handover` and `ControlLoop` |
| Kubernetes client | `internal/kubernetes/pods.go` | list, order and patches |
| Redis client, RESP, reply parsing | `internal/redis/` | outcomes of dial, command and reply |
| Configuration | `internal/config/config.go` | constants of the modules, with what `validate` guarantees |
| Failover probe | `tools/failover-probe/main.go` | `FailoverProbe` |
| Data loader | `tools/data-loader/main.go` | `DataLoader` |

One controller process at a time is meant to hold the lease and run a pass every
interval: it lists the Pods, probes each over TCP, and for each replication set
decides between keeping a master, demoting extra masters, waiting and failing
over. It carries the decision out by `REPLICAOF` commands to Redis and patches to
the API server. Between passes it remembers, per set, only the failure timer and
the last epoch. Everything else is in the cluster and may change between any two
calls of the pass; that is where the hazards are, and what the models are about.
The two tools are clients of the write Service: one loads data, the other
measures how long writes are impossible during a failover.

## Modules

- **`SetReconciler`** One set and its controller.
  - Cluster state: `api` (Pod objects: phase, incarnation, role label, epoch
    annotation), `up`, `replicaOf` (role of each Redis process), `conf` (the
    `replicaof` directive in its configuration file).
  - `setState`: `missing` is the time since `masterMissingAt`, `epoch` is
    `failoverEpoch`.
  - Locals of the pass: `pc`, `snap` (the Pod list), `seen` (probe results),
    `todo` (rest of the current loop), `master`.
  - There is one action per remote call, so that anything may happen in between.
    The decisions (`AdoptMaster`, `ResolveMasters`, `WaitForMaster`,
    `NoCandidate`, `StartFailover`) are single steps because the code makes no
    call while it decides. The probes are concurrent: each `ProbePod(p)` is a
    step of its own, in any order.
  - An address is a Pod and its incarnation, so a `REPLICAOF` that carries an old
    IP points at nobody. Patches go by name and reach whatever Pod has it.
  - Offsets and link states are chosen freely when a failover starts.
  - Environment: processes crash and boot, Pods are deleted, created and started,
    calls fail or lose their reply, an operator edits labels, the controller is
    replaced at any point. The client may give up on a `REPLICAOF` that the process
    has executed, never executes, or executes later (`late`, a set of commands in
    socket buffers): closing the connection does not take it back.
  - `sinceMaster`, `spoiled` (the kinds of fault that left labels `syncLabels` did
    not mean), `restarts` and `lastEpoch` (the epoch recorded last) are history
    variables that only properties read.
- **`SetWatch`** What a set may count on: the timer runs from the first pass that
  misses the master, a failover begins only at the threshold, a failed one
  leaves the timer alone, and only a master, a promotion, a list without any of
  the Pods or a new controller process clears it. Implemented by `SetReconciler`
  and, for each of its sets, by `ControlLoop`.
- **`MCSetReconciler`** Sets of faults for the runs.
- **`Selection`** The sort of `ListRedisPods` and the selection loops, against what
  they are meant to compute. Each iteration is a step: `CollectLinkUp`, `Scan` (the
  loop of `selectFailoverCandidate` or of lowest-pod-ordinal) and `Prefer`. The sort
  is what `sort.Slice` promises: some order of the Pods in which none is less than
  an earlier one.
- **`ProbePool`** `probe` with its loop, the channel that is its semaphore, its
  wait group and a goroutine per Pod. Implements **`ProbePhase`**, the concurrent
  probe that `SetReconciler` takes for granted.
- **`ControlLoop`** `Run` and its ticker, a pass over the sets of several
  namespaces in key order, the map of set states, errors of a namespace and of a
  set, and `Ready`. A set is reduced to its condition (served, headless, stuck,
  dead or gone) and its reconciliation to one step, or three for a failover.
- **`Handover`** Two instances of `SetReconciler` with a common cluster and
  memories of their own. client-go does not fence a leader, so that an old pass
  goes on for a while next to those of the new leader.
- **`DataLoader`** Pipelined batches over one connection, replies in order, replay
  after a failure. A key stands for the call of `genKeyValue` that made it, and
  `executed` holds those whose SET was executed; names may repeat, so the server
  may hold fewer keys. A server may refuse every SET, for a while or for good.
- **`FailoverProbe`** One connection through the Service, GET and INCR on every
  tick. A reply is its RESP type. INFO and SCAN that time out leave their replies,
  or the rest of them, in the stream. `unnamed` tells that INFO was answered on
  this connection without a `run_id`; the probe then keeps the name it had.
- **`SetReconcilerProofs`, `EpochProofs`, `SelectionProofs`, `ProbePoolProofs`,
  `ControlLoopProofs`, `DataLoaderProofs`, `FailoverProbeProofs`** The theorems.
  `EpochProofs` builds on `SetReconcilerProofs`. `DataLoaderProofs` takes tlapm about a
  quarter of an hour, the others less than six minutes each.

Definitions named *Mutant of ...* are deliberate errors. They are not used by the
specifications; putting one in place of the definition it names must break the
property it belongs to, which shows that the property depends on that code.

## Runs

| Run | Bounds | Shows |
| --- | --- | --- |
| `safety` | 3 Pods, 3 faults: failed and malformed probes, lost commands, replies and patches, crashes, deletions, controller restarts | no replication loop; promotion waits out the threshold; `syncLabels` labels only masters; two master labels only inside `syncLabels`, until a patch fails or the controller stops there; a labelled master is demoted only for another labelled master; the timer implements `SetWatch`; the epoch on a Pod grows, and until a Pod is deleted so do the epochs of the set |
| `converge` | 3 Pods, 2 faults of any kind (late commands, label edits and list errors too), `CONFIG REWRITE`, annotation-preferred | types; a surviving Pod suffices for a master that is routed to; once all Pods are up, one master and right labels; replicas of a set with stable addresses are fed |
| `selection` | up to 3 Pods, ordinals -1..1, offsets 0..1 | the loops choose as the code's comments say, whatever the list order |
| `pool` | 4 Pods, 2 tokens | at most two probes at once; no result is written after the return; the call returns; `ProbePhase` is implemented |
| `loop` | 2 namespaces with one set name, 3 changes, threshold 2, interval 3 | sets do not disturb each other; readiness survives one failed pass but not failing for good; a stuck set does not hold up another |
| `handover` | 2 Pods, 1 crash, 1 pass begun without a lease | whatever two leaders did at once, the set is served afterwards, and by one master when all Pods are up |
| `loader` | batches of 2, target of 4 keys, 4 faults, 4 refused keys | while replies are in sync no key is dropped unanswered; batch and count exceed their limits by a bound per fault; the loader ends unless the servers refuse for good or it panics |
| `probe` | 2 backends, 3 faults | shifted replies are never counted as writes; a counted write was made on the instance identified last, unless INFO named none; outages end once the Service leads to a master that takes writes |

Where the code does not do what it or its documentation says, a run states the
promise and TLC shows a behaviour of the code that breaks it:

| Run | Promise | What happens |
| --- | --- | --- |
| `replica_orphaned` | `README.md:132-133`, replicas follow the master | a master re-created under a new IP leaves replicas on the old one; a pass with one master sends no `REPLICAOF` |
| `split_brain` | `README.md:216-219` (also 163-165, 451-454), with zero or several labelled masters "no destructive change", "waits for an operator" | a failover promotes a Pod and the patch of its label fails; the old master reboots; the next pass sees two masters and no label on either, takes the set for a fresh one and demotes the promoted Pod |
| `two_labels` | `README.md:117-118`, "at most one Pod ever carries" the master label (170-171: other labels are removed first) | `syncLabels` goes by ordinal and labels the new master before it reaches the old one |
| `dial_not_retried` | `data-loader/main.go:363,369`, reconnect, retry after a failed dial | the failed dial leaves a nil connection, and the next flush panics |

Four properties rest on behaviour that `split_brain` shows to be against the
README. `Converges`, `KeepsServing`, `ConvergesAfterOverlap` and
`ServesAfterOverlap` hold because the code resolves a split brain by itself: of
several labelled masters it keeps the first in the list, of unlabelled ones the
one that the bootstrap strategy picks (`controller.go:160-190`). A controller
that waited for an operator, as the README has it, would keep what each master
holds, and would leave the set with several masters until someone acts.
`StableSetFed` relies on the same demotions to bring stray replicas back.

TLC also found the following limits of the code while the models were built. No
run is kept for them; the properties are stated so that they hold next to them:

- A `REPLICAOF` that is executed after its time-out may make a labelled master a
  replica again, be followed by a label on what is no longer a master, or close a
  loop. `NoReplicationLoop`, `LabelsOnlyMasters` and `LabeledMasterKept` are
  checked and proved without late commands. `converge` has them: the set
  recovers, though not without a further failover.
- If the patch of the old master's label fails, or the controller stops before
  it, two labels stay until the next pass with a master, and of two labelled
  masters the first in the list is kept.
- A Pod that is re-created after its probe gets the label that was meant for its
  predecessor, since patches go by name. `LabelsOnlyMasters` does not exclude it
  (the new process is a master, without data); `Converges` and `KeepsServing`
  cover what follows.
- Failover prefers any replica whose link is not down to one with a higher offset
  (`controller.go:417-450`; `README.md:193` speaks of the highest offset,
  `README.md:330-332` of the link too).
- A promotion is not verified with ROLE before the labels change, as
  `README.md:195` says: the acknowledgement of `REPLICAOF NO ONE` is taken for it
  (`controller.go:319-321`).
- A reply without a role counts as a replica, which may be promoted.
- With `CONFIG REWRITE`, a promoted Pod whose rewrite failed may reboot as a
  replica and still be labelled master once; `LabelsOnlyMasters` is checked and
  proved without it.
- The record of an epoch is an annotation of one Pod and is lost with it;
  `EpochsIncrease` is about sets none of whose Pods has been deleted.
- The loader ends by bytes acknowledged. On a connection that stays up to a
  server that refuses every SET (a demoted master) it sends batch after batch
  for ever: a refusal is counted as an error and is no reason to reconnect.
- When INFO is refused or has no `run_id`, the probe goes on writing and keeps the
  name of the backend before (`failover-probe/main.go:130-143`).
- A namespace that cannot be listed fails the pass for all (`HeadlessSetsPromoted`
  assumes that listing works again).
- While two leaders overlap, they may close a loop of replicas, lower an epoch
  and, with three Pods, leave replicas that follow each other next to a returned
  master, which no pass corrects. They may also undo each other's failovers for
  as long as both run.

**Bounds.** Three Pods are the least with an old master, a new one and a Pod
that follows either; three faults allow one in the cluster, one in the pass and
one in its repetition. `converge` allows two, because liveness with three Pods
costs more. `converge` includes the behaviours without `CONFIG REWRITE`, which
are those in which every rewrite fails. `Threshold = 1` tells "not yet" from
"long enough": clocks stop at the threshold, since only the comparison matters.
`MaxFaults` bounds the faults of a behaviour, which also bounds incarnations and
epochs; in liveness runs it also says that faults end, and nothing converges
while they go on. In `handover` two Pods suffice for two leaders to promote
different ones, and `ExtraPasses` bounds how many passes an old leader begins
without a lease: one, next to the pass it is in. In `loop`, `MaxPass` is the
longest a pass takes, and an interval of three ticks lets a slow pass, a failed
one and readiness interact; two sets of one name in two namespaces can disturb
each other by name and by order. Four Pods and two tokens let the caller block
on a full semaphore twice. In `loader` four faults allow a replay of a replay,
a late reply and a period of refusals, and `MaxRefused` bounds how many keys are
refused, not how often; in `probe` they allow two late replies and a change of role.

**Fairness.** `FairSpec` of each module assumes that its program keeps taking
steps, and where there is a clock that time passes.
- The ticker of `Run` fires for ever and Redis calls have timeouts
  (`client.go:43`, `client.go:62`). API calls have none of their own, so the
  assumption includes that the API server answers or the connection breaks.
- Recovery is not assumed: `Converges` and `StableSetFed` speak of behaviours in
  which all Pods come up again, `KeepsServing` of those in which one stays up,
  `Recovers` of those in which the Service leads to a master in the end,
  `HeadlessSetsPromoted` of those in which namespaces can be listed again.
- `ProbePool`: the Go scheduler runs every goroutine that is not blocked.
- `ControlLoop`: some replica leads in the end.
- `Handover`: a leader that lost its lease exits in the end, since `RunOrDie`
  cancels its context and returns.
- The tools: a server that lives answers on a connection that lasts. `Finishes`
  does not assume that servers accept writes; it speaks of behaviours in which
  they do in the end.
- Nothing is assumed of faults, nor of when leadership changes.

A finished probe and a finished loader stop, so `pool` and `loader` do not check
for deadlock; `Returns` and `Finishes` say where they stop. A selection stops when
it has returned.

## Proofs

Constants are assumed to be of their types: numbers are natural, Pod names are
finitely many, `NoOne` is not an address and `None` not a backend. `Interval` is not
0, which `validate` checks. `BatchSize` is not 0 either: the loader does not check
it, but a `BATCH_SIZE` of 0 flushes after every key as 1 does, and a negative one
ends the program where it allocates the batch (`data-loader/main.go:289,361`).
Nothing is assumed of how many Pods, sets, faults or ticks there are.

Each safety property of a run is a theorem. They are proved by an invariant that
every step preserves, with a lemma for each group of actions.

- `TypeOKCorrect`: `TypeOK`, by `TypeInv`, which adds that a step with a chosen
  master has one in the set.
- `ThresholdRespected`: by `TimerInv`, the timer never runs ahead of the time
  since a pass found a master.
- `WatchImplemented`: every step of a pass, with all its calls and faults, is a
  step of `SetWatch` or leaves timer and failover alone.
- `LoopFree` (without `CONFIG REWRITE` and late commands): by `TopoInv`. Loop
  freedom alone is not inductive, because a `REPLICAOF` adds an edge. The invariant
  adds that once demotions or redirections begin, the chosen master, if its
  incarnation is still the listed one, follows nobody; an edge to a root closes
  no loop.
- `OnlyMastersLabeled` (likewise): the same fact, at the moment of the patch.
- `LabeledMasterStays` (likewise, until someone else edits labels): by `KeptInv`,
  a label found in the API server before `syncLabels` was already in the list.
- `SingleLabel` (until a patch fails, someone else edits labels or the controller
  stops inside `syncLabels`): by `LabelInv`, in `syncLabels` every labelled Pod is
  the master or still to be visited.
- `EpochMonotone`: by `EpochInv`, the epochs of the list bound those on the Pods,
  and a chosen epoch exceeds them until it is recorded.
- `EpochsAlwaysIncrease` (until a Pod is deleted): in addition the last epoch is
  still on some Pod.
- `ProbesBounded`, `ResultsAreFinal`, `PoolImplementsPhase`: by `PoolInv`, the
  semaphore and the wait group count exactly the goroutines that hold a token
  and those that have not exited.
- `IndependentSets`: by `CurrentInv`, a failover in progress belongs to one set,
  and `OtherTimers`, an update of the map touches one key.
- `StaysReady` (passes shorter than the interval): by `ReadyInv`, which bounds the
  age of the last success by the failures since and the time to the next tick.

- `FailoverAlwaysBest`, `BootstrapAlwaysLowest`: by `SelectionInv`. The list is
  increasing in a strict total order (`LessOrder`); what `CollectLinkUp` has
  collected is a sublist of the part it has passed (`LinkUpTo`), so that a
  candidate met later is never the lower of two equals; and the Pod that `Scan`
  holds beats all it has passed (`Leads`). What they pick is stated by ranks and
  sets, without the list.
- `OneSortedList`: two sorted lists of the same Pods would differ at a first place
  (`LeastNat`). As both hold all Pods (`SortedList`, by counting), the Pod that
  each has there comes later in the other, so that each is less than the other.
- `CountedWritesAreReal`, `CountedOnIdentified`: by `ProbeInv`. That the count is
  right is not inductive, because a reply that comes late is read for a later
  command. The invariant says for each command what may be ahead of its reply:
  INFO and SCAN that timed out, never an INCR. So an integer that `incr` reads
  is its own, from the instance of the connection, which was identified there
  unless INFO named none.
- `BatchStaysBounded`: by `BatchInv`. A failed flush keeps its batch and the loop
  adds a key before it tries again. Each failure is charged to a fault, and
  `Spent` leaves out the fault of a connection that is broken or shifted but has
  not failed a flush yet.
- `DroppedWhenAnswered`: by `SyncInv`, unless replies are shifted the first
  ones answer the first keys of the batch, and the rest is on its way in order.
- `OvercountStaysBounded`: by `CountInv` and `KeyInv`. A replayed key is counted
  twice and executed once or more. What has been counted is bounded by the keys
  executed, without the keys that will be sent or answered again, plus a share of a batch
  for each failure (`Lead`). That these sets are disjoint needs keys to be sent in
  the order of their generation, which is `KeyInv`.
- `TypeCorrect` of `ProbePool`, `ControlLoop`, `FailoverProbe` and `DataLoader`:
  by the same invariants.

The hypotheses of `LoopFree`, `OnlyMastersLabeled` and `LabeledMasterStays` that no
command is executed late are needed: see the limits above. `safety` checks these properties under the same ones.

Only model-checked: liveness (`KeepsServing`, `Converges`, `StableSetFed`,
`Returns`, `UnreadyWhenFailing`, `HeadlessSetsPromoted`, `Finishes`, `Recovers`,
`ConvergesAfterOverlap`, `ServesAfterOverlap`), which needs fairness and `ENABLED`,
and TLAPS supports neither. That the choice of a candidate in `SetReconciler`, one
step there, is what the loops of `Selection` compute is by reading the two
definitions; no theorem relates the modules.

## Not modelled

- The lease protocol of client-go: the modules assume of it only what
  `leader.go` uses, and not that it excludes two leaders.
- The byte level of RESP and INFO. The controller opens a connection for at most
  two commands, so that no reply can be taken for another's; a reply is a role,
  no role or an error. The tools keep their connections, and there the reply
  kinds and what a timeout leaves in the stream are modelled.
- A `CONFIG REWRITE` takes effect at once or not at all; only `REPLICAOF` may be
  executed late.
- Environment variables, logs, HTTP, statistics by kind of error, and the
  contents of the keys and values that the tools use.
- Functions without callers (`RemoveRoleLabel`, `EndpointSliceAddrs`, `FindByIP`,
  `Ping`, `Role`). The default branch of `selectBootstrapCandidate` is
  unreachable, since `validate` accepts only the three strategies.
