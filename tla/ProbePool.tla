----------------------------- MODULE ProbePool ------------------------------
(***************************************************************************)
(* controller.probe: a loop that starts one goroutine per Pod, a channel   *)
(* used as a semaphore so that at most ProbeConcurrency of them run, and a *)
(* wait group that holds the caller back until the last has finished       *)
(* (internal/controller/controller.go). Each goroutine dials its Pod, asks *)
(* for INFO replication and writes its own slot of the results.            *)
(***************************************************************************)
EXTENDS Integers, FiniteSets

CONSTANTS
    N,                  \* number of Pods in the set, listed as 1..N
    ProbeConcurrency    \* PROBE_CONCURRENCY

Pods == 1 .. N

ASSUME PoolAssumption == N \in Nat /\ ProbeConcurrency \in Int

VARIABLES
    probeable,  \* the Pods that have an IP and are Running
    i,          \* the Pod the loop is at; N+1 when the loop is over
    caller,     \* "loop", "send" (blocked on the semaphore) or "returned"
    sem,        \* tokens in the semaphore channel
    wg,         \* counter of the wait group
    task,       \* where the goroutine of each Pod is
    results,    \* slots written by the goroutines
    reached     \* the Pods returned to the caller

vars == <<probeable, i, caller, sem, wg, task, results, reached>>

TaskStates == {"none", "dial", "info", "release", "done", "exited"}

\* The values of all variables, whatever the order of the goroutines' steps.
TypeOK ==
    /\ probeable \in SUBSET Pods
    /\ i \in 1 .. N+1
    /\ caller \in {"loop", "send", "returned"}
    /\ sem \in Nat
    /\ wg \in Nat
    /\ task \in [Pods -> TaskStates]
    /\ results \in SUBSET Pods
    /\ reached \in SUBSET Pods

\* The capacity of the semaphore.
Limit == IF ProbeConcurrency < 1 THEN 1 ELSE ProbeConcurrency

Init ==
    /\ probeable \in SUBSET Pods
    /\ i = 1
    /\ caller = "loop"
    /\ sem = 0
    /\ wg = 0
    /\ task = [p \in Pods |-> "none"]
    /\ results = {}
    /\ reached = {}

-----------------------------------------------------------------------------
(* The caller.                                                             *)

\* The Pod has no IP or is not Running.
Skip ==
    /\ caller = "loop" /\ i <= N
    /\ i \notin probeable
    /\ i' = i + 1
    /\ UNCHANGED <<probeable, caller, sem, wg, task, results, reached>>

\* wg.Add(1), before the goroutine exists.
Add ==
    /\ caller = "loop" /\ i <= N
    /\ i \in probeable
    /\ wg' = wg + 1
    /\ caller' = "send"
    /\ UNCHANGED <<probeable, i, sem, task, results, reached>>

\* Mutants of Start: one goroutine too many gets through; no token is taken.
StartOneMore ==
    /\ caller = "send"
    /\ sem <= Limit
    /\ sem' = sem + 1
    /\ task' = [task EXCEPT ![i] = "dial"]
    /\ i' = i + 1
    /\ caller' = "loop"
    /\ UNCHANGED <<probeable, wg, results, reached>>

StartFree ==
    /\ caller = "send"
    /\ task' = [task EXCEPT ![i] = "dial"]
    /\ i' = i + 1
    /\ caller' = "loop"
    /\ UNCHANGED <<probeable, sem, wg, results, reached>>

\* The send on the semaphore goes through and the goroutine starts.
Start ==
    /\ caller = "send"
    /\ sem < Limit
    /\ sem' = sem + 1
    /\ task' = [task EXCEPT ![i] = "dial"]
    /\ i' = i + 1
    /\ caller' = "loop"
    /\ UNCHANGED <<probeable, wg, results, reached>>

\* Mutants of Wait: the semaphore is drained instead; nothing is waited for.
WaitForTokens ==
    /\ caller = "loop" /\ i = N + 1
    /\ sem = 0
    /\ reached' = results
    /\ caller' = "returned"
    /\ UNCHANGED <<probeable, i, sem, wg, task, results>>

WaitForNobody ==
    /\ caller = "loop" /\ i = N + 1
    /\ reached' = results
    /\ caller' = "returned"
    /\ UNCHANGED <<probeable, i, sem, wg, task, results>>

\* wg.Wait returns and the slots that were written are collected.
Wait ==
    /\ caller = "loop" /\ i = N + 1
    /\ wg = 0
    /\ reached' = results
    /\ caller' = "returned"
    /\ UNCHANGED <<probeable, i, sem, wg, task, results>>

-----------------------------------------------------------------------------
(* The goroutine of Pod p.                                                 *)

StepTask(p, from, to) ==
    /\ task[p] = from
    /\ task' = [task EXCEPT ![p] = to]

\* Dial, which may fail.
Dial(p) ==
    /\ \E s \in {"info", "release"} : StepTask(p, "dial", s)
    /\ UNCHANGED <<probeable, i, caller, sem, wg, results, reached>>

\* InfoReplication, which may fail; the slot is written only on success.
Info(p) ==
    /\ StepTask(p, "info", "release")
    /\ results' \in {results, results \cup {p}}
    /\ UNCHANGED <<probeable, i, caller, sem, wg, reached>>

\* Mutant of Release: the early returns leave the token in the channel.
ReleaseOnSuccess(p) ==
    /\ StepTask(p, "release", "done")
    /\ sem' = IF p \in results THEN sem - 1 ELSE sem
    /\ UNCHANGED <<probeable, i, caller, wg, results, reached>>

\* The deferred receive from the semaphore, on every path.
Release(p) ==
    /\ StepTask(p, "release", "done")
    /\ sem' = sem - 1
    /\ UNCHANGED <<probeable, i, caller, wg, results, reached>>

\* The deferred wg.Done, after the token is back.
Done(p) ==
    /\ StepTask(p, "done", "exited")
    /\ wg' = wg - 1
    /\ UNCHANGED <<probeable, i, caller, sem, results, reached>>

Goroutine(p) == Dial(p) \/ Info(p) \/ Release(p) \/ Done(p)

Caller == Skip \/ Add \/ Start \/ Wait

Next == Caller \/ \E p \in Pods : Goroutine(p)

Spec == Init /\ [][Next]_vars

\* The caller and every goroutine are scheduled; dials and commands time out,
\* so that a goroutine is never stuck in a call.
FairSpec ==
    /\ Spec
    /\ WF_vars(Caller)
    /\ \A p \in Pods : WF_vars(Goroutine(p))

-----------------------------------------------------------------------------

\* The goroutines that have a connection to open or open.
Running == {p \in Pods : task[p] \in {"dial", "info"}}

\* PROBE_CONCURRENCY bounds the connections open at a time (config.go:62-65),
\* however the goroutines' returns and the caller's sends interleave.
BoundedProbes == Cardinality(Running) <= Limit

\* What the caller was given does not change behind its back: no goroutine is
\* left that could still write a slot, and no slot is missing (controller.go:264).
ResultsFinal ==
    caller = "returned" =>
      /\ reached = results
      /\ \A p \in probeable : task[p] = "exited"

\* The outcome of a Pod's probe in terms of ProbePhase.
Outcome(p) ==
    IF p \notin probeable THEN "skipped"
    ELSE IF task[p] \in {"none", "dial", "info"} THEN "pending"
    ELSE IF p \in results THEN "reached" ELSE "unreached"

Phase == INSTANCE ProbePhase WITH
    seen <- [p \in Pods |-> Outcome(p)],
    returned <- caller = "returned"

\* The pool gives what the rest of the controller relies on: one outcome for
\* each probed Pod, and a return only after the last of them.
ImplementsPhase == Phase!Spec

\* Neither the semaphore, with fewer tokens than Pods, nor the wait group ever
\* blocks the pass for good: the call returns (controller.go:244, 264).
Returns == <>(caller = "returned")
=============================================================================
