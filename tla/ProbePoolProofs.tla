-------------------------- MODULE ProbePoolProofs ---------------------------
(***************************************************************************)
(* The probe pool, for any number of Pods and any PROBE_CONCURRENCY: the   *)
(* bound on open connections, the finality of what is returned, and that   *)
(* the pool implements ProbePhase.                                         *)
(***************************************************************************)
EXTENDS ProbePool, FiniteSetTheorems, TLAPS

\* The goroutines that hold a token of the semaphore, and those the wait group
\* counts.
Holding == {p \in Pods : task[p] \in {"dial", "info", "release"}}
Counted == {p \in Pods : task[p] \notin {"none", "exited"}}

\* How the counters relate to the goroutines, and the goroutines to the loop.
PoolInv ==
    /\ TypeOK
    /\ sem = Cardinality(Holding)
    /\ sem <= Limit
    /\ wg = Cardinality(Counted) + (IF caller = "send" THEN 1 ELSE 0)
    /\ \A p \in Pods : task[p] # "none" <=> p \in probeable /\ p < i
    /\ caller = "send" => i \in probeable
    /\ \A p \in results : task[p] \in {"release", "done", "exited"}
    /\ caller = "returned" => i = N + 1 /\ ResultsFinal

\* Sets of Pods are finite.
LEMMA PodsFinite ==
    ASSUME NEW S \in SUBSET Pods
    PROVE  IsFiniteSet(S) /\ Cardinality(S) \in Nat
<1>1. IsFiniteSet(Pods)
  BY FS_Interval, PoolAssumption DEF Pods
<1>2. IsFiniteSet(S)
  BY <1>1, FS_Subset
<1>3. QED
  BY <1>2, FS_CardinalityType

\* A Pod whose goroutine starts makes the set that counts it larger by one.
LEMMA Join ==
    ASSUME NEW S \in SUBSET Pods, NEW T, NEW p \in Pods, p \notin S,
           T = S \cup {p}
    PROVE  Cardinality(T) = Cardinality(S) + 1
BY PodsFinite, FS_AddElement

\* The same for a Pod whose goroutine releases its token or is done.
LEMMA Leave ==
    ASSUME NEW S \in SUBSET Pods, NEW T, NEW p \in S, T = S \ {p}
    PROVE  Cardinality(T) = Cardinality(S) - 1
BY PodsFinite, FS_RemoveElement

\* The invariant holds when probe is called.
LEMMA PoolInit == Init => PoolInv
<1> SUFFICES ASSUME Init PROVE PoolInv
  OBVIOUS
<1>1. Holding = {} /\ Counted = {}
  BY DEF Init, Holding, Counted
<1>2. Cardinality({}) = 0
  BY FS_EmptySet
<1>3. QED
  BY <1>1, <1>2, PoolAssumption
  DEF Init, PoolInv, TypeOK, ResultsFinal, Pods, Limit, TaskStates

\* The steps of the calling goroutine.
LEMMA PoolCaller == PoolInv /\ Caller => PoolInv'
<1> SUFFICES ASSUME PoolInv, Caller PROVE PoolInv'
  OBVIOUS
<1> USE PoolAssumption
<1>0. Holding \in SUBSET Pods /\ Counted \in SUBSET Pods
  BY DEF Holding, Counted
<1>1. CASE Skip
  <2>1. Holding' = Holding /\ Counted' = Counted
    BY <1>1 DEF Skip, Holding, Counted
  <2>2. QED
    BY <1>1, <2>1 DEF Skip, PoolInv, TypeOK, ResultsFinal, Pods, Limit
<1>2. CASE Add
  <2>1. Holding' = Holding /\ Counted' = Counted
    BY <1>2 DEF Add, Holding, Counted
  <2>2. QED
    BY <1>0, <1>2, <2>1, PodsFinite
    DEF Add, PoolInv, TypeOK, ResultsFinal, Pods, Limit
<1>3. CASE Start
  <2>1. i \in Pods /\ task[i] = "none"
    BY <1>3 DEF Start, PoolInv, TypeOK, Pods
  <2>2. /\ Holding' = Holding \cup {i} /\ i \notin Holding
        /\ Counted' = Counted \cup {i} /\ i \notin Counted
    BY <1>3, <2>1 DEF Start, PoolInv, TypeOK, Holding, Counted
  <2>3. /\ Cardinality(Holding') = Cardinality(Holding) + 1
        /\ Cardinality(Counted') = Cardinality(Counted) + 1
    BY <1>0, <2>1, <2>2, Join
  <2>4. TypeOK'
    BY <1>3, <2>1 DEF Start, PoolInv, TypeOK, Pods, TaskStates
  <2>5. QED
    BY <1>0, <1>3, <2>1, <2>3, <2>4, PodsFinite
    DEF Start, PoolInv, TypeOK, ResultsFinal, Pods, Limit
<1>4. CASE Wait
  <2>1. Holding' = Holding /\ Counted' = Counted
    BY <1>4 DEF Wait, Holding, Counted
  <2>2. Counted = {}
    BY <1>0, <1>4, PodsFinite, FS_EmptySet DEF Wait, PoolInv
  <2>3. \A p \in probeable : task[p] = "exited"
    BY <1>4, <2>2 DEF Wait, PoolInv, TypeOK, Counted, Pods
  <2>4. QED
    BY <1>4, <2>1, <2>3 DEF Wait, PoolInv, TypeOK, ResultsFinal, Limit, Pods
<1>5. QED
  BY <1>1, <1>2, <1>3, <1>4 DEF Caller

\* The steps of a probing goroutine. It moves on only between being started and
\* having exited, so never after the call has returned.
LEMMA PoolGoroutine ==
    ASSUME PoolInv, NEW p \in Pods, Goroutine(p)
    PROVE  PoolInv'
<1> USE PoolAssumption
<1>0. Holding \in SUBSET Pods /\ Counted \in SUBSET Pods
  BY DEF Holding, Counted
<1>1. /\ UNCHANGED <<probeable, i, caller, reached>>
      /\ task[p] \in {"dial", "info", "release", "done"}
      /\ \E s \in TaskStates \ {"none"} : task' = [task EXCEPT ![p] = s]
  BY DEF Goroutine, Dial, Info, Release, Done, StepTask, TaskStates
<1>2. p \in probeable /\ p < i /\ caller # "returned"
  BY <1>1 DEF PoolInv, ResultsFinal
<1>3. \A q \in Pods : (task[q] # "none" <=> q \in probeable /\ q < i)'
  BY <1>1, <1>2 DEF PoolInv, TypeOK
<1>4. CASE Dial(p) \/ Info(p)
  <2>1. Holding' = Holding /\ Counted' = Counted
    BY <1>4 DEF Dial, Info, StepTask, Holding, Counted, PoolInv, TypeOK
  <2>2. TypeOK'
    BY <1>1, <1>4 DEF Dial, Info, PoolInv, TypeOK
  <2>3. \A q \in results' : task'[q] \in {"release", "done", "exited"}
    BY <1>4 DEF Dial, Info, StepTask, PoolInv, TypeOK
  <2>4. QED
    BY <1>1, <1>2, <1>3, <1>4, <2>1, <2>2, <2>3 DEF Dial, Info, PoolInv, Limit
<1>5. CASE Release(p)
  <2>1. Holding' = Holding \ {p} /\ p \in Holding /\ Counted' = Counted
    BY <1>5 DEF Release, StepTask, Holding, Counted, PoolInv, TypeOK
  <2>2. sem' = Cardinality(Holding') /\ sem' \in Nat
    <3>1. Cardinality(Holding') = Cardinality(Holding) - 1
      BY <1>0, <2>1, Leave
    <3>2. Holding' \in SUBSET Pods
      BY <1>0, <2>1
    <3>3. QED
      BY <1>5, <3>1, <3>2, PodsFinite DEF Release, PoolInv
  <2>3. TypeOK'
    BY <1>1, <1>5, <2>2 DEF Release, PoolInv, TypeOK
  <2>4. QED
    BY <1>1, <1>2, <1>3, <1>5, <2>1, <2>2, <2>3
    DEF Release, StepTask, PoolInv, TypeOK, Limit
<1>6. CASE Done(p)
  <2>1. Counted' = Counted \ {p} /\ p \in Counted /\ Holding' = Holding
    BY <1>6 DEF Done, StepTask, Holding, Counted, PoolInv, TypeOK
  <2>2. Cardinality(Counted') = Cardinality(Counted) - 1
    BY <1>0, <2>1, Leave
  <2>3. Cardinality(Counted) \in Nat /\ Cardinality(Counted') \in Nat
    BY <1>0, <2>1, PodsFinite
  <2>4. /\ wg' = Cardinality(Counted') + (IF caller' = "send" THEN 1 ELSE 0)
        /\ wg' \in Nat
    BY <1>1, <1>6, <2>2, <2>3 DEF Done, PoolInv
  <2>5. TypeOK'
    BY <1>1, <1>6, <2>4 DEF Done, PoolInv, TypeOK
  <2>6. QED
    BY <1>1, <1>2, <1>3, <1>6, <2>1, <2>4, <2>5
    DEF Done, StepTask, PoolInv, TypeOK, Limit
<1>7. QED
  BY <1>4, <1>5, <1>6 DEF Goroutine

\* Every step, of the caller or of a goroutine, keeps the invariant.
LEMMA PoolStep == PoolInv /\ [Next]_vars => PoolInv'
<1> SUFFICES ASSUME PoolInv, [Next]_vars PROVE PoolInv'
  OBVIOUS
<1>1. CASE UNCHANGED vars
  BY <1>1 DEF vars, PoolInv, TypeOK, ResultsFinal, Holding, Counted, Limit, Pods
<1>2. QED
  BY <1>1, PoolCaller, PoolGoroutine DEF Next

\* The invariant of the pool.
THEOREM PoolCorrect == Spec => []PoolInv
BY PoolInit, PoolStep, PTL DEF Spec

\* The counters and the results of the pool keep their types, for any number of
\* Pods (controller.go:224-273).
THEOREM TypeCorrect == Spec => []TypeOK
<1>1. PoolInv => TypeOK
  BY DEF PoolInv
<1>2. QED
  BY <1>1, PoolCorrect, PTL

\* PROBE_CONCURRENCY holds for any number of Pods: the connections belong to
\* goroutines that hold a token, and there are at most Limit tokens.
THEOREM ProbesBounded == Spec => []BoundedProbes
<1>1. PoolInv => BoundedProbes
  <2> SUFFICES ASSUME PoolInv PROVE BoundedProbes
    OBVIOUS
  <2>1. Running \in SUBSET Holding /\ Holding \in SUBSET Pods
    BY DEF Running, Holding
  <2>2. Cardinality(Running) <= Cardinality(Holding)
    BY <2>1, PodsFinite, FS_Subset
  <2>3. Running \in SUBSET Pods
    BY <2>1
  <2>4. QED
    BY <2>1, <2>2, <2>3, PodsFinite, PoolAssumption
    DEF PoolInv, BoundedProbes, Limit
<1>2. QED
  BY <1>1, PoolCorrect, PTL

\* After wg.Wait nothing writes the results any more, for any number of Pods.
THEOREM ResultsAreFinal == Spec => []ResultsFinal
<1>1. PoolInv => ResultsFinal
  BY DEF PoolInv, ResultsFinal
<1>2. QED
  BY <1>1, PoolCorrect, PTL

\* The outcomes of the Pods, as ProbePhase sees them.
SeenOutcomes == [p \in Pods |-> Outcome(p)]

\* Steps that leave all outcomes alone.
LEMMA SameOutcomes ==
    ASSUME UNCHANGED probeable,
           \A p \in Pods : Outcome(p)' = Outcome(p)
    PROVE  SeenOutcomes' = SeenOutcomes
<1>1. Pods' = Pods
  BY DEF Pods
<1>2. QED
  BY <1>1 DEF SeenOutcomes

\* Every step of the pool is a step of ProbePhase or changes nothing there. The
\* wait group is what makes the return wait for the last outcome.
LEMMA PhaseStep ==
    ASSUME PoolInv, [Next]_vars
    PROVE  [Phase!Next]_(Phase!vars)
<1> DEFINE same == SeenOutcomes' = SeenOutcomes /\ (caller = "returned")' = (caller = "returned")
<1>0. same => UNCHANGED Phase!vars
  BY DEF Phase!vars, SeenOutcomes
<1>1. CASE UNCHANGED vars \/ Skip \/ Add
  BY <1>0, <1>1, SameOutcomes DEF vars, Skip, Add, Outcome
<1>2. CASE Start
  <2>1. \A p \in Pods : Outcome(p)' = Outcome(p)
    BY <1>2 DEF Start, Outcome, PoolInv, TypeOK, Pods
  <2>2. QED
    BY <1>0, <1>2, <2>1, SameOutcomes DEF Start
<1>3. CASE Wait
  <2>1. Counted = {}
    <3>1. Counted \in SUBSET Pods
      BY DEF Counted
    <3>2. QED
      BY <1>3, <3>1, PodsFinite, FS_EmptySet DEF Wait, PoolInv
  <2>2. \A p \in Pods : SeenOutcomes[p] # "pending"
    BY <1>3, <2>1, PoolAssumption
    DEF SeenOutcomes, Outcome, Wait, Counted, PoolInv, TypeOK, TaskStates, Pods
  <2>3. SeenOutcomes' = SeenOutcomes
    BY <1>3, SameOutcomes DEF Wait, Outcome
  <2>4. Phase!Return
    BY <1>3, <2>2, <2>3 DEF Phase!Return, SeenOutcomes, Wait
  <2>5. QED
    BY <2>4 DEF Phase!Next
<1>4. ASSUME NEW p \in Pods, Goroutine(p)
      PROVE  [Phase!Next]_(Phase!vars)
  <2>0. /\ p \in probeable /\ caller # "returned"
        /\ UNCHANGED <<probeable, caller>>
        /\ \A q \in Pods \ {p} : task'[q] = task[q] /\ (q \in results' <=> q \in results)
    BY <1>4 DEF Goroutine, Dial, Info, Release, Done, StepTask, PoolInv,
                ResultsFinal, TypeOK
  <2>1. CASE task'[p] = "info" \/ task[p] \in {"release", "done"}
    <3>1. Outcome(p)' = Outcome(p)
      BY <1>4, <2>1 DEF Goroutine, Dial, Info, Release, Done, StepTask, Outcome,
                        PoolInv, TypeOK
    <3>2. \A q \in Pods : Outcome(q)' = Outcome(q)
      BY <2>0, <3>1 DEF Outcome
    <3>3. QED
      BY <1>0, <2>0, <3>2, SameOutcomes
  <2>2. CASE task[p] \in {"dial", "info"} /\ task'[p] = "release"
    <3>1. Outcome(p) = "pending" /\ Outcome(p)' \in {"reached", "unreached"}
      BY <2>0, <2>2 DEF Outcome
    <3>2. \A q \in Pods \ {p} : Outcome(q)' = Outcome(q)
      BY <2>0 DEF Outcome
    <3>3. Pods' = Pods
      BY DEF Pods
    <3>4. SeenOutcomes' = [SeenOutcomes EXCEPT ![p] = Outcome(p)']
      BY <3>2, <3>3 DEF SeenOutcomes
    <3>5. Phase!ProbePod(p)
      BY <2>0, <3>1, <3>4 DEF Phase!ProbePod, Phase!Outcomes, SeenOutcomes
    <3>6. QED
      BY <3>5 DEF Phase!Next
  <2>3. QED
    BY <1>4, <2>1, <2>2
    DEF Goroutine, Dial, Info, Release, Done, StepTask, PoolInv, TypeOK
<1>5. QED
  BY <1>1, <1>2, <1>3, <1>4 DEF Next, Caller

\* The semaphore and the wait group implement what SetReconciler assumes of a
\* probe, for any number of Pods and any PROBE_CONCURRENCY.
THEOREM PoolImplementsPhase == Spec => ImplementsPhase
<1>1. Init => Phase!Init
  BY DEF Init, Phase!Init, Outcome
<1>2. PoolInv /\ [Next]_vars => [Phase!Next]_(Phase!vars)
  BY PhaseStep
<1>3. QED
  BY <1>1, <1>2, PoolCorrect, PTL DEF Spec, ImplementsPhase, Phase!Spec
============================================================================
