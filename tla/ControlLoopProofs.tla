------------------------- MODULE ControlLoopProofs --------------------------
(***************************************************************************)
(* The controller's loop, for any namespaces, sets, thresholds and         *)
(* intervals: each set evolves as if it were alone, and a single failed    *)
(* pass does not make the leader unready.                                  *)
(***************************************************************************)
EXTENDS ControlLoop, TLAPS

InFailover == pc \in {"failover", "promoted"}
InPass     == pc \in {"list", "sets", "failover", "promoted"}

-----------------------------------------------------------------------------
(* Independence of sets.                                                   *)

\* A set is in failover exactly while the pass is.
CurrentInv ==
    /\ pc \in Phases
    /\ changes \in Nat
    /\ current \in Keys \cup {NoKey}
    /\ InFailover <=> current # NoKey

\* The key of a set is not NoKey.
LEMMA KeyNotNoKey == \A k \in Keys : k # NoKey
<1> SUFFICES ASSUME NEW k \in Keys PROVE k # NoKey
  OBVIOUS
<1>1. PICK n \in Namespaces, m \in Names : k = <<n, m>>
  BY DEF Keys
<1>2. DOMAIN <<n, m>> = 1..2 /\ DOMAIN <<>> = 1..0
  OBVIOUS
<1>3. QED
  BY <1>1, <1>2 DEF NoKey

\* CurrentInv holds throughout.
LEMMA CurrentStep == CurrentInv /\ [Next]_vars => CurrentInv'
<1> SUFFICES ASSUME CurrentInv, [Next]_vars PROVE CurrentInv'
  OBVIOUS
<1> USE LoopAssumption, KeyNotNoKey DEF CurrentInv, InFailover, Phases
<1>1. CASE UNCHANGED vars
  BY <1>1 DEF vars, env, local, Keys
<1>2. CASE Lead \/ BeginPass \/ ListDone \/ EndPass
  BY <1>2 DEF Lead, BeginPass, ListDone, EndPass, NoPass, env, local, Keys
<1>3. CASE Promote \/ FailoverDone \/ FailoverFailed
  BY <1>3 DEF Promote, FailoverDone, FailoverFailed, env, local, Keys
<1>4. CASE \E n \in Namespaces : ListNamespace(n) \/ ListError(n)
  BY <1>4 DEF ListNamespace, ListError, NoPass, env, Keys
<1>5. CASE \E k \in Keys : MasterFound(k) \/ MasterMissed(k) \/ StartFailover(k)
  BY <1>5 DEF MasterFound, MasterMissed, StartFailover, NextSet, env, Keys
<1>6. CASE Environment
  BY <1>6 DEF Environment, Exit, SetChanges, NamespaceChanges, Change, NoPass,
              local, Keys
<1>7. CASE TimePasses
  BY <1>7 DEF TimePasses, env, local, Keys
<1>8. QED
  BY <1>1, <1>2, <1>3, <1>4, <1>5, <1>6, <1>7 DEF Next, Process

\* It holds when the process has not begun to lead.
LEMMA CurrentInit == Init => CurrentInv
BY KeyNotNoKey DEF Init, CurrentInv, InFailover, Phases

\* Writing the state of one set leaves the timers of the others alone.
LEMMA OtherTimers ==
    ASSUME NEW j, NEW t, SetTimer(j, t)
    PROVE  /\ Timer(j)' = t
           /\ \A k : k # j => Timer(k)' = Timer(k)
BY DEF SetTimer, Timer, StateKey

\* Every step of the process, in the eyes of one set, is a step of SetWatch.
LEMMA LoopWatchStep ==
    ASSUME CurrentInv, [Next]_vars, NEW k \in Keys
    PROVE  [Watch(k)!Next]_(Watch(k)!vars)
<1> SUFFICES ASSUME Next PROVE Watch(k)!Next \/ UNCHANGED Watch(k)!vars
  BY DEF vars, env, local, tick, Watch!vars, Watch!surroundings, Timer, StateKey
<1>0. k # NoKey
  BY KeyNotNoKey
<1> USE <1>0 DEF CurrentInv, InFailover, Phases, NotMissing, Watch!NotMissing
<1>1. CASE Lead \/ BeginPass \/ ListDone
           \/ (\E n \in Namespaces : ListNamespace(n) \/ ListError(n))
  BY <1>1 DEF Lead, BeginPass, ListDone, ListNamespace, ListError, NoPass, local,
              Timer, StateKey, Watch!Next
<1>2. ASSUME NEW j \in Keys, MasterFound(j) \/ MasterMissed(j) \/ StartFailover(j)
      PROVE  Watch(k)!Next
  <2>1. current = NoKey /\ current' \in {NoKey, j}
    BY <1>2 DEF MasterFound, MasterMissed, StartFailover, NextSet
  <2>2. CASE k = j
    <3>1. CASE MasterFound(j)
      BY <2>1, <2>2, <3>1, OtherTimers
      DEF MasterFound, Watch!Next, Watch!MasterFound
    <3>2. CASE MasterMissed(j)
      BY <2>1, <2>2, <3>2, OtherTimers
      DEF MasterMissed, MissingFor, Watch!Next, Watch!MasterMissed, Watch!Elapsed
    <3>3. CASE StartFailover(j)
      <4>1. Timer(j)' = MissingFor(j)
        BY <3>3, OtherTimers DEF StartFailover
      <4>2. QED
        BY <2>1, <2>2, <3>3, <4>1
        DEF StartFailover, MissingFor, Watch!Next, Watch!StartFailover, Watch!Elapsed
    <3>4. QED
      BY <1>2, <3>1, <3>2, <3>3
  <2>3. CASE k # j
    <3>1. Timer(k)' = Timer(k)
      BY <1>2, <2>3, OtherTimers DEF MasterFound, MasterMissed, StartFailover
    <3>2. QED
      BY <2>1, <2>3, <3>1 DEF Watch!Next
  <2>4. QED
    BY <2>2, <2>3
<1>3. CASE Promote
  <2>1. Timer(k)' = Timer(k)
    BY <1>3 DEF Promote, Timer, StateKey
  <2>2. QED
    BY <1>3, <2>1 DEF Promote, local, Watch!Next, Watch!Promote
<1>4. CASE FailoverFailed
  <2>1. Timer(k)' = Timer(k)
    BY <1>4 DEF FailoverFailed, Timer, StateKey
  <2>2. QED
    BY <1>4, <2>1 DEF FailoverFailed, Watch!Next, Watch!FailoverFailed
<1>5. CASE FailoverDone
  <2>1. CASE k = current
    BY <1>5, <2>1, OtherTimers
    DEF FailoverDone, Watch!Next, Watch!FailoverDone
  <2>2. CASE k # current
    BY <1>5, <2>2, OtherTimers DEF FailoverDone, Watch!Next
  <2>3. QED
    BY <2>1, <2>2
<1>6. CASE EndPass
  <2>1. current = NoKey /\ current' = NoKey /\ pc = "sets"
    BY <1>6 DEF EndPass, NoPass
  <2>2. CASE k \in groups
    <3>1. Timer(k)' = Timer(k)
      BY <1>6, <2>2 DEF EndPass, Timer, StateKey
    <3>2. QED
      BY <2>1, <3>1 DEF Watch!Next
  <2>3. CASE k \notin groups
    <3>1. Timer(k)' = NotMissing
      BY <1>6, <2>3 DEF EndPass, Timer, StateKey
    <3>2. QED
      BY <2>1, <2>3, <3>1 DEF Watch!Next, Watch!Forget
  <2>4. QED
    BY <2>2, <2>3
<1>7. CASE Exit
  BY <1>7 DEF Exit, NoPass, Timer, StateKey, Watch!Next, Watch!Restart
<1>8. CASE \/ \E j \in Keys : SetChanges(j)
           \/ \E n \in Namespaces : NamespaceChanges(n)
  BY <1>8 DEF SetChanges, NamespaceChanges, local, Timer, StateKey, Watch!Next
<1>9. CASE TimePasses
  <2>1. \/ Timer(k)' = Timer(k)
        \/ Timer(k) \in 0 .. Threshold-1 /\ Timer(k)' = Timer(k) + 1
    BY <1>9 DEF TimePasses, Timer, StateKey
  <2>2. QED
    BY <1>9, <2>1 DEF TimePasses, local, Watch!Next, Watch!Tick
<1>10. QED
  BY <1>1, <1>2, <1>3, <1>4, <1>5, <1>6, <1>7, <1>8, <1>9
  DEF Next, Process, Environment

\* No set is disturbed by the others, for any number of sets and namespaces.
THEOREM IndependentSets == Spec => SetsIndependent
<1>1. Init => \A k \in Keys : Watch(k)!Init
  BY KeyNotNoKey
  DEF Init, Watch!Init, Timer, StateKey, NotMissing, Watch!NotMissing
<1>2. CurrentInv /\ [Next]_vars
      => [\A k \in Keys : [Watch(k)!Next]_(Watch(k)!vars)]_vars
  BY LoopWatchStep
<1>3. QED
  BY <1>1, <1>2, CurrentInit, CurrentStep, PTL DEF Spec, SetsIndependent

-----------------------------------------------------------------------------
(* Readiness.                                                              *)

\* How long ago the last success can be when a tick is due, after e failures.
Due(e) == IF e = 0 THEN Interval ELSE 2 * Interval

\* How the age of the last success relates to the phase of the ticker: a pass
\* starts on a tick and is over before the next one.
ReadyInv ==
    /\ age \in Nat /\ next \in 1 .. Interval
    /\ passTime \in 0 .. MaxPass /\ errs \in 0 .. 2
    /\ pc \in Phases
    /\ pc = "standby" => ~started
    /\ ~InPass => passTime = 0
    /\ InPass => ~fired /\ next = Interval - passTime
    /\ pc = "wait" /\ fired => next = Interval
    /\ errs <= 1 /\ pc = "wait" /\ ~fired => age + next <= Due(errs)
    /\ errs <= 1 /\ pc = "wait" /\ fired => age <= Due(errs)
    /\ errs <= 1 /\ InPass => age <= Due(errs) + passTime

\* Time passes between two passes or during one.
LEMMA ReadyTime ==
    ASSUME MaxPass < Interval, ReadyInv, TimePasses
    PROVE  ReadyInv'
<1>0. /\ age \in Nat /\ next \in 1 .. Interval /\ passTime \in 0 .. MaxPass
      /\ errs \in 0 .. 2 /\ Due(errs) \in Nat
      /\ Interval \in Nat \ {0} /\ MaxPass \in Nat
  BY LoopAssumption DEF ReadyInv, Due
<1>1. /\ UNCHANGED <<started, pc, errs>>
      /\ age' \in Nat /\ age' <= age + 1
      /\ next' = (IF next = 1 THEN Interval ELSE next - 1)
      /\ pc # "standby"
  BY <1>0 DEF TimePasses
<1>2. Due(errs)' = Due(errs)
  BY <1>1 DEF Due
<1>3. CASE pc = "wait"
  <2>1. ~fired /\ passTime' = passTime
    BY <1>3 DEF TimePasses
  <2>2. errs <= 1 => age + next <= Due(errs)
    BY <1>3, <2>1 DEF ReadyInv
  <2>3. CASE next = 1
    <3>1. fired'
      BY <2>3 DEF TimePasses
    <3>2. next' = Interval /\ next' \in 1 .. Interval
      BY <1>0, <1>1, <2>3
    <3>3. errs <= 1 => age' <= Due(errs)
      BY <1>0, <1>1, <2>2, <2>3
    <3>4. QED
      BY <1>0, <1>1, <1>2, <1>3, <2>1, <3>1, <3>2, <3>3 DEF ReadyInv, InPass
  <2>4. CASE next # 1
    <3>1. ~fired'
      BY <2>1, <2>4 DEF TimePasses
    <3>2. next' = next - 1 /\ next' \in 1 .. Interval
      BY <1>0, <1>1, <2>4
    <3>3. errs <= 1 => age' + next' <= Due(errs)
      BY <1>0, <1>1, <2>2, <3>2
    <3>4. QED
      BY <1>0, <1>1, <1>2, <1>3, <2>1, <3>1, <3>2, <3>3 DEF ReadyInv, InPass
  <2>5. QED
    BY <2>3, <2>4
<1>4. CASE pc # "wait"
  <2>1. passTime < MaxPass /\ passTime' = passTime + 1
    BY <1>4 DEF TimePasses
  <2>2. InPass /\ InPass'
    BY <1>1, <1>4 DEF ReadyInv, InPass, Phases
  <2>3. ~fired /\ next = Interval - passTime
    BY <2>2 DEF ReadyInv
  <2>4. next # 1 /\ next' = next - 1 /\ next' \in 1 .. Interval
    BY <1>0, <1>1, <2>1, <2>3
  <2>5. ~fired'
    BY <2>3, <2>4 DEF TimePasses
  <2>6. errs <= 1 => age <= Due(errs) + passTime
    BY <2>2 DEF ReadyInv
  <2>7. errs <= 1 => age' <= Due(errs) + passTime'
    BY <1>0, <1>1, <2>1, <2>6
  <2>8. passTime' \in 0 .. MaxPass /\ next' = Interval - passTime'
    BY <1>0, <2>1, <2>3, <2>4
  <2>9. QED
    BY <1>0, <1>1, <1>2, <1>4, <2>2, <2>4, <2>5, <2>7, <2>8 DEF ReadyInv
<1>5. QED
  BY <1>3, <1>4

\* ReadyInv holds throughout.
LEMMA ReadyStep ==
    ASSUME MaxPass < Interval, ReadyInv, [Next]_vars
    PROVE  ReadyInv'
<1> USE LoopAssumption DEF ReadyInv, InPass, Phases, Due
<1>1. CASE \/ UNCHANGED vars
           \/ \E k \in Keys : SetChanges(k)
           \/ \E n \in Namespaces : NamespaceChanges(n)
  BY <1>1 DEF vars, tick, SetChanges, NamespaceChanges
<1>2. CASE Lead
  BY <1>2 DEF Lead
<1>3. CASE Exit
  BY <1>3 DEF Exit, NoPass
<1>4. CASE BeginPass
  BY <1>4 DEF BeginPass
<1>5. CASE ListDone \/ Promote \/ FailoverDone \/ FailoverFailed
           \/ \E n \in Namespaces : ListNamespace(n)
  BY <1>5 DEF ListDone, Promote, FailoverDone, FailoverFailed, ListNamespace, tick
<1>6. CASE \E k \in Keys : MasterFound(k) \/ MasterMissed(k) \/ StartFailover(k)
  BY <1>6 DEF MasterFound, MasterMissed, StartFailover, NextSet, tick
<1>7. CASE EndPass
  BY <1>7 DEF EndPass, NoPass, tick
<1>8. CASE \E n \in Namespaces : ListError(n)
  <2>1. /\ pc = "list" /\ pc' = "wait" /\ passTime' = 0
        /\ errs' = (IF errs = 2 THEN 2 ELSE errs + 1)
        /\ UNCHANGED <<started, age, next, fired>>
    BY <1>8 DEF ListError, NoPass, tick
  <2>2. age + next <= Due(errs) + Interval \/ errs > 1
    BY <2>1
  <2>3. QED
    BY <2>1, <2>2
<1>9. CASE TimePasses
  BY <1>9, ReadyTime
<1>10. QED
  BY <1>1, <1>2, <1>3, <1>4, <1>5, <1>6, <1>7, <1>8, <1>9
  DEF Next, Process, Environment

\* With passes shorter than the interval, whatever the interval is, one failed
\* pass never makes the leader unready: three intervals are enough, two are not.
THEOREM StaysReady ==
    ASSUME MaxPass < Interval
    PROVE  Spec => []ReadyDespiteOneError
<1> USE LoopAssumption
<1>1. Init => ReadyInv
  BY DEF Init, ReadyInv, InPass, Phases, Due
<1>2. ReadyInv /\ [Next]_vars => ReadyInv'
  BY ReadyStep
<1>3. ReadyInv => ReadyDespiteOneError
  BY DEF ReadyInv, InPass, Phases, Due, ReadyDespiteOneError, Ready
<1>4. QED
  BY <1>1, <1>2, <1>3, PTL DEF Spec

-----------------------------------------------------------------------------
(* Type correctness.                                                       *)

\* stateFor keeps states of sets only, with timers up to the threshold.
TimersOK == \E K \in SUBSET Keys : sets \in [K -> NotMissing .. Threshold]

\* The time a master is missing is one that a timer can have.
LEMMA MissingForType ==
    ASSUME TimersOK, NEW k \in Keys
    PROVE  MissingFor(k) \in NotMissing .. Threshold
<1>1. PICK K \in SUBSET Keys : sets \in [K -> NotMissing .. Threshold]
  BY DEF TimersOK
<1>2. Timer(k) \in NotMissing .. Threshold
  BY <1>1, LoopAssumption DEF Timer, StateKey, NotMissing
<1>3. QED
  BY <1>2, LoopAssumption DEF MissingFor, NotMissing

\* Storing the timer of a set keeps the map of states one of sets.
LEMMA SetTimerType ==
    ASSUME TimersOK, NEW k \in Keys, NEW t \in NotMissing .. Threshold, SetTimer(k, t)
    PROVE  TimersOK'
<1>1. PICK K \in SUBSET Keys : sets \in [K -> NotMissing .. Threshold]
  BY DEF TimersOK
<1>2. K \cup {k} \in SUBSET Keys
  OBVIOUS
<1>3. sets' \in [K \cup {k} -> NotMissing .. Threshold]
  BY <1>1 DEF SetTimer, StateKey
<1>4. QED
  BY <1>2, <1>3 DEF TimersOK, Keys

\* Every step keeps the timers: those that reconcileSet sets, those that
\* pruneVanishedSets leaves and those that run on.
LEMMA TimersNext ==
    ASSUME TimersOK, CurrentInv, Next
    PROVE  TimersOK'
<1>1. PICK K \in SUBSET Keys : sets \in [K -> NotMissing .. Threshold]
  BY DEF TimersOK
<1>2. NotMissing \in NotMissing .. Threshold /\ Threshold \in Nat
  BY LoopAssumption DEF NotMissing
<1>3. CASE \E k \in Keys : MasterFound(k) \/ MasterMissed(k) \/ StartFailover(k)
  <2>1. PICK k \in Keys : MasterFound(k) \/ MasterMissed(k) \/ StartFailover(k)
    BY <1>3
  <2>2. SetTimer(k, NotMissing) \/ SetTimer(k, MissingFor(k))
    BY <2>1 DEF MasterFound, MasterMissed, StartFailover
  <2>3. QED
    BY <1>2, <2>2, MissingForType, SetTimerType
<1>4. CASE FailoverDone
  <2>1. SetTimer(current, NotMissing) /\ current \in Keys
    BY <1>4 DEF FailoverDone, CurrentInv, InFailover
  <2>2. QED
    BY <1>2, <2>1, SetTimerType
<1>5. CASE EndPass
  <2> DEFINE L == K \cap {StateKey(j) : j \in groups}
  <2>1. L \in SUBSET Keys /\ sets' \in [L -> NotMissing .. Threshold]
    BY <1>1, <1>5 DEF EndPass
  <2>2. QED
    BY <2>1 DEF TimersOK, Keys
<1>6. CASE Exit
  <2>1. {} \in SUBSET Keys /\ sets' \in [{} -> NotMissing .. Threshold]
    BY <1>6 DEF Exit
  <2>2. QED
    BY <2>1 DEF TimersOK, Keys
<1>7. CASE TimePasses
  <2>1. sets' = [k \in K |-> IF sets[k] \in 0 .. Threshold-1 THEN sets[k] + 1 ELSE sets[k]]
    BY <1>1, <1>7 DEF TimePasses
  <2>2. \A t \in NotMissing .. Threshold :
           (IF t \in 0 .. Threshold-1 THEN t + 1 ELSE t) \in NotMissing .. Threshold
    BY <1>2 DEF NotMissing
  <2>3. sets' \in [K -> NotMissing .. Threshold]
    BY <1>1, <2>1, <2>2
  <2>4. QED
    BY <2>3 DEF TimersOK, Keys
<1>8. CASE sets' = sets
  BY <1>8 DEF TimersOK, Keys
<1>9. QED
  BY <1>3, <1>4, <1>5, <1>6, <1>7, <1>8
  DEF Next, Process, Environment, Lead, BeginPass, ListDone, Promote, FailoverFailed,
      ListNamespace, ListError, SetChanges, NamespaceChanges

\* The clocks and the count of failures stay within their bounds.
LEMMA ClocksNext ==
    ASSUME TypeOK, Next
    PROVE  /\ age' \in 0 .. 3 * Interval
           /\ next' \in 1 .. Interval
           /\ passTime' \in 0 .. MaxPass
           /\ errs' \in 0 .. 2
<1>1. /\ age \in 0 .. 3 * Interval /\ next \in 1 .. Interval
      /\ passTime \in 0 .. MaxPass /\ errs \in 0 .. 2
  BY DEF TypeOK
<1>2. Interval \in Nat \ {0} /\ MaxPass \in Nat
  BY LoopAssumption
<1>3. CASE TimePasses
  BY <1>1, <1>2, <1>3 DEF TimePasses
<1>4. CASE Process
  <2>1. /\ age' \in {age, 0} /\ next' \in {next, Interval}
        /\ passTime' \in {passTime, 0}
    BY <1>4, Zenon
    DEF Process, Lead, BeginPass, ListDone, EndPass, Promote, FailoverDone,
        FailoverFailed, ListNamespace, ListError, MasterFound, MasterMissed,
        StartFailover, NextSet, Exit, NoPass, env, tick, local
  <2>2. errs' \in {errs, 0, IF errs = 2 THEN 2 ELSE errs + 1}
    BY <1>4, Zenon
    DEF Process, Lead, BeginPass, ListDone, EndPass, Promote, FailoverDone,
        FailoverFailed, ListNamespace, ListError, MasterFound, MasterMissed,
        StartFailover, NextSet, Exit, NoPass, env, tick, local
  <2> QED BY <1>1, <1>2, <2>1, <2>2
<1>5. CASE Environment
  <2>1. /\ age' \in {age, 0} /\ next' \in {next, Interval}
        /\ passTime' \in {passTime, 0} /\ errs' \in {errs, 0}
    BY <1>5, Zenon
    DEF Environment, SetChanges, NamespaceChanges, Exit, NoPass, tick, local
  <2> QED BY <1>1, <1>2, <2>1
<1> QED BY <1>3, <1>4, <1>5 DEF Next

\* Every step of the loop, of time and of the environment keeps the types.
LEMMA TypeNext ==
    ASSUME TypeOK, CurrentInv, Next
    PROVE  TypeOK'
<1>1. /\ age' \in 0 .. 3 * Interval /\ next' \in 1 .. Interval
      /\ passTime' \in 0 .. MaxPass /\ errs' \in 0 .. 2
  BY ClocksNext
<1> USE DEF Next, Process, Environment, Lead, BeginPass, ListDone, EndPass, Promote,
            FailoverDone, FailoverFailed, ListNamespace, ListError, MasterFound,
            MasterMissed, StartFailover, NextSet, Exit, SetChanges, NamespaceChanges,
            TimePasses, NoPass, Change, env, tick, local
<1>2. view' \in [Keys -> Views]
  BY DEF TypeOK, Views, Keys
<1>3. down' \in SUBSET Namespaces
  BY DEF TypeOK
<1>4. pc' \in Phases /\ changes' \in Nat /\ current' \in Keys \cup {NoKey}
  BY CurrentStep DEF CurrentInv, Keys
<1>5. started' = (pc' # "standby")
  BY DEF TypeOK
<1>6. TimersOK'
  BY TimersNext DEF TypeOK, TimersOK
<1>7. fired' \in BOOLEAN
  BY DEF TypeOK
<1>8. nsLeft' \in SUBSET Namespaces
  BY DEF TypeOK
<1>9. groups' \in SUBSET Keys
  BY DEF TypeOK
<1>10. todo' \in SUBSET Keys
  BY DEF TypeOK
<1>11. QED
  BY <1>1, <1>2, <1>3, <1>4, <1>5, <1>6, <1>7, <1>8, <1>9, <1>10
  DEF TypeOK, TimersOK, Keys

\* The state of the loop keeps its types, for any namespaces, sets and intervals;
\* that of a set is kept only under the key of a set (controller.go:73-134, 508-527).
THEOREM TypeCorrect == Spec => []TypeOK
<1>1. Init => TypeOK
  <2> SUFFICES ASSUME Init PROVE TypeOK
    OBVIOUS
  <2>1. {} \in SUBSET Keys /\ sets \in [{} -> NotMissing .. Threshold]
    BY DEF Init
  <2>2. started = (pc # "standby") /\ fired \in BOOLEAN
    BY DEF Init
  <2>3. view \in [Keys -> Views] /\ pc \in Phases /\ current \in Keys \cup {NoKey}
    BY DEF Init, Views, Phases
  <2>4. age \in 0 .. 3 * Interval /\ next \in 1 .. Interval /\ passTime \in 0 .. MaxPass
    BY LoopAssumption DEF Init
  <2>5. QED
    BY <2>1, <2>2, <2>3, <2>4 DEF Init, TypeOK
<1>2. TypeOK /\ CurrentInv /\ [Next]_vars => TypeOK'
  <2>1. CASE UNCHANGED vars
    BY <2>1 DEF vars, env, tick, local, TypeOK, Keys
  <2>2. QED
    BY <2>1, TypeNext
<1>3. QED
  BY <1>1, <1>2, CurrentInit, CurrentStep, PTL DEF Spec
============================================================================
