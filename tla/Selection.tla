----------------------------- MODULE Selection -----------------------------
(***************************************************************************)
(* Which Pod becomes master: the sort of the Pod list and the loops that   *)
(* pick a bootstrap master or a failover candidate from it, one iteration  *)
(* a step, compared with what they are meant to compute.                   *)
(*                                                                         *)
(* Pods here are general: a Pod may have no ordinal (-1), and Pods of two  *)
(* workloads in one set may share one. SetReconciler uses the meaning of   *)
(* these loops for the Pods of one StatefulSet.                            *)
(***************************************************************************)
EXTENDS Integers, Sequences, SequencesExt, FiniteSets

CONSTANTS Name,       \* Pod names, integers for their alphabetical order
          MaxOrdinal, \* ordinals are -1 .. MaxOrdinal
          MaxOffset   \* replication offsets are 0 .. MaxOffset

ASSUME SelectionAssumption ==
    /\ Name \subseteq Int
    /\ IsFiniteSet(Name)
    /\ MaxOrdinal \in Nat
    /\ MaxOffset \in Nat

Strategies == {"first-healthy", "lowest-pod-ordinal", "annotation-preferred"}

PodInfo == [ordinal : -1 .. MaxOrdinal, offset : 0 .. MaxOffset,
            linkDown : BOOLEAN, preferred : BOOLEAN]

VARIABLES
    pod,    \* the Pods to choose from, by name
    task,   \* the selection: "failover", or the strategy of a bootstrap
    pc,     \* "list", "select", "scan" or "done"
    list,   \* the names of the Pods in the order of the sorted list
    cands,  \* the candidates among them
    idx,    \* the index of the loop that runs
    best    \* the Pod selected so far

vars == <<pod, task, pc, list, cands, idx, best>>

Pods == DOMAIN pod

Init ==
    /\ pod \in UNION {[S -> PodInfo] : S \in SUBSET Name}
    /\ task \in Strategies \cup {"failover"}
    /\ pc = "list"
    /\ list = <<>> /\ cands = <<>>
    /\ idx = 1
    /\ best = <<>>

-----------------------------------------------------------------------------

\* Mutant of OrdinalLess: unknown ordinals come first.
OrdinalLessNoUnknown(a, b) == a < b

\* ordinalLess and betterOrdinal, which have the same body.
OrdinalLess(a, b) == a >= 0 /\ (b < 0 \/ a < b)

\* Mutant of ListLess: no tie-break.
ListLessNoName(p, q) == OrdinalLess(pod[p].ordinal, pod[q].ordinal)

\* The comparison of ListRedisPods inside one namespace.
ListLess(p, q) ==
    IF pod[p].ordinal # pod[q].ordinal
    THEN OrdinalLess(pod[p].ordinal, pod[q].ordinal)
    ELSE p < q

\* What sort.Slice promises of its result, which is not stable.
Sorted(s) == \A m, n \in DOMAIN s : m < n => ~ListLess(s[n], s[m])

\* The list of the API server, in whatever order it came, is sorted.
ListRedisPods ==
    /\ pc = "list"
    /\ list' \in {s \in SetToSeqs(Pods) : Sorted(s)}
    /\ pc' = "select"
    /\ UNCHANGED <<pod, task, cands, idx, best>>

\* Both selections return nil when there is nothing to select from.
SelectNone ==
    /\ pc = "select" /\ list = <<>>
    /\ pc' = "done"
    /\ UNCHANGED <<pod, task, list, cands, idx, best>>

\* selectFailoverCandidate: one replica of the loop that collects linkUp.
CollectLinkUp ==
    /\ pc = "select" /\ task = "failover" /\ list # <<>>
    /\ idx <= Len(list)
    /\ cands' = IF pod[list[idx]].linkDown THEN cands ELSE Append(cands, list[idx])
    /\ idx' = idx + 1
    /\ UNCHANGED <<pod, task, pc, list, best>>

\* The candidates are the replicas whose link is up, or all of them when no
\* link is; the loop over them starts from the first.
StartFailover ==
    /\ pc = "select" /\ task = "failover" /\ list # <<>>
    /\ idx > Len(list)
    /\ cands' = IF cands # <<>> THEN cands ELSE list
    /\ best' = cands'[1]
    /\ idx' = 1
    /\ pc' = "scan"
    /\ UNCHANGED <<pod, task, list>>

\* selectBootstrapCandidate, lowest-pod-ordinal: the loop starts from the first.
StartLowest ==
    /\ pc = "select" /\ task = "lowest-pod-ordinal" /\ list # <<>>
    /\ cands' = list
    /\ best' = list[1]
    /\ pc' = "scan"
    /\ UNCHANGED <<pod, task, list, idx>>

\* Mutant of FailoverBetter: the last of equals wins.
FailoverBetterOrEqual(r, b) == pod[r].offset >= pod[b].offset

\* The loop of selectFailoverCandidate replaces b by r.
FailoverBetter(r, b) ==
    \/ pod[r].offset > pod[b].offset
    \/ /\ pod[r].offset = pod[b].offset
       /\ OrdinalLess(pod[r].ordinal, pod[b].ordinal)

\* The loop of lowest-pod-ordinal replaces b by r.
LowestBetter(r, b) ==
    /\ pod[r].ordinal >= 0
    /\ pod[b].ordinal < 0 \/ pod[r].ordinal < pod[b].ordinal

Better(r, b) == IF task = "failover" THEN FailoverBetter(r, b) ELSE LowestBetter(r, b)

\* One candidate of either loop.
Scan ==
    /\ pc = "scan"
    /\ idx <= Len(cands)
    /\ best' = IF Better(cands[idx], best) THEN cands[idx] ELSE best
    /\ idx' = idx + 1
    /\ UNCHANGED <<pod, task, pc, list, cands>>

ReturnBest ==
    /\ pc = "scan"
    /\ idx > Len(cands)
    /\ pc' = "done"
    /\ UNCHANGED <<pod, task, list, cands, idx, best>>

\* selectBootstrapCandidate, annotation-preferred: one candidate of the loop,
\* which returns the first annotated one.
Prefer ==
    /\ pc = "select" /\ task = "annotation-preferred" /\ list # <<>>
    /\ idx <= Len(list)
    /\ IF pod[list[idx]].preferred
       THEN pc' = "done" /\ best' = list[idx] /\ UNCHANGED idx
       ELSE idx' = idx + 1 /\ UNCHANGED <<pc, best>>
    /\ UNCHANGED <<pod, task, list, cands>>

\* The two strategies that return the first of the list: first-healthy, and
\* annotation-preferred when no candidate is annotated.
ReturnFirst ==
    /\ pc = "select" /\ list # <<>>
    /\ \/ task = "first-healthy"
       \/ task = "annotation-preferred" /\ idx > Len(list)
    /\ best' = list[1]
    /\ pc' = "done"
    /\ UNCHANGED <<pod, task, list, cands, idx>>

Next ==
    \/ ListRedisPods
    \/ SelectNone
    \/ CollectLinkUp
    \/ StartFailover
    \/ StartLowest
    \/ Scan
    \/ ReturnBest
    \/ Prefer
    \/ ReturnFirst

Spec == Init /\ [][Next]_vars

-----------------------------------------------------------------------------

\* p is the one Pod of S with the lowest known ordinal; Pods without one come
\* last and the name breaks ties.
IsLowest(p, S) ==
    LET rank(q) == IF pod[q].ordinal < 0 THEN MaxOrdinal + 1 ELSE pod[q].ordinal
    IN  /\ p \in S
        /\ \A q \in S \ {p} : \/ rank(p) < rank(q)
                              \/ rank(p) = rank(q) /\ p < q

\* The link comes first, then the data: the promoted replica has the highest
\* offset among the replicas whose link is not down, or among all when every link
\* is down, and the lowest ordinal among equals (controller.go:417-450). A replica
\* whose link is down is passed over even when it has received more writes than
\* the promoted one; README.md:193 ranks by offset and ordinal alone.
FailoverPicksBest ==
    pc = "done" /\ task = "failover" /\ Pods # {} =>
      LET linkUp == {p \in Pods : ~pod[p].linkDown}
          reached == IF linkUp # {} THEN linkUp ELSE Pods
          top == {p \in reached : \A q \in reached : pod[p].offset >= pod[q].offset}
      IN  IsLowest(best, top)

\* Every bootstrap strategy comes down to the lowest ordinal, among the
\* annotated Pods when annotation-preferred finds one: the "first in list" that
\* two of the strategies return is the Pod the documentation calls the lowest
\* ordinal (controller.go:371-405, README.md:266-269).
BootstrapPicksLowest ==
    pc = "done" /\ task \in Strategies /\ Pods # {} =>
      LET preferred == {p \in Pods : pod[p].preferred}
      IN  IsLowest(best, IF task = "annotation-preferred" /\ preferred # {}
                         THEN preferred ELSE Pods)

\* The order in which the API server returns the Pods does not matter: the Pods
\* have one sorted order only, so two controllers that see the same Pods choose
\* from the same list, although sort.Slice is not stable (pods.go:67-92).
ListOrderIrrelevant ==
    pc # "list" => \A s \in SetToSeqs(Pods) : Sorted(s) => s = list
=============================================================================
