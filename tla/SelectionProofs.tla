-------------------------- MODULE SelectionProofs --------------------------
(***************************************************************************)
(* The selections pick what they are meant to pick, for any number of      *)
(* Pods, ordinals and offsets. The argument has three parts: the order of  *)
(* the list is a strict total order on Pods, so that a set of Pods has one *)
(* sorted list; the collected candidates are a sublist of it; and the Pod  *)
(* that a loop holds beats every candidate it has passed.                  *)
(***************************************************************************)
EXTENDS Selection, FiniteSetTheorems, WellFoundedInduction, TLAPS

\* ListLess with the Pods as a parameter.
Less(d, p, q) ==
    IF d[p].ordinal # d[q].ordinal
    THEN OrdinalLess(d[p].ordinal, d[q].ordinal)
    ELSE p < q

\* s lists Pods of d, each one before every later one.
Increasing(d, s) ==
    /\ s \in Seq(DOMAIN d)
    /\ \A m, n \in 1 .. Len(s) : m < n => Less(d, s[m], s[n])

\* s lists every Pod of d.
Covers(d, s) == \A p \in DOMAIN d : \E m \in 1 .. Len(s) : s[m] = p

PodMaps == UNION {[S -> PodInfo] : S \in SUBSET Name}

-----------------------------------------------------------------------------

\* The Pods of a list are finitely many, with integer names, ordinals and
\* offsets (pods.go:171-205).
LEMMA PodTypes ==
    ASSUME NEW d \in PodMaps
    PROVE  /\ IsFiniteSet(DOMAIN d)
           /\ DOMAIN d \subseteq Int
           /\ \A p \in DOMAIN d : /\ d[p] \in PodInfo
                                  /\ d[p].ordinal \in -1 .. MaxOrdinal
                                  /\ d[p].ordinal \in Int
                                  /\ d[p].offset \in Int
                                  /\ d[p].linkDown \in BOOLEAN
                                  /\ d[p].preferred \in BOOLEAN
<1>1. PICK S \in SUBSET Name : d \in [S -> PodInfo]
  BY DEF PodMaps
<1>2. IsFiniteSet(S)
  BY <1>1, FS_Subset, SelectionAssumption
<1>3. DOMAIN d = S
  BY <1>1
<1>4. \A r \in PodInfo : /\ r.ordinal \in -1 .. MaxOrdinal
                         /\ r.ordinal \in Int
                         /\ r.offset \in Int
                         /\ r.linkDown \in BOOLEAN
                         /\ r.preferred \in BOOLEAN
  BY SelectionAssumption DEF PodInfo
<1> QED
  BY <1>1, <1>2, <1>3, <1>4, SelectionAssumption

\* The comparison of ListRedisPods is a strict total order: two Pods are never
\* equal to it (pods.go:82-90, 207-217).
LEMMA LessOrder ==
    ASSUME NEW d \in PodMaps
    PROVE  /\ \A p, q \in DOMAIN d : p # q => Less(d, p, q) \/ Less(d, q, p)
           /\ \A p, q \in DOMAIN d : Less(d, p, q) => ~Less(d, q, p)
           /\ \A p, q, r \in DOMAIN d :
                Less(d, p, q) /\ Less(d, q, r) => Less(d, p, r)
<1>1. /\ DOMAIN d \subseteq Int
      /\ \A p \in DOMAIN d : d[p].ordinal \in -1 .. MaxOrdinal /\ d[p].ordinal \in Int
  BY PodTypes
<1>2. \A p, q \in DOMAIN d : p # q => Less(d, p, q) \/ Less(d, q, p)
  BY <1>1, SelectionAssumption DEF Less, OrdinalLess
<1>3. \A p, q \in DOMAIN d : Less(d, p, q) => ~Less(d, q, p)
  BY <1>1 DEF Less, OrdinalLess
<1>4. \A p, q, r \in DOMAIN d : Less(d, p, q) /\ Less(d, q, r) => Less(d, p, r)
  BY <1>1 DEF Less, OrdinalLess
<1> QED
  BY <1>2, <1>3, <1>4

\* The least element of a non-empty set of natural numbers.
LEMMA LeastNat ==
    ASSUME NEW T, T \subseteq Nat, T # {}
    PROVE  \E m \in T : \A n \in T : m <= n
<1>1. \E m \in T : \A n \in T : <<n, m>> \notin OpToRel(<, Nat)
  BY WFMin, NatLessThanWellFounded, Zenon
<1>2. PICK m \in T : \A n \in T : <<n, m>> \notin OpToRel(<, Nat)
  BY <1>1
<1>3. \A n \in T : ~(n < m)
  BY <1>2 DEF OpToRel
<1>4. \A n \in T : n \in Int
  OBVIOUS
<1>5. \A n \in T : m <= n
  BY <1>3, <1>4
<1> QED
  BY <1>5

\* A sorted list of all Pods is increasing, so each Pod comes before every later
\* one, and no Pod is missing (pods.go:71-92).
LEMMA SortedList ==
    ASSUME NEW d \in PodMaps, NEW s \in SetToSeqs(DOMAIN d),
           \A m, n \in DOMAIN s : m < n => ~Less(d, s[n], s[m])
    PROVE  /\ Increasing(d, s)
           /\ Covers(d, s)
           /\ Len(s) = Cardinality(DOMAIN d)
<1> DEFINE N == Cardinality(DOMAIN d)
<1>1. IsFiniteSet(DOMAIN d) /\ N \in Nat
  BY PodTypes, FS_CardinalityType
<1>2. /\ s \in [1 .. N -> DOMAIN d]
      /\ \A m, n \in 1 .. N : m # n => s[m] # s[n]
  BY DEF SetToSeqs
<1> HIDE DEF N
<1>3. s \in Seq(DOMAIN d) /\ Len(s) = N /\ DOMAIN s = 1 .. N
  BY <1>1, <1>2
<1>4. Increasing(d, s)
  BY <1>2, <1>3, LessOrder DEF Increasing
<1>5. Covers(d, s)
  <2>1. s \in Injection(1 .. N, DOMAIN d)
    BY <1>2 DEF Injection, IsInjective
  <2>2. Cardinality(1 .. N) = N
    BY <1>1, FS_Interval
  <2>3. s \in Surjection(1 .. N, DOMAIN d)
    BY <2>1, <2>2, <1>1, FS_Injection, Zenon DEF N
  <2> QED
    BY <2>3, <1>3 DEF Surjection, Covers
<1> QED
  BY <1>3, <1>4, <1>5 DEF N

\* A set of Pods has one sorted list (pods.go:82-90).
LEMMA OneOrder ==
    ASSUME NEW d \in PodMaps, NEW s, NEW t,
           Increasing(d, s), Covers(d, s), Increasing(d, t), Covers(d, t),
           Len(s) = Len(t)
    PROVE  s = t
<1>1. /\ s \in Seq(DOMAIN d) /\ t \in Seq(DOMAIN d)
      /\ Len(s) \in Nat
  BY DEF Increasing
<1> DEFINE Apart == {k \in 1 .. Len(s) : s[k] # t[k]}
<1>2. ASSUME Apart # {}
      PROVE  FALSE
  <2>1. PICK k \in Apart : \A n \in Apart : k <= n
    <3>1. Apart \subseteq Nat
      BY <1>1
    <3> QED
      BY <3>1, <1>2, LeastNat
  <2>2. k \in 1 .. Len(s) /\ s[k] # t[k] /\ s[k] \in DOMAIN d /\ t[k] \in DOMAIN d
    BY <1>1, <2>1
  <2>3. \A n \in 1 .. Len(s) : n < k => s[n] = t[n]
    BY <1>1, <2>1
  <2>4. Less(d, t[k], s[k])
    <3>1. PICK j \in 1 .. Len(t) : t[j] = s[k]
      BY <2>2 DEF Covers
    <3>2. ~(j < k)
      BY <3>1, <2>2, <2>3, <1>1, LessOrder DEF Increasing
    <3>3. k < j
      BY <3>1, <3>2, <2>2, <1>1
    <3> QED
      BY <3>1, <3>3, <2>2 DEF Increasing
  <2>5. Less(d, s[k], t[k])
    <3>1. PICK j \in 1 .. Len(s) : s[j] = t[k]
      BY <2>2 DEF Covers
    <3>2. ~(j < k)
      BY <3>1, <2>2, <2>3, <1>1, LessOrder DEF Increasing
    <3>3. k < j
      BY <3>1, <3>2, <2>2, <1>1
    <3> QED
      BY <3>1, <3>3, <2>2 DEF Increasing
  <2> QED
    BY <2>2, <2>4, <2>5, LessOrder
<1>3. \A k \in 1 .. Len(s) : s[k] = t[k]
  BY <1>2
<1> QED
  BY <1>1, <1>3

-----------------------------------------------------------------------------

\* The order of the list is the order that IsLowest describes: known ordinals
\* ascending, Pods without one last, then names (pods.go:207-217).
LEMMA LowestIsLeast ==
    ASSUME pod \in PodMaps, NEW S \in SUBSET DOMAIN pod, NEW p \in S,
           \A q \in S : q # p => Less(pod, p, q)
    PROVE  IsLowest(p, S)
<1>1. /\ DOMAIN pod \subseteq Int
      /\ \A q \in DOMAIN pod : pod[q].ordinal \in -1 .. MaxOrdinal /\ pod[q].ordinal \in Int
  BY PodTypes
<1> QED
  BY <1>1, SelectionAssumption DEF IsLowest, Less, OrdinalLess

\* The first Pod of the list comes before all others, which is why "first in
\* list" means the lowest ordinal (controller.go:388-390, 402-404).
LEMMA FirstIsLowest ==
    ASSUME pod \in PodMaps, NEW s, Increasing(pod, s), Covers(pod, s), s # <<>>
    PROVE  /\ 1 \in 1 .. Len(s) /\ s[1] \in DOMAIN pod
           /\ \A q \in DOMAIN pod : q # s[1] => Less(pod, s[1], q)
<1>1. s \in Seq(DOMAIN pod) /\ Len(s) \in Nat /\ Len(s) >= 1
  BY DEF Increasing
<1>2. ASSUME NEW q \in DOMAIN pod, q # s[1]
      PROVE  Less(pod, s[1], q)
  <2>1. PICK m \in 1 .. Len(s) : s[m] = q
    BY DEF Covers
  <2>2. 1 < m
    BY <2>1, <1>2, <1>1
  <2> QED
    BY <2>1, <2>2, <1>1 DEF Increasing
<1> QED
  BY <1>1, <1>2

-----------------------------------------------------------------------------

\* c lists the Pods before place k of l whose link is not down, in the order
\* of l.
LinkUpTo(d, l, c, k) ==
    /\ Increasing(d, c)
    /\ \A n \in 1 .. Len(c) :
         \E j \in 1 .. Len(l) : j < k /\ c[n] = l[j] /\ ~d[l[j]].linkDown
    /\ \A j \in 1 .. Len(l) : j < k /\ ~d[l[j]].linkDown =>
         \E n \in 1 .. Len(c) : c[n] = l[j]

\* The loop that task t runs prefers p to q.
Beats(d, t, p, q) ==
    IF t = "failover"
    THEN \/ d[p].offset > d[q].offset
         \/ d[p].offset = d[q].offset /\ Less(d, p, q)
    ELSE Less(d, p, q)

\* b is a candidate that the loop has passed, the first one to begin with, and
\* it beats the others that the loop has passed before place k.
Leads(d, t, c, b, k) ==
    /\ k \in 1 .. Len(c) + 1
    /\ \E m \in 1 .. Len(c) : c[m] = b /\ (m < k \/ m = 1)
    /\ \A j \in 1 .. Len(c) : j < k => c[j] = b \/ Beats(d, t, b, c[j])

\* One iteration of the loop that collects linkUp (controller.go:427-434).
LEMMA CollectOne ==
    ASSUME NEW d \in PodMaps, NEW l, NEW c, NEW k \in 1 .. Len(l),
           Increasing(d, l), LinkUpTo(d, l, c, k)
    PROVE  LinkUpTo(d, l, IF d[l[k]].linkDown THEN c ELSE Append(c, l[k]), k + 1)
<1>1. l \in Seq(DOMAIN d) /\ c \in Seq(DOMAIN d) /\ Len(l) \in Nat /\ Len(c) \in Nat
  BY DEF LinkUpTo, Increasing
<1>2. l[k] \in DOMAIN d /\ k \in Nat
  BY <1>1
<1>3. CASE d[l[k]].linkDown
  <2>1. LinkUpTo(d, l, c, k + 1)
    BY <1>1, <1>2, <1>3 DEF LinkUpTo
  <2> QED
    BY <2>1, <1>3
<1>4. CASE ~d[l[k]].linkDown
  <2> DEFINE e == Append(c, l[k])
  <2>1. /\ e \in Seq(DOMAIN d) /\ Len(e) = Len(c) + 1
        /\ \A n \in 1 .. Len(c) : e[n] = c[n]
        /\ e[Len(c) + 1] = l[k]
    BY <1>1, <1>2
  <2> HIDE DEF e
  <2>2. \A n \in 1 .. Len(c) : Less(d, c[n], l[k])
    BY <1>1, <1>2 DEF LinkUpTo, Increasing
  <2>3. Increasing(d, e)
    <3>1. ASSUME NEW m \in 1 .. Len(e), NEW n \in 1 .. Len(e), m < n
          PROVE  Less(d, e[m], e[n])
      <4>1. m \in 1 .. Len(c)
        BY <3>1, <2>1, <1>1
      <4>2. n \in 1 .. Len(c) \/ n = Len(c) + 1
        BY <2>1, <1>1
      <4> QED
        BY <3>1, <4>1, <4>2, <2>1, <2>2 DEF LinkUpTo, Increasing
    <3> QED
      BY <3>1, <2>1 DEF Increasing
  <2>4. ASSUME NEW n \in 1 .. Len(e)
        PROVE  \E j \in 1 .. Len(l) : j < k + 1 /\ e[n] = l[j] /\ ~d[l[j]].linkDown
    <3>1. CASE n \in 1 .. Len(c)
      <4>1. PICK j \in 1 .. Len(l) : j < k /\ c[n] = l[j] /\ ~d[l[j]].linkDown
        BY <3>1 DEF LinkUpTo
      <4> QED
        BY <4>1, <3>1, <2>1, <1>2
    <3>2. CASE n = Len(c) + 1
      BY <3>2, <2>1, <1>2, <1>4
    <3> QED
      BY <3>1, <3>2, <2>1, <1>1
  <2>5. ASSUME NEW j \in 1 .. Len(l), j < k + 1, ~d[l[j]].linkDown
        PROVE  \E n \in 1 .. Len(e) : e[n] = l[j]
    <3>1. CASE j < k
      <4>1. PICK n \in 1 .. Len(c) : c[n] = l[j]
        BY <3>1, <2>5 DEF LinkUpTo
      <4> QED
        BY <4>1, <2>1, <1>1
    <3>2. CASE j = k
      BY <3>2, <2>1, <1>1
    <3> QED
      BY <3>1, <3>2, <2>5, <1>2
  <2>6. LinkUpTo(d, l, e, k + 1)
    BY <2>3, <2>4, <2>5 DEF LinkUpTo
  <2> QED
    BY <2>6, <1>4 DEF e
<1> QED
  BY <1>3, <1>4, <1>2, PodTypes

\* One iteration of either loop over the candidates: the one it holds after it
\* beats the ones it has passed (controller.go:394-399, 440-448).
LEMMA ScanOne ==
    ASSUME pod \in PodMaps, NEW c, NEW b, NEW k \in 1 .. Len(c),
           Increasing(pod, c), Leads(pod, task, c, b, k)
    PROVE  Leads(pod, task, c, IF Better(c[k], b) THEN c[k] ELSE b, k + 1)
<1>1. c \in Seq(DOMAIN pod) /\ Len(c) \in Nat /\ k \in Nat /\ c[k] \in DOMAIN pod
  BY DEF Increasing
<1>2. PICK m \in 1 .. Len(c) : c[m] = b /\ (m < k \/ m = 1)
  BY DEF Leads
<1>3. b \in DOMAIN pod
  BY <1>1, <1>2
<1>4. /\ DOMAIN pod \subseteq Int
      /\ \A p \in DOMAIN pod : /\ pod[p].ordinal \in -1 .. MaxOrdinal
                               /\ pod[p].ordinal \in Int
                               /\ pod[p].offset \in Int
  BY PodTypes
<1>5. CASE Better(c[k], b)
  <2>1. Beats(pod, task, c[k], b)
    BY <1>1, <1>3, <1>4, <1>5 DEF Beats, Better, FailoverBetter, LowestBetter, Less, OrdinalLess
  <2>2. \A q \in DOMAIN pod : Beats(pod, task, b, q) => Beats(pod, task, c[k], q)
    <3>1. \A q \in DOMAIN pod : Less(pod, c[k], b) /\ Less(pod, b, q) => Less(pod, c[k], q)
      BY <1>1, <1>3, LessOrder
    <3> QED
      BY <2>1, <3>1, <1>1, <1>3, <1>4 DEF Beats
  <2>3. ASSUME NEW j \in 1 .. Len(c), j < k + 1
        PROVE  c[j] = c[k] \/ Beats(pod, task, c[k], c[j])
    <3>1. CASE j < k
      <4>1. c[j] = b \/ Beats(pod, task, b, c[j])
        BY <3>1 DEF Leads
      <4> QED
        BY <4>1, <2>1, <2>2, <1>1
    <3> QED
      BY <3>1, <2>3, <1>1
  <2>4. Leads(pod, task, c, c[k], k + 1)
    BY <2>3, <1>1 DEF Leads
  <2> QED
    BY <2>4, <1>5
<1>6. CASE ~Better(c[k], b)
  <2>1. c[k] = b \/ Beats(pod, task, b, c[k])
    <3>1. m = k \/ m < k
      BY <1>1, <1>2
    <3>2. CASE m < k
      <4>1. Less(pod, b, c[k])
        BY <1>1, <1>2, <3>2 DEF Increasing
      <4>2. ASSUME task = "failover"
            PROVE  pod[b].offset >= pod[c[k]].offset
        BY <4>2, <1>1, <1>3, <1>4, <1>6 DEF Better, FailoverBetter
      <4> QED
        BY <4>1, <4>2, <1>1, <1>3, <1>4 DEF Beats
    <3> QED
      BY <3>1, <3>2, <1>2
  <2>2. ASSUME NEW j \in 1 .. Len(c), j < k + 1
        PROVE  c[j] = b \/ Beats(pod, task, b, c[j])
    <3>1. CASE j < k
      BY <3>1 DEF Leads
    <3> QED
      BY <3>1, <2>1, <2>2, <1>1
  <2>3. Leads(pod, task, c, b, k + 1)
    <3>1. k + 1 \in 1 .. Len(c) + 1
      BY <1>1
    <3>2. m < k + 1 \/ m = 1
      BY <1>1, <1>2
    <3> QED
      BY <2>2, <3>1, <3>2, <1>2 DEF Leads
  <2> QED
    BY <2>3, <1>6
<1> QED
  BY <1>5, <1>6

-----------------------------------------------------------------------------

\* The candidates of the loop that task t runs over the Pods of d.
LinkUp(d) == {p \in DOMAIN d : ~d[p].linkDown}
Reached(d, t) == IF t = "failover" /\ LinkUp(d) # {} THEN LinkUp(d) ELSE DOMAIN d

ListInv ==
    IF pc = "list" THEN cands = <<>> /\ idx = 1
    ELSE /\ list \in SetToSeqs(Pods)
         /\ Increasing(pod, list)
         /\ Covers(pod, list)
         /\ Len(list) = Cardinality(Pods)

SelectInv ==
    pc = "select" =>
      /\ idx \in 1 .. Len(list) + 1
      /\ task = "failover" => LinkUpTo(pod, list, cands, idx)
      /\ task = "lowest-pod-ordinal" => idx = 1
      /\ task = "annotation-preferred" =>
           \A j \in 1 .. Len(list) : j < idx => ~pod[list[j]].preferred

ScanInv ==
    pc = "scan" =>
      /\ task \in {"failover", "lowest-pod-ordinal"}
      /\ Increasing(pod, cands)
      /\ \A n \in 1 .. Len(cands) : cands[n] \in Reached(pod, task)
      /\ \A p \in Reached(pod, task) : \E n \in 1 .. Len(cands) : cands[n] = p
      /\ Leads(pod, task, cands, best, idx)

\* The inductive invariant: what the list is, what has been collected, what the
\* loop holds, and what is returned.
SelectionInv ==
    /\ pod \in PodMaps
    /\ task \in Strategies \cup {"failover"}
    /\ pc \in {"list", "select", "scan", "done"}
    /\ ListInv
    /\ SelectInv
    /\ ScanInv
    /\ FailoverPicksBest
    /\ BootstrapPicksLowest

\* The Pod that the loop holds at its end is the failover candidate or the
\* lowest ordinal (controller.go:400, 449).
LEMMA LoopResult ==
    ASSUME pod \in PodMaps, ScanInv, pc = "scan", idx > Len(cands)
    PROVE  /\ best \in Reached(pod, task)
           /\ \A q \in Reached(pod, task) : q # best => Beats(pod, task, best, q)
<1>1. /\ Increasing(pod, cands)
      /\ \A n \in 1 .. Len(cands) : cands[n] \in Reached(pod, task)
      /\ \A p \in Reached(pod, task) : \E n \in 1 .. Len(cands) : cands[n] = p
      /\ Leads(pod, task, cands, best, idx)
  BY DEF ScanInv
<1>2. Len(cands) \in Nat
  BY <1>1 DEF Increasing
<1>3. \A j \in 1 .. Len(cands) : cands[j] = best \/ Beats(pod, task, best, cands[j])
  BY <1>1, <1>2 DEF Leads
<1>4. \E m \in 1 .. Len(cands) : cands[m] = best
  BY <1>1 DEF Leads
<1> QED
  BY <1>1, <1>3, <1>4

\* A new list sorted: nothing is collected yet (pods.go:71-92).
LEMMA ListStep == SelectionInv /\ ListRedisPods => SelectionInv'
<1> SUFFICES ASSUME SelectionInv, ListRedisPods PROVE SelectionInv'
  OBVIOUS
<1>1. /\ pod' = pod /\ task' = task /\ cands' = <<>> /\ idx' = 1
      /\ pc = "list" /\ pc' = "select"
      /\ list' \in SetToSeqs(Pods)
      /\ \A m, n \in DOMAIN list' : m < n => ~Less(pod, list'[n], list'[m])
  BY DEF SelectionInv, ListInv, ListRedisPods, Sorted, ListLess, Less
<1>2. pod \in PodMaps /\ task \in Strategies \cup {"failover"}
  BY DEF SelectionInv
<1>3. /\ Increasing(pod, list')
      /\ Covers(pod, list')
      /\ Len(list') = Cardinality(Pods)
  BY <1>1, <1>2, SortedList DEF Pods
<1>4. Len(list') \in Nat
  BY <1>3 DEF Increasing
<1>5. LinkUpTo(pod, list', <<>>, 1)
  <2>1. Increasing(pod, <<>>)
    BY DEF Increasing
  <2> QED
    BY <2>1, <1>4 DEF LinkUpTo
<1>6. ListInv'
  BY <1>1, <1>3 DEF ListInv, Pods
<1>7. SelectInv'
  BY <1>1, <1>4, <1>5 DEF SelectInv
<1> QED
  BY <1>1, <1>2, <1>6, <1>7
  DEF SelectionInv, ScanInv, FailoverPicksBest, BootstrapPicksLowest

\* One iteration of the loop over the links (controller.go:427-434).
LEMMA CollectStep == SelectionInv /\ CollectLinkUp => SelectionInv'
<1> SUFFICES ASSUME SelectionInv, CollectLinkUp PROVE SelectionInv'
  OBVIOUS
<1>1. /\ pod' = pod /\ task' = task /\ list' = list /\ best' = best
      /\ pc = "select" /\ pc' = "select" /\ task = "failover"
      /\ idx <= Len(list) /\ idx' = idx + 1
      /\ cands' = IF pod[list[idx]].linkDown THEN cands ELSE Append(cands, list[idx])
  BY DEF CollectLinkUp
<1>2. /\ pod \in PodMaps /\ task \in Strategies \cup {"failover"}
      /\ Increasing(pod, list)
      /\ idx \in 1 .. Len(list) + 1
      /\ LinkUpTo(pod, list, cands, idx)
  BY <1>1 DEF SelectionInv, ListInv, SelectInv
<1>3. idx \in 1 .. Len(list) /\ idx' \in 1 .. Len(list) + 1
  BY <1>1, <1>2 DEF Increasing
<1>4. LinkUpTo(pod, list, cands', idx')
  BY <1>1, <1>2, <1>3, CollectOne
<1>5. ListInv'
  BY <1>1 DEF SelectionInv, ListInv, Pods
<1>6. SelectInv'
  BY <1>1, <1>3, <1>4 DEF SelectInv
<1> QED
  BY <1>1, <1>2, <1>5, <1>6
  DEF SelectionInv, ScanInv, FailoverPicksBest, BootstrapPicksLowest

\* The loop starts over the reached replicas (controller.go:426, 435-439).
LEMMA StartFailoverStep == SelectionInv /\ StartFailover => SelectionInv'
<1> SUFFICES ASSUME SelectionInv, StartFailover PROVE SelectionInv'
  OBVIOUS
<1>1. /\ pod' = pod /\ task' = task /\ list' = list
      /\ pc = "select" /\ pc' = "scan" /\ task = "failover" /\ list # <<>>
      /\ idx > Len(list) /\ idx' = 1
      /\ cands' = IF cands # <<>> THEN cands ELSE list
      /\ best' = cands'[1]
  BY DEF StartFailover
<1>2. /\ pod \in PodMaps /\ task \in Strategies \cup {"failover"}
      /\ Increasing(pod, list) /\ Covers(pod, list)
      /\ idx \in 1 .. Len(list) + 1
      /\ LinkUpTo(pod, list, cands, idx)
  BY <1>1 DEF SelectionInv, ListInv, SelectInv
<1>3. /\ list \in Seq(DOMAIN pod) /\ Len(list) \in Nat
      /\ cands \in Seq(DOMAIN pod) /\ Len(cands) \in Nat
  BY <1>2 DEF Increasing, LinkUpTo
<1>4. /\ \A n \in 1 .. Len(cands) : cands[n] \in LinkUp(pod)
      /\ \A p \in LinkUp(pod) : \E n \in 1 .. Len(cands) : cands[n] = p
  <2>1. \A j \in 1 .. Len(list) : j < idx
    BY <1>1, <1>2, <1>3
  <2>2. ASSUME NEW p \in LinkUp(pod)
        PROVE  \E n \in 1 .. Len(cands) : cands[n] = p
    <3>1. PICK j \in 1 .. Len(list) : list[j] = p
      BY <1>2 DEF Covers, LinkUp
    <3> QED
      BY <3>1, <2>1, <1>2 DEF LinkUp, LinkUpTo
  <2>3. \A n \in 1 .. Len(cands) : cands[n] \in LinkUp(pod)
    BY <1>2, <1>3 DEF LinkUp, LinkUpTo
  <2> QED
    BY <2>2, <2>3
<1>5. /\ Increasing(pod, cands') /\ cands' # <<>>
      /\ \A n \in 1 .. Len(cands') : cands'[n] \in Reached(pod, task)
      /\ \A p \in Reached(pod, task) : \E n \in 1 .. Len(cands') : cands'[n] = p
  <2>1. CASE cands # <<>>
    <3>1. 1 \in 1 .. Len(cands)
      BY <2>1, <1>3
    <3>2. Reached(pod, task) = LinkUp(pod)
      BY <3>1, <1>1, <1>4 DEF Reached
    <3> QED
      BY <2>1, <3>2, <1>1, <1>2, <1>4 DEF LinkUpTo
  <2>2. CASE cands = <<>>
    <3>1. LinkUp(pod) = {}
      BY <2>2, <1>3, <1>4
    <3>2. Reached(pod, task) = DOMAIN pod /\ cands' = list
      BY <3>1, <2>2, <1>1 DEF Reached
    <3>3. \A n \in 1 .. Len(list) : list[n] \in DOMAIN pod
      BY <1>3
    <3>4. \A p \in DOMAIN pod : \E n \in 1 .. Len(list) : list[n] = p
      BY <1>2 DEF Covers
    <3> QED
      BY <3>2, <3>3, <3>4, <1>1, <1>2
  <2> QED
    BY <2>1, <2>2
<1>6. Leads(pod, task, cands', best', 1)
  <2>1. cands' \in Seq(DOMAIN pod) /\ Len(cands') \in Nat /\ Len(cands') >= 1
    BY <1>5, <1>1, <1>3
  <2> QED
    BY <2>1, <1>1 DEF Leads
<1>7. ListInv'
  BY <1>1 DEF SelectionInv, ListInv, Pods
<1>8. ScanInv'
  BY <1>1, <1>5, <1>6 DEF ScanInv
<1> QED
  BY <1>1, <1>2, <1>7, <1>8
  DEF SelectionInv, SelectInv, FailoverPicksBest, BootstrapPicksLowest

\* The loop starts over all candidates (controller.go:393).
LEMMA StartLowestStep == SelectionInv /\ StartLowest => SelectionInv'
<1> SUFFICES ASSUME SelectionInv, StartLowest PROVE SelectionInv'
  OBVIOUS
<1>1. /\ pod' = pod /\ task' = task /\ list' = list /\ idx' = idx
      /\ pc = "select" /\ pc' = "scan" /\ task = "lowest-pod-ordinal" /\ list # <<>>
      /\ cands' = list /\ best' = list[1]
  BY DEF StartLowest
<1>2. /\ pod \in PodMaps /\ task \in Strategies \cup {"failover"}
      /\ Increasing(pod, list) /\ Covers(pod, list)
      /\ idx = 1
  BY <1>1 DEF SelectionInv, ListInv, SelectInv
<1>3. list \in Seq(DOMAIN pod) /\ Len(list) \in Nat /\ Len(list) >= 1
  BY <1>1, <1>2 DEF Increasing
<1>4. /\ \A n \in 1 .. Len(list) : list[n] \in Reached(pod, task)
      /\ \A p \in Reached(pod, task) : \E n \in 1 .. Len(list) : list[n] = p
  <2>1. Reached(pod, task) = DOMAIN pod
    BY <1>1 DEF Reached
  <2>2. \A n \in 1 .. Len(list) : list[n] \in DOMAIN pod
    BY <1>3
  <2> QED
    BY <2>1, <2>2, <1>2 DEF Covers
<1>5. Leads(pod, task, list, list[1], 1)
  BY <1>3 DEF Leads
<1>6. ListInv'
  BY <1>1 DEF SelectionInv, ListInv, Pods
<1>7. ScanInv'
  BY <1>1, <1>2, <1>4, <1>5 DEF ScanInv
<1> QED
  BY <1>1, <1>2, <1>6, <1>7
  DEF SelectionInv, SelectInv, FailoverPicksBest, BootstrapPicksLowest

\* One iteration of either loop (controller.go:394-399, 440-448).
LEMMA ScanStep == SelectionInv /\ Scan => SelectionInv'
<1> SUFFICES ASSUME SelectionInv, Scan PROVE SelectionInv'
  OBVIOUS
<1>1. /\ pod' = pod /\ task' = task /\ list' = list /\ cands' = cands
      /\ pc = "scan" /\ pc' = "scan"
      /\ idx <= Len(cands) /\ idx' = idx + 1
      /\ best' = IF Better(cands[idx], best) THEN cands[idx] ELSE best
  BY DEF Scan
<1>2. /\ pod \in PodMaps /\ task \in Strategies \cup {"failover"}
      /\ Increasing(pod, cands)
      /\ Leads(pod, task, cands, best, idx)
  BY <1>1 DEF SelectionInv, ScanInv
<1>3. idx \in 1 .. Len(cands)
  BY <1>1, <1>2 DEF Leads, Increasing
<1>4. Leads(pod, task, cands, best', idx')
  BY <1>1, <1>2, <1>3, ScanOne
<1>5. ListInv'
  BY <1>1 DEF SelectionInv, ListInv, Pods
<1>6. ScanInv'
  BY <1>1, <1>4 DEF SelectionInv, ScanInv
<1> QED
  BY <1>1, <1>2, <1>5, <1>6
  DEF SelectionInv, SelectInv, FailoverPicksBest, BootstrapPicksLowest

\* What a loop returns is what its selection is meant to pick
\* (controller.go:400, 449).
LEMMA ReturnBestStep == SelectionInv /\ ReturnBest => SelectionInv'
<1> SUFFICES ASSUME SelectionInv, ReturnBest PROVE SelectionInv'
  OBVIOUS
<1>1. /\ pod' = pod /\ task' = task /\ list' = list /\ cands' = cands /\ best' = best
      /\ pc = "scan" /\ pc' = "done" /\ idx > Len(cands)
  BY DEF ReturnBest
<1>2. /\ pod \in PodMaps /\ task \in Strategies \cup {"failover"}
      /\ ScanInv /\ task \in {"failover", "lowest-pod-ordinal"}
  BY <1>1 DEF SelectionInv, ScanInv
<1>3. /\ best \in Reached(pod, task)
      /\ \A q \in Reached(pod, task) : q # best => Beats(pod, task, best, q)
  BY <1>1, <1>2, LoopResult
<1>4. \A q \in DOMAIN pod : pod[q].offset \in Int
  BY <1>2, PodTypes
<1>5. Reached(pod, task) \subseteq DOMAIN pod
  BY DEF Reached, LinkUp
<1>6. ASSUME task = "failover"
      PROVE  LET top == {p \in Reached(pod, task) :
                           \A q \in Reached(pod, task) : pod[p].offset >= pod[q].offset}
             IN  IsLowest(best, top)
  <2> DEFINE top == {p \in Reached(pod, task) :
                       \A q \in Reached(pod, task) : pod[p].offset >= pod[q].offset}
  <2>1. best \in top
    BY <1>3, <1>4, <1>5, <1>6 DEF Beats
  <2>2. \A q \in top : q # best => Less(pod, best, q)
    BY <1>3, <1>4, <1>5, <1>6, <2>1 DEF Beats
  <2>3. top \in SUBSET DOMAIN pod
    BY <1>5
  <2> HIDE DEF top
  <2>4. IsLowest(best, top)
    BY <1>2, <2>1, <2>2, <2>3, LowestIsLeast
  <2> QED
    BY <2>4 DEF top
<1>7. ASSUME task = "lowest-pod-ordinal"
      PROVE  IsLowest(best, DOMAIN pod)
  <2>1. best \in DOMAIN pod /\ \A q \in DOMAIN pod : q # best => Less(pod, best, q)
    BY <1>3, <1>7 DEF Reached, Beats
  <2> QED
    BY <1>2, <2>1, LowestIsLeast
<1>8. FailoverPicksBest'
  BY <1>1, <1>6 DEF FailoverPicksBest, Pods, IsLowest, Reached, LinkUp
<1>9. BootstrapPicksLowest'
  BY <1>1, <1>2, <1>7 DEF BootstrapPicksLowest, Pods, IsLowest, Strategies
<1>10. ListInv'
  BY <1>1 DEF SelectionInv, ListInv, Pods
<1> QED
  BY <1>1, <1>2, <1>8, <1>9, <1>10 DEF SelectionInv, SelectInv, ScanInv

\* Nothing to select from: nothing is promised (controller.go:376-378, 422-424).
LEMMA NoneStep == SelectionInv /\ SelectNone => SelectionInv'
<1> SUFFICES ASSUME SelectionInv, SelectNone PROVE SelectionInv'
  OBVIOUS
<1>1. /\ pod' = pod /\ task' = task /\ list' = list /\ cands' = cands /\ best' = best
      /\ pc = "select" /\ pc' = "done" /\ list = <<>>
  BY DEF SelectNone
<1>2. /\ pod \in PodMaps /\ task \in Strategies \cup {"failover"}
      /\ Covers(pod, list)
  BY <1>1 DEF SelectionInv, ListInv
<1>3. Pods' = {}
  <2>1. 1 .. Len(list) = {}
    BY <1>1
  <2> QED
    BY <2>1, <1>1, <1>2 DEF Covers, Pods
<1>4. ListInv'
  BY <1>1 DEF SelectionInv, ListInv, Pods
<1> QED
  BY <1>1, <1>2, <1>3, <1>4
  DEF SelectionInv, SelectInv, ScanInv, FailoverPicksBest, BootstrapPicksLowest

\* The first annotated Pod of the list is the lowest of the annotated ones
\* (controller.go:381-387).
LEMMA PreferStep == SelectionInv /\ Prefer => SelectionInv'
<1> SUFFICES ASSUME SelectionInv, Prefer PROVE SelectionInv'
  OBVIOUS
<1>1. /\ pod' = pod /\ task' = task /\ list' = list /\ cands' = cands
      /\ pc = "select" /\ task = "annotation-preferred" /\ idx <= Len(list)
  BY DEF Prefer
<1>2. /\ pod \in PodMaps /\ task \in Strategies \cup {"failover"}
      /\ Increasing(pod, list) /\ Covers(pod, list)
      /\ idx \in 1 .. Len(list) + 1
      /\ \A j \in 1 .. Len(list) : j < idx => ~pod[list[j]].preferred
  BY <1>1 DEF SelectionInv, ListInv, SelectInv
<1>3. /\ list \in Seq(DOMAIN pod) /\ Len(list) \in Nat
      /\ idx \in 1 .. Len(list) /\ list[idx] \in DOMAIN pod
  BY <1>1, <1>2 DEF Increasing
<1>4. CASE pod[list[idx]].preferred
  <2> DEFINE preferred == {p \in DOMAIN pod : pod[p].preferred}
  <2>1. pc' = "done" /\ best' = list[idx]
    BY <1>4 DEF Prefer
  <2>2. ASSUME NEW q \in preferred, q # list[idx]
        PROVE  Less(pod, list[idx], q)
    <3>1. PICK j \in 1 .. Len(list) : list[j] = q
      BY <1>2 DEF Covers
    <3>2. idx < j
      BY <3>1, <2>2, <1>2, <1>3
    <3> QED
      BY <3>1, <3>2, <1>2, <1>3 DEF Increasing
  <2>3. list[idx] \in preferred /\ preferred \in SUBSET DOMAIN pod
    BY <1>3, <1>4
  <2> HIDE DEF preferred
  <2>4. IsLowest(list[idx], preferred)
    BY <2>2, <2>3, <1>2, LowestIsLeast
  <2>5. BootstrapPicksLowest'
    BY <1>1, <2>1, <2>3, <2>4 DEF BootstrapPicksLowest, Pods, IsLowest, preferred
  <2>6. ListInv'
    BY <1>1, <2>1 DEF SelectionInv, ListInv, Pods
  <2> QED
    BY <1>1, <1>2, <2>1, <2>5, <2>6
    DEF SelectionInv, SelectInv, ScanInv, FailoverPicksBest
<1>5. CASE ~pod[list[idx]].preferred
  <2>1. pc' = "select" /\ idx' = idx + 1
    BY <1>1, <1>5 DEF Prefer
  <2>2. /\ idx' \in 1 .. Len(list) + 1
        /\ \A j \in 1 .. Len(list) : j < idx' => ~pod[list[j]].preferred
    BY <2>1, <1>2, <1>3, <1>5
  <2>3. ListInv'
    BY <1>1, <2>1 DEF SelectionInv, ListInv, Pods
  <2>4. SelectInv'
    BY <1>1, <2>2 DEF SelectInv
  <2> QED
    BY <1>1, <1>2, <2>1, <2>3, <2>4
    DEF SelectionInv, ScanInv, FailoverPicksBest, BootstrapPicksLowest
<1> QED
  BY <1>4, <1>5

\* The first of the list, when no Pod is annotated or none has to be
\* (controller.go:388-390, 402-404).
LEMMA ReturnFirstStep == SelectionInv /\ ReturnFirst => SelectionInv'
<1> SUFFICES ASSUME SelectionInv, ReturnFirst PROVE SelectionInv'
  OBVIOUS
<1>1. /\ pod' = pod /\ task' = task /\ list' = list /\ cands' = cands
      /\ pc = "select" /\ pc' = "done" /\ best' = list[1] /\ list # <<>>
      /\ \/ task = "first-healthy"
         \/ task = "annotation-preferred" /\ idx > Len(list)
  BY DEF ReturnFirst
<1>2. /\ pod \in PodMaps /\ task \in Strategies \cup {"failover"}
      /\ Increasing(pod, list) /\ Covers(pod, list)
      /\ idx \in 1 .. Len(list) + 1
      /\ task = "annotation-preferred" =>
           \A j \in 1 .. Len(list) : j < idx => ~pod[list[j]].preferred
  BY <1>1 DEF SelectionInv, ListInv, SelectInv
<1>3. IsLowest(list[1], DOMAIN pod)
  BY <1>1, <1>2, FirstIsLowest, LowestIsLeast
<1>4. ASSUME task = "annotation-preferred"
      PROVE  {p \in DOMAIN pod : pod[p].preferred} = {}
  <2>1. \A j \in 1 .. Len(list) : ~pod[list[j]].preferred
    BY <1>1, <1>2, <1>4 DEF Increasing
  <2> QED
    BY <2>1, <1>2 DEF Covers
<1>5. BootstrapPicksLowest'
  BY <1>1, <1>3, <1>4 DEF BootstrapPicksLowest, Pods, IsLowest
<1>6. ListInv'
  BY <1>1 DEF SelectionInv, ListInv, Pods
<1> QED
  BY <1>1, <1>2, <1>5, <1>6
  DEF SelectionInv, SelectInv, ScanInv, FailoverPicksBest

-----------------------------------------------------------------------------

\* Every step of a selection keeps the invariant (controller.go:371-450,
\* pods.go:67-92).
THEOREM SelectionCorrect == Spec => []SelectionInv
<1>1. Init => SelectionInv
  BY DEF Init, SelectionInv, PodMaps, ListInv, SelectInv, ScanInv,
         FailoverPicksBest, BootstrapPicksLowest
<1>2. SelectionInv /\ [Next]_vars => SelectionInv'
  <2> SUFFICES ASSUME SelectionInv, [Next]_vars PROVE SelectionInv'
    OBVIOUS
  <2>1. CASE UNCHANGED vars
    <3>1. /\ pod' = pod /\ task' = task /\ pc' = pc /\ list' = list
          /\ cands' = cands /\ idx' = idx /\ best' = best
      BY <2>1 DEF vars
    <3>2. ListInv' /\ SelectInv' /\ ScanInv'
      BY <3>1 DEF SelectionInv, ListInv, SelectInv, ScanInv, Pods
    <3>3. FailoverPicksBest'
      BY <3>1 DEF SelectionInv, FailoverPicksBest, IsLowest, Pods
    <3>4. BootstrapPicksLowest'
      BY <3>1 DEF SelectionInv, BootstrapPicksLowest, IsLowest, Pods
    <3> QED
      BY <3>1, <3>2, <3>3, <3>4 DEF SelectionInv
  <2> QED
    BY <2>1, ListStep, CollectStep, StartFailoverStep, StartLowestStep, ScanStep,
       ReturnBestStep, NoneStep, PreferStep, ReturnFirstStep DEF Next
<1> QED
  BY <1>1, <1>2, PTL DEF Spec

\* For any Pods, a failover promotes the replica with the highest offset, the
\* lowest ordinal among equals, of those whose link is not down, or of all when
\* every link is down (controller.go:417-450).
THEOREM FailoverAlwaysBest == Spec => []FailoverPicksBest
<1>1. SelectionInv => FailoverPicksBest
  BY DEF SelectionInv
<1> QED
  BY <1>1, SelectionCorrect, PTL

\* For any Pods, every bootstrap strategy picks the lowest ordinal, among the
\* annotated Pods where that is what it looks for (controller.go:371-405).
THEOREM BootstrapAlwaysLowest == Spec => []BootstrapPicksLowest
<1>1. SelectionInv => BootstrapPicksLowest
  BY DEF SelectionInv
<1> QED
  BY <1>1, SelectionCorrect, PTL

\* For any Pods, there is one list that the sort can return, whatever order the
\* API server chose (pods.go:67-92).
THEOREM OneSortedList == Spec => []ListOrderIrrelevant
<1>1. SelectionInv => ListOrderIrrelevant
  <2> SUFFICES ASSUME SelectionInv, pc # "list", NEW s \in SetToSeqs(Pods), Sorted(s)
               PROVE  s = list
    BY DEF ListOrderIrrelevant
  <2>1. /\ pod \in PodMaps
        /\ Increasing(pod, list) /\ Covers(pod, list) /\ Len(list) = Cardinality(DOMAIN pod)
    BY DEF SelectionInv, ListInv, Pods
  <2>2. \A m, n \in DOMAIN s : m < n => ~Less(pod, s[n], s[m])
    BY DEF Sorted, ListLess, Less
  <2>3. Increasing(pod, s) /\ Covers(pod, s) /\ Len(s) = Cardinality(DOMAIN pod)
    BY <2>1, <2>2, SortedList DEF Pods
  <2> QED
    BY <2>1, <2>3, OneOrder
<1> QED
  BY <1>1, SelectionCorrect, PTL
=============================================================================
