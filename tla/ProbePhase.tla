----------------------------- MODULE ProbePhase -----------------------------
(***************************************************************************)
(* What controller.probe promises its caller: every Pod that is probed has *)
(* one outcome, reached in any order, and the call returns when no outcome *)
(* is outstanding. SetReconciler takes its probes in this form (ProbePod,  *)
(* Probed); ProbePool shows that the semaphore and the wait group of the   *)
(* code implement it.                                                      *)
(***************************************************************************)

CONSTANT Pods

VARIABLES
    seen,       \* outcome of each Pod's probe
    returned    \* the call has returned

vars == <<seen, returned>>

Outcomes == {"reached", "unreached"}

Init ==
    /\ seen \in [Pods -> {"skipped", "pending"}]
    /\ returned = FALSE

\* The probe of p has its outcome.
ProbePod(p) ==
    /\ seen[p] = "pending"
    /\ ~returned
    /\ \E o \in Outcomes : seen' = [seen EXCEPT ![p] = o]
    /\ UNCHANGED returned

\* The call returns with every outcome in hand.
Return ==
    /\ \A p \in Pods : seen[p] # "pending"
    /\ returned' = TRUE
    /\ UNCHANGED seen

Next == Return \/ \E p \in Pods : ProbePod(p)

Spec == Init /\ [][Next]_vars

\* Moreover the call does return.
FairSpec == Spec /\ WF_vars(Next)
=============================================================================
