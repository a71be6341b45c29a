-------------------------- MODULE MCSetReconciler --------------------------
(***************************************************************************)
(* The fault model of the runs of SetReconciler that leave no fault out.    *)
(***************************************************************************)
EXTENDS SetReconciler

AllFaults == FaultKinds
============================================================================
