------------------------ MODULE MCInstanceReconciler ------------------------
(***************************************************************************)
(* InstanceReconciler for TLC.  MaxUserSteps bounds how often users, the   *)
(* other controller and GitHub act; everything else is unbounded.  Every   *)
(* behavior of MCSpec is a behavior of Spec.                               *)
(***************************************************************************)
EXTENDS InstanceReconciler, TLC

CONSTANT MaxUserSteps

VARIABLE userSteps

mcvars == <<vars, userSteps>>

MCInit == Init /\ userSteps = 0

MCUserStep == userSteps < MaxUserSteps /\ UserStep /\ userSteps' = userSteps + 1

MCSystemStep ==
  /\ \/ \E i \in Instances : Reconcile(i)
     \/ WorkerStep \/ ClusterStep \/ Crash
  /\ UNCHANGED userSteps

MCNext == MCUserStep \/ MCSystemStep

MCSpec == MCInit /\ [][MCNext]_mcvars

MCFairSpec == MCSpec /\ ControllerFairness /\ JobFairness

CommitSymmetry == Permutations(Commits)
=============================================================================
