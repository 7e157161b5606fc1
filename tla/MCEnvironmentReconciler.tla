----------------------- MODULE MCEnvironmentReconciler -----------------------
(***************************************************************************)
(* EnvironmentReconciler for TLC: two repositories, the refs of which are  *)
(* listed in a fixed order, and a bound on the steps of users.             *)
(***************************************************************************)
EXTENDS EnvironmentReconciler, Sequences

CONSTANT MaxUserSteps

VARIABLE userSteps

mcvars == <<vars, userSteps>>

\* "feature/a" is a branch the API server refuses as a label value.
RefOrder == <<"pr1", "pr2", "other", "feature/a", "main">>

MCRepoOf == [r \in Refs |-> IF r = "other" THEN "env2" ELSE "env1"]

MCPosition == [r \in Refs |-> CHOOSE i \in 1..Len(RefOrder) : RefOrder[i] = r]

MCInit == Init /\ userSteps = 0

MCUserStep == userSteps < MaxUserSteps /\ UserStep /\ userSteps' = userSteps + 1

MCSystemStep ==
  /\ \/ \E e \in Environments : Reconcile(e)
     \/ WorkerStep \/ InstanceStep \/ SyncStep \/ Crash
  /\ UNCHANGED userSteps

MCNext == MCUserStep \/ MCSystemStep

MCSpec == MCInit /\ [][MCNext]_mcvars

MCFairSpec == MCSpec /\ Fairness
=============================================================================
