--------------------------- MODULE MCPreviewOperator ---------------------------
(***************************************************************************)
(* PreviewOperator for TLC: one environment and its refs in a fixed order. *)
(* MaxUserSteps bounds the steps of users, of GitHub, and the resyncs of   *)
(* the environment, which are hours apart; MCCrash restricts restarts.     *)
(***************************************************************************)
EXTENDS PreviewOperator

CONSTANT MaxUserSteps

VARIABLE userSteps

mcvars == <<vars, userSteps>>

RefOrder == <<"pr1", "main">>

MCRepoOf == [r \in Refs |-> "env1"]

MCPosition == [r \in Refs |-> CHOOSE i \in 1..Len(RefOrder) : RefOrder[i] = r]

\* All pull requests are open when the first environment is created.
MCInit == Init /\ open = Refs /\ userSteps = 0

MCUserStep ==
  /\ userSteps < MaxUserSteps /\ userSteps' = userSteps + 1
  /\ UserStep \/ \E e \in Environments : EnvironmentResync(e)

\* A restart in the middle of the environment controller's loops, with the instance
\* controller at work; those that interrupt one of them are in the runs of its module.
MCCrash == pePc \in {"save", "deleteInstances"} /\ peiPc # "idle" /\ Crash

MCNext ==
  \/ MCUserStep
  \/ (SystemStep \/ MCCrash) /\ UNCHANGED userSteps

MCSpec == MCInit /\ [][MCNext]_mcvars

MCFairSpec == MCSpec /\ Fairness
=============================================================================
