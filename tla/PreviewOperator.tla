---------------------------- MODULE PreviewOperator ----------------------------
(***************************************************************************)
(* The operator as cmd/main.go wires it: the controllers of                *)
(* EnvironmentReconciler and InstanceReconciler in one process, over one   *)
(* API server, with one informer cache of instances that both read.        *)
(*                                                                         *)
(* Each action is a step of one controller, taken from its module, with    *)
(* what the step means to the other: a write to an instance by one is an   *)
(* outside write to the other, a watch event reaches both, a restart ends  *)
(* both.  What one module assumes of the other, namely which writes it     *)
(* makes and when, is not assumed here: it is checked, and proved in       *)
(* PreviewOperator_proofs, that every behavior is one of each module.      *)
(*                                                                         *)
(* Beside the variables of the two modules there is the label of an        *)
(* instance: the uid of the environment that created it, by which the      *)
(* instance controller finds the environment in its cache.                 *)
(***************************************************************************)
EXTENDS Naturals, Sequences, FiniteSets

CONSTANTS
  Environments, Refs, PullRequests, RepoOf, Position, PageSize, AllBranches,
  Refused, NoKey, Commits, NoCommit, KeepBuilt, MaxApiErrors, MaxCrashes

ASSUME InstancesAssumption ==
  /\ PullRequests \subseteq Refs /\ NoCommit \notin Commits /\ NoKey \notin Refs
  /\ KeepBuilt \in Nat \ {0}
ASSUME EnvironmentsAssumption ==
  /\ Refused \subseteq Refs /\ AllBranches \subseteq Environments
  /\ RepoOf \in [Refs -> Environments] /\ NoKey \notin Environments
  /\ Position \in [Refs -> Nat] /\ \A r, q \in Refs : Position[r] = Position[q] => r = q
  /\ PageSize \in Nat \ {0}
ASSUME BoundsAssumption == MaxApiErrors \in Nat /\ MaxCrashes \in Nat

VARIABLES
  \* API server and informer caches
  pe, peCache, peFresh, uids,
  pei, peiCache, peiFresh,
  label,       \* label[r]: uid in the label of the stored instance r
  labelCache,  \* the same of the cached instance
  \* the worker of the environment controller
  peQueue, pePc, peKey, peObj, peCur, detected, listed, toDelete, peErrors,
  \* the worker of the instance controller
  peiQueue, peiPc, peiKey, peiObj, peiCur, peiErrors,
  objLabel,    \* the uid in the label of its copy
  \* GitHub, the cluster, and the process
  open, head, comments, job, registry, res, crashes

labels   == <<label, labelCache, objLabel>>
peStore  == <<pe, peCache, peFresh, uids>>
peWorker == <<peQueue, pePc, peKey, peObj, peCur, detected, listed, toDelete, peErrors>>
peiStore == <<pei, peiCache, peiFresh>>
peiRest  == <<peiQueue, peiPc, peiKey, peiObj, peiErrors, head, comments, job, registry, res>>

peVars  == <<peStore, peWorker, open>>
peiVars == <<peiStore, peiRest, peiCur>>
vars    == <<peVars, peiVars, labels, crashes>>

-----------------------------------------------------------------------------
(* The two components *)

I == INSTANCE InstanceReconciler WITH
       Instances <- Refs, Lookups <- BOOLEAN,
       cache <- peiCache, fresh <- peiFresh, queue <- peiQueue, pc <- peiPc,
       key <- peiKey, obj <- peiObj, cur <- peiCur, apiErrors <- peiErrors

\* What the environment controller knows of an instance
Seen(o, uid) == [exists |-> o.exists, deleting |-> o.deleting, finalizer |-> o.finalizer,
                 hash |-> o.hash # NoCommit, env |-> uid]

E == INSTANCE EnvironmentReconciler WITH
       pei <- [r \in Refs |-> Seen(pei[r], label[r])],
       peiCache <- [r \in Refs |-> Seen(peiCache[r], labelCache[r])],
       queue <- peQueue, pc <- pePc, key <- peKey, obj <- peObj, cur <- peCur,
       apiErrors <- peErrors

Init ==
  /\ I!Init
  /\ label = [r \in Refs |-> 0] /\ labelCache = label /\ objLabel = 0
  /\ E!Init

-----------------------------------------------------------------------------
(* Steps of the instance controller and of what it works with *)

\* The label goes with the object.
LabelsFollow == label' = [r \in Refs |-> IF pei'[r].exists THEN label[r] ELSE 0]

ReconcileInstance(r) ==
  /\ I!Reconcile(r)
  /\ objLabel' = IF peiPc' = "idle" THEN 0 ELSE labelCache[r]
  /\ UNCHANGED <<peVars, label, labelCache>>

\* loadPreviewEnvironmentForInstance goes through the cached environments for one
\* with the uid in the label.
EnvironmentFound == \E e \in Environments : peCache[e].exists /\ peCache[e].uid = objLabel

InstanceWorker ==
  /\ IF peiPc = "load" THEN I!LoadPreviewEnvironment(EnvironmentFound) ELSE I!WorkerStep
  /\ LabelsFollow
  /\ objLabel' = IF peiPc' = "idle" THEN 0 ELSE objLabel
  /\ UNCHANGED <<peVars, labelCache>>

ClusterStep(r) ==
  /\ I!Resync(r) \/ I!JobSucceeds(r) \/ I!JobFails(r) \/ I!JobExpires(r)
  /\ UNCHANGED <<peVars, labels>>

-----------------------------------------------------------------------------
(* Steps of the environment controller and of what it works with *)

ReconcileEnvironment(e) == UNCHANGED <<peiVars, labels>> /\ E!Reconcile(e)

\* A step that leaves the instances alone, a refused or failed write included
EnvironmentWorkerAlone == UNCHANGED <<peiVars, labels>> /\ E!WorkerStep

SaveNewInstance(r) ==
  /\ ~pei[r].exists /\ I!OtherWrites(r, I!NewInstance)
  /\ label' = [label EXCEPT ![r] = peObj.uid] /\ UNCHANGED <<labelCache, objLabel>>
  /\ E!CreateInstance(r)

SaveInstanceAgain(r) ==
  /\ I!OtherWrites(r, [pei[r] EXCEPT !.hash = NoCommit])
  /\ UNCHANGED labels
  /\ E!UpdateInstance(r)

DeleteInstance(r) ==
  /\ pei[r].exists
  /\ I!OtherWrites(r, IF pei[r].finalizer THEN [pei[r] EXCEPT !.deleting = TRUE]
                                          ELSE I!Absent)
  /\ LabelsFollow /\ UNCHANGED <<labelCache, objLabel>>
  /\ E!DeleteInstance(r)

EnvironmentWorker ==
  \/ EnvironmentWorkerAlone
  \/ \E r \in Refs : SaveNewInstance(r) \/ SaveInstanceAgain(r) \/ DeleteInstance(r)

EnvironmentSync(e) ==
  UNCHANGED <<peiVars, labels>> /\ E!EnvironmentSync(e)

EnvironmentResync(e) == UNCHANGED <<peiVars, labels>> /\ E!Resync(e)

UserStep ==
  \/ UNCHANGED <<peiVars, labels>> /\ E!UserStep
  \/ \E r \in Refs, c \in Commits : I!Push(r, c) /\ UNCHANGED <<peVars, labels>>

-----------------------------------------------------------------------------
(* What concerns both *)

\* A watch event of an instance reaches the one cache.
InstanceSync(r) ==
  /\ I!CacheSync(r)
  /\ labelCache' = [labelCache EXCEPT ![r] = label[r]] /\ UNCHANGED <<label, objLabel>>
  /\ E!InstanceSync(r)

Crash ==
  /\ I!Crash
  /\ labelCache' = label /\ objLabel' = 0 /\ UNCHANGED label
  /\ E!Crash

SystemStep ==
  \/ \E e \in Environments : ReconcileEnvironment(e) \/ EnvironmentSync(e)
  \/ \E r \in Refs : ReconcileInstance(r) \/ ClusterStep(r) \/ InstanceSync(r)
  \/ EnvironmentWorker \/ InstanceWorker

Next == SystemStep \/ UserStep \/ Crash \/ \E e \in Environments : EnvironmentResync(e)

Spec == Init /\ [][Next]_vars

\* As in the two modules, but nothing is assumed of the other controller.  The
\* resync of environments, every ten hours, is left to chance.
Fairness ==
  /\ WF_vars(EnvironmentWorker) /\ WF_vars(InstanceWorker)
  /\ \A e \in Environments : SF_vars(ReconcileEnvironment(e)) /\ WF_vars(EnvironmentSync(e))
  /\ \A r \in Refs : /\ SF_vars(ReconcileInstance(r))
                     /\ WF_vars(InstanceSync(r))
                     /\ WF_vars(I!Resync(r) /\ UNCHANGED <<peVars, labels>>)
                     /\ WF_vars((I!JobSucceeds(r) \/ I!JobFails(r))
                                /\ UNCHANGED <<peVars, labels>>)

FairSpec == Spec /\ Fairness

-----------------------------------------------------------------------------
(* Properties *)

\* Every behavior of the operator is one of InstanceReconciler: the writes of the
\* environment controller, with its own cache, copy and retries, are among the
\* CreateInstance, ResetInstance and DeleteInstance assumed there.
InstancesAsModelled == I!Spec

\* Every behavior of the operator is one of EnvironmentReconciler: what builds and
\* deployments do to an instance in between is among the InstanceSteps assumed there.
EnvironmentsAsModelled == E!Spec

Quiet == peErrors = 0 /\ peiErrors = 0 /\ crashes = 0

\* The label names an environment that is gone.
Orphan(r) ==
  /\ pei[r].exists /\ label[r] \in 1..uids
  /\ \A e \in Environments : pe[e].exists => pe[e].uid # label[r]

Rest == <>[][~UserStep /\ \A e \in Environments : ~EnvironmentResync(e)]_vars

\* From the environment to the running preview: when users rest, every instance of
\* a pull request runs the head of the pull request or has failed to, however
\* often it was reset on the way, unless it is a former environment's or a call
\* has failed.  (That the instance is there is InstancesAppear.)
PreviewsSettle ==
  Rest => \A r \in PullRequests : <>[](Quiet => Orphan(r) \/ I!Settled(r))

\* From the deletion of an environment to the cluster: when users rest, nothing of
\* an environment that is gone is left, unless the deletion's list has missed it.
NothingLeft ==
  Rest => \A r \in Refs :
            <>[](Quiet /\ ~E!Live(RepoOf[r]) =>
                   Orphan(r) \/ \A k \in I!Kinds : res[r][k] = NoCommit)
=============================================================================
