------------------------- MODULE PreviewOperator_proofs -------------------------
(***************************************************************************)
(* Every behavior of PreviewOperator is one of InstanceReconciler and one  *)
(* of EnvironmentReconciler, so that what is proved of instances and of    *)
(* environments holds in the operator as it is wired.                      *)
(*                                                                         *)
(* The environment controller decides from its copies and from the cache   *)
(* which instances it creates, resets and deletes; that the API server     *)
(* accepts only what InstanceReconciler allows others to do is the first   *)
(* half.  The instance controller writes back whole copies it has read     *)
(* some calls before; that such a write changes no more of the instance    *)
(* than EnvironmentReconciler allows is the second.  The invariants of     *)
(* InstanceReconciler, which both need, are those of its own proofs,       *)
(* instantiated (G); so are the theorems about instances and environments  *)
(* (H) that are carried over.  I and G, E and H are the same operators     *)
(* under two names: the Same... lemmas only say so.                        *)
(***************************************************************************)
EXTENDS PreviewOperator, TLAPS

G == INSTANCE InstanceLife_proofs WITH
       Instances <- Refs, Lookups <- BOOLEAN,
       cache <- peiCache, fresh <- peiFresh, queue <- peiQueue, pc <- peiPc,
       key <- peiKey, obj <- peiObj, cur <- peiCur, apiErrors <- peiErrors

H == INSTANCE EnvironmentReconciler_proofs WITH
       pei <- [r \in Refs |-> Seen(pei[r], label[r])],
       peiCache <- [r \in Refs |-> Seen(peiCache[r], labelCache[r])],
       queue <- peQueue, pc <- pePc, key <- peKey, obj <- peObj, cur <- peCur,
       apiErrors <- peErrors

-----------------------------------------------------------------------------
(* Steps of the operator are steps of InstanceReconciler *)

LEMMA InstanceWorkerStep ==
  ASSUME InstanceWorker
  PROVE  I!WorkerStep
<1>1. CASE peiPc = "load"
  <2>1. I!LoadPreviewEnvironment(EnvironmentFound)
    BY <1>1 DEF InstanceWorker
  <2>2. EnvironmentFound \in BOOLEAN
    BY DEF EnvironmentFound
  <2>3. \E found \in BOOLEAN : I!LoadPreviewEnvironment(found)
    BY <2>1, <2>2 DEF I!LoadPreviewEnvironment, I!Goto
  <2>4. QED
    BY <2>3 DEF I!WorkerStep, I!Dispatching
<1>2. CASE peiPc # "load"
  BY <1>2 DEF InstanceWorker
<1>3. QED
  BY <1>1, <1>2

\* The process restarts in Crash only.
LEMMA WorkerKeepsCrashes ==
  ASSUME I!WorkerStep
  PROVE  crashes' = crashes
BY DEF I!WorkerStep, I!Deleting, I!Dispatching, I!Building, I!Deploying, I!AddFinalizer,
       I!DeleteKubernetesDeployment, I!DeleteKubernetesService, I!DeleteAuthProxyDeployment,
       I!DeleteAuthProxyService, I!DeleteAuthProxyIngress, I!DeleteKubernetesIngress,
       I!RemoveFinalizer, I!DeleteResource, I!LoadPreviewEnvironment, I!LatestCommitHash,
       I!UpdateHash, I!MarkPending, I!MarkFailed, I!MarkBuilding, I!CleanJob, I!CreateJob,
       I!WaitJob, I!MarkDeploying, I!MarkRedeploying, I!SetupAuthentication, I!Apply,
       I!DeployKubernetesDeployment, I!DeployKubernetesService, I!DeployAuthProxyDeployment,
       I!DeployAuthProxyService, I!DeployAuthProxyIngress, I!DeployKubernetesIngress,
       I!SetPublicFacingUrl, I!PullRequestAlreadyHasMessage, I!PostMessageToPr, I!MarkRunning,
       I!faults

LEMMA EnvironmentStepsKeepCrashes ==
  ASSUME \/ \E e \in Environments : E!Reconcile(e) \/ E!EnvironmentSync(e) \/ E!Resync(e)
         \/ E!WorkerStep \/ E!UserStep
  PROVE  crashes' = crashes
<1>1. CASE E!WorkerStep
  BY <1>1 DEF E!WorkerStep, E!Saving, E!Deleting, E!AddFinalizer, E!DetectPullRequests,
              E!DetectBranches, E!UpdateInstance, E!CreateInstance, E!SaveInstance,
              E!ListInstances, E!DeleteInstance, E!RemoveFinalizer, E!faults
<1>2. CASE E!UserStep
  BY <1>2 DEF E!UserStep, E!PostEnvironment, E!DeleteEnvironment, E!PatchEnvironment,
              E!OpenOrClose, E!OthersStore, E!faults
<1>3. CASE \E e \in Environments : E!Reconcile(e) \/ E!EnvironmentSync(e) \/ E!Resync(e)
  BY <1>3 DEF E!Reconcile, E!EnvironmentSync, E!Resync, E!faults
<1>4. QED
  BY <1>1, <1>2, <1>3

LEMMA Alone ==
  ASSUME UNCHANGED peiVars, crashes' = crashes
  PROVE  UNCHANGED I!vars
BY DEF peiVars, peiStore, peiRest, I!vars, I!store, I!worker, I!github, I!cluster, I!faults

\* A new instance is stored only where the cache and the API server have none.
LEMMA SaveNewStep ==
  ASSUME NEW r \in Refs, SaveNewInstance(r)
  PROVE  I!CreateInstance(r)
<1>1. ~pei[r].exists /\ I!OtherWrites(r, I!NewInstance) /\ E!CreateInstance(r)
  BY DEF SaveNewInstance
<1>2. ~peiCache[r].exists
  BY <1>1 DEF E!CreateInstance, Seen
<1>3. QED
  BY <1>1, <1>2 DEF I!CreateInstance

\* An instance is reset only in the version the controller has read; an update
\* that is refused or fails changes nothing, even if it would have been one.
LEMMA SaveAgainStep ==
  ASSUME G!BaseInv, NEW r \in Refs, SaveInstanceAgain(r)
  PROVE  I!ResetInstance(r) \/ UNCHANGED I!vars
<1> DEFINE o == [pei[r] EXCEPT !.hash = NoCommit]
<1>1. I!OtherWrites(r, o) /\ E!UpdateInstance(r)
  BY DEF SaveInstanceAgain
<1>2. /\ peiCache[r].exists
      /\ \/ peiFresh[r]
         \/ [q \in Refs |-> Seen(pei[q], label[q])]' = [q \in Refs |-> Seen(pei[q], label[q])]
  BY <1>1 DEF E!UpdateInstance, E!SaveInstance, E!instances, Seen
<1>3. pei \in [Refs -> G!Objects] /\ peiFresh \in [Refs -> BOOLEAN] /\ peiCur \in BOOLEAN
  BY DEF G!BaseInv, G!TypeOK
<1>4. CASE peiFresh[r]
  BY <1>1, <1>2, <1>4 DEF I!ResetInstance
<1>5. CASE [q \in Refs |-> Seen(pei[q], label[q])]' = [q \in Refs |-> Seen(pei[q], label[q])]
  <2>1. /\ pei' = [pei EXCEPT ![r] = o]
        /\ peiFresh' = [peiFresh EXCEPT ![r] = peiFresh[r] /\ o = pei[r]]
        /\ peiCur' = (peiCur /\ (peiKey # r \/ o = pei[r]))
        /\ UNCHANGED <<peiCache, peiQueue, peiPc, peiKey, peiObj, head, comments, job, registry,
                       res, peiErrors, crashes>>
    BY <1>1 DEF I!OtherWrites, I!Write, I!github, I!cluster, I!faults
  <2>2. (pei'[r].hash # NoCommit) = (pei[r].hash # NoCommit)
    BY <1>5 DEF Seen
  <2>3. pei'[r] = o /\ o.hash = NoCommit
    BY <1>3, <2>1 DEF G!Objects
  <2>4. o = pei[r]
    BY <1>3, <2>2, <2>3 DEF G!Objects
  <2>5. UNCHANGED <<pei, peiFresh, peiCur>>
    BY <1>3, <2>1, <2>4
  <2>6. QED
    BY <2>1, <2>5 DEF I!vars, I!store, I!worker, I!github, I!cluster, I!faults
<1>6. QED
  BY <1>2, <1>4, <1>5

LEMMA EnvironmentWorkerInstances ==
  ASSUME G!BaseInv, EnvironmentWorker
  PROVE  [I!Next]_(I!vars)
<1>1. CASE EnvironmentWorkerAlone
  BY <1>1, EnvironmentStepsKeepCrashes, Alone DEF EnvironmentWorkerAlone
<1>2. ASSUME NEW r \in Refs, SaveNewInstance(r) \/ SaveInstanceAgain(r) \/ DeleteInstance(r)
      PROVE  [I!Next]_(I!vars)
  <2>1. CASE SaveNewInstance(r)
    BY <2>1, SaveNewStep DEF I!Next, I!UserStep
  <2>2. CASE SaveInstanceAgain(r)
    BY <2>2, SaveAgainStep DEF I!Next, I!UserStep
  <2>3. CASE DeleteInstance(r)
    BY <2>3 DEF DeleteInstance, I!DeleteInstance, I!Next, I!UserStep
  <2>4. QED
    BY <1>2, <2>1, <2>2, <2>3
<1>3. QED
  BY <1>1, <1>2 DEF EnvironmentWorker

LEMMA StepOfInstances ==
  ASSUME G!BaseInv, [Next]_vars
  PROVE  [I!Next]_(I!vars)
<1>1. CASE InstanceWorker
  BY <1>1, InstanceWorkerStep DEF I!Next
<1>2. CASE EnvironmentWorker
  BY <1>2, EnvironmentWorkerInstances
<1>3. ASSUME NEW r \in Refs, ReconcileInstance(r) \/ ClusterStep(r) \/ InstanceSync(r)
      PROVE  [I!Next]_(I!vars)
  BY <1>3 DEF ReconcileInstance, ClusterStep, InstanceSync, I!Next, I!ClusterStep
<1>4. ASSUME NEW e \in Environments,
             ReconcileEnvironment(e) \/ EnvironmentSync(e) \/ EnvironmentResync(e)
      PROVE  [I!Next]_(I!vars)
  BY <1>4, EnvironmentStepsKeepCrashes, Alone
     DEF ReconcileEnvironment, EnvironmentSync, EnvironmentResync
<1>5. CASE UserStep
  <2>1. CASE UNCHANGED <<peiVars, labels>> /\ E!UserStep
    BY <2>1, EnvironmentStepsKeepCrashes, Alone
  <2>2. CASE \E r \in Refs, c \in Commits : I!Push(r, c)
    BY <2>2 DEF I!Next, I!UserStep
  <2>3. QED
    BY <1>5, <2>1, <2>2 DEF UserStep
<1>6. CASE Crash
  BY <1>6 DEF Crash, I!Next
<1>7. CASE UNCHANGED vars
  BY <1>7, Alone DEF vars
<1>8. QED
  BY <1>1, <1>2, <1>3, <1>4, <1>5, <1>6, <1>7 DEF Next, SystemStep

-----------------------------------------------------------------------------
(* The two instances of InstanceReconciler are the same *)

LEMMA SameInit == I!Init => G!Init
BY DEF I!Init, G!Init, I!Absent, G!Absent, I!Revisions, G!Revisions, I!NoJob, G!NoJob,
       I!Kinds, G!Kinds, I!MainKinds, G!MainKinds, I!AuthKinds, G!AuthKinds

LEMMA SameWorkerStep == I!WorkerStep => G!WorkerStep
BY DEF I!WorkerStep, G!WorkerStep, I!Deleting, G!Deleting,
       I!DeleteKubernetesDeployment, G!DeleteKubernetesDeployment,
       I!DeleteResource, G!DeleteResource, I!Succeeds, G!Succeeds, I!Goto, G!Goto,
       I!Absent, G!Absent, I!ApiError, G!ApiError, I!store, G!store, I!github, G!github,
       I!DeleteKubernetesService, G!DeleteKubernetesService,
       I!DeleteAuthProxyDeployment, G!DeleteAuthProxyDeployment,
       I!DeleteAuthProxyService, G!DeleteAuthProxyService,
       I!DeleteAuthProxyIngress, G!DeleteAuthProxyIngress,
       I!DeleteKubernetesIngress, G!DeleteKubernetesIngress,
       I!RemoveFinalizer, G!RemoveFinalizer, I!Update, G!Update, I!Put, G!Put,
       I!Write, G!Write, I!cluster, G!cluster, I!Dispatching, G!Dispatching,
       I!AddFinalizer, G!AddFinalizer, I!LoadPreviewEnvironment, G!LoadPreviewEnvironment,
       I!RebuildInstance, G!RebuildInstance, I!RedeployInstance, G!RedeployInstance,
       I!faults, G!faults, I!LatestCommitHash, G!LatestCommitHash, I!UpdateHash, G!UpdateHash,
       I!MarkPending, G!MarkPending, I!StatusUpdate, G!StatusUpdate, I!InPhase, G!InPhase,
       I!MarkFailed, G!MarkFailed, I!Building, G!Building, I!MarkBuilding, G!MarkBuilding,
       I!CleanJob, G!CleanJob, I!NoJob, G!NoJob, I!CreateJob, G!CreateJob,
       I!WaitJob, G!WaitJob, I!UpdateBuiltVersions, G!UpdateBuiltVersions,
       I!MarkDeploying, G!MarkDeploying, I!Deploying, G!Deploying,
       I!MarkRedeploying, G!MarkRedeploying, I!SetupAuthentication, G!SetupAuthentication,
       I!DeployKubernetesDeployment, G!DeployKubernetesDeployment, I!Apply, G!Apply,
       I!DeployKubernetesService, G!DeployKubernetesService,
       I!DeployAuthProxyDeployment, G!DeployAuthProxyDeployment,
       I!DeployAuthProxyService, G!DeployAuthProxyService,
       I!DeployAuthProxyIngress, G!DeployAuthProxyIngress,
       I!DeployKubernetesIngress, G!DeployKubernetesIngress,
       I!SetPublicFacingUrl, G!SetPublicFacingUrl,
       I!PullRequestAlreadyHasMessage, G!PullRequestAlreadyHasMessage,
       I!PostMessageToPr, G!PostMessageToPr, I!MarkRunning, G!MarkRunning

LEMMA SameNext == I!Next => G!Next
BY DEF I!Next, G!Next, I!Reconcile, G!Reconcile, I!worker, G!worker, I!store, G!store,
       I!github, G!github, I!cluster, G!cluster, I!faults, G!faults,
       I!WorkerStep, G!WorkerStep, I!Deleting, G!Deleting,
       I!DeleteKubernetesDeployment, G!DeleteKubernetesDeployment,
       I!DeleteResource, G!DeleteResource, I!Succeeds, G!Succeeds, I!Goto, G!Goto,
       I!Absent, G!Absent, I!ApiError, G!ApiError,
       I!DeleteKubernetesService, G!DeleteKubernetesService,
       I!DeleteAuthProxyDeployment, G!DeleteAuthProxyDeployment,
       I!DeleteAuthProxyService, G!DeleteAuthProxyService,
       I!DeleteAuthProxyIngress, G!DeleteAuthProxyIngress,
       I!DeleteKubernetesIngress, G!DeleteKubernetesIngress,
       I!RemoveFinalizer, G!RemoveFinalizer, I!Update, G!Update, I!Put, G!Put,
       I!Write, G!Write, I!Dispatching, G!Dispatching, I!AddFinalizer, G!AddFinalizer,
       I!LoadPreviewEnvironment, G!LoadPreviewEnvironment,
       I!RebuildInstance, G!RebuildInstance, I!RedeployInstance, G!RedeployInstance,
       I!LatestCommitHash, G!LatestCommitHash, I!UpdateHash, G!UpdateHash,
       I!MarkPending, G!MarkPending, I!StatusUpdate, G!StatusUpdate, I!InPhase, G!InPhase,
       I!MarkFailed, G!MarkFailed, I!Building, G!Building, I!MarkBuilding, G!MarkBuilding,
       I!CleanJob, G!CleanJob, I!NoJob, G!NoJob, I!CreateJob, G!CreateJob,
       I!WaitJob, G!WaitJob, I!UpdateBuiltVersions, G!UpdateBuiltVersions,
       I!MarkDeploying, G!MarkDeploying, I!Deploying, G!Deploying,
       I!MarkRedeploying, G!MarkRedeploying, I!SetupAuthentication, G!SetupAuthentication,
       I!DeployKubernetesDeployment, G!DeployKubernetesDeployment, I!Apply, G!Apply,
       I!DeployKubernetesService, G!DeployKubernetesService,
       I!DeployAuthProxyDeployment, G!DeployAuthProxyDeployment,
       I!DeployAuthProxyService, G!DeployAuthProxyService,
       I!DeployAuthProxyIngress, G!DeployAuthProxyIngress,
       I!DeployKubernetesIngress, G!DeployKubernetesIngress,
       I!SetPublicFacingUrl, G!SetPublicFacingUrl,
       I!PullRequestAlreadyHasMessage, G!PullRequestAlreadyHasMessage,
       I!PostMessageToPr, G!PostMessageToPr, I!MarkRunning, G!MarkRunning,
       I!UserStep, G!UserStep, I!CreateInstance, G!CreateInstance,
       I!OtherWrites, G!OtherWrites, I!NewInstance, G!NewInstance,
       I!ResetInstance, G!ResetInstance, I!DeleteInstance, G!DeleteInstance, I!Push, G!Push,
       I!ClusterStep, G!ClusterStep, I!CacheSync, G!CacheSync, I!Resync, G!Resync,
       I!JobSucceeds, G!JobSucceeds, I!JobFails, G!JobFails, I!JobExpires, G!JobExpires,
       I!Crash, G!Crash

LEMMA SameVars == I!vars = G!vars
BY DEF I!vars, G!vars, I!store, G!store, I!worker, G!worker, I!github, G!github,
       I!cluster, G!cluster, I!faults, G!faults

-----------------------------------------------------------------------------
\* InstanceReconciler's invariant holds in the operator, although the writes of the
\* environment controller are not restricted to those InstanceReconciler assumes.
LEMMA OperatorBase == Spec => []G!BaseInv
<1>1. Init => G!BaseInv
  BY SameInit, G!BaseInit, InstancesAssumption, BoundsAssumption DEF Init
<1>2. ASSUME G!BaseInv, [Next]_vars PROVE G!BaseInv'
  <2>1. [I!Next]_(I!vars)
    BY <1>2, StepOfInstances
  <2>2. [G!Next]_(G!vars)
    BY <2>1, SameNext, SameVars DEF I!vars, G!vars, I!store, G!store, I!worker, G!worker,
       I!github, G!github, I!cluster, G!cluster, I!faults, G!faults
  <2>3. QED
    BY <1>2, <2>2, G!BaseNext, InstancesAssumption, BoundsAssumption
<1>3. QED
  BY <1>1, <1>2, PTL DEF Spec

\* Every behavior of the operator is one of InstanceReconciler.
THEOREM OperatorRunsInstances == Spec => InstancesAsModelled
<1>1. Init => I!Init
  BY DEF Init
<1>2. G!BaseInv /\ [Next]_vars => [I!Next]_(I!vars)
  BY StepOfInstances
<1>3. QED
  BY <1>1, <1>2, OperatorBase, PTL DEF Spec, InstancesAsModelled, I!Spec

-----------------------------------------------------------------------------
(* What is proved of instances holds in the operator *)

LEMMA SameSpec == I!Spec => G!Spec
<1>1. I!Init => G!Init
  BY SameInit
<1>2. [I!Next]_(I!vars) => [G!Next]_(G!vars)
  BY SameNext, SameVars DEF I!vars, G!vars, I!store, G!store, I!worker, G!worker,
     I!github, G!github, I!cluster, G!cluster, I!faults, G!faults
<1>3. QED
  BY <1>1, <1>2, PTL DEF I!Spec, G!Spec

\* With both controllers at work: only built images are deployed, nothing deployed is
\* left unguarded, what is shown as running is deployed, and messages are not repeated.
THEOREM PreviewsAreSafe ==
  Spec => [](/\ I!DeployedImageWasBuilt /\ I!ResourcesGuarded
             /\ I!RunningMeansDeployed /\ I!DuplicatesNeedErrors)
<1>1. G!Spec => []G!DeployedImageWasBuilt
  BY G!DeployedImages, InstancesAssumption, BoundsAssumption
<1>2. G!Spec => []G!ResourcesGuarded
  BY G!ResourcesAreGuarded, InstancesAssumption, BoundsAssumption
<1>3. G!Spec => []G!RunningMeansDeployed
  BY G!RunningIsDeployed, InstancesAssumption, BoundsAssumption
<1>4. G!Spec => []G!DuplicatesNeedErrors
  BY G!DuplicatesAreErrors, InstancesAssumption, BoundsAssumption
<1>5. G!DeployedImageWasBuilt => I!DeployedImageWasBuilt
  BY DEF G!DeployedImageWasBuilt, I!DeployedImageWasBuilt
<1>6. G!ResourcesGuarded => I!ResourcesGuarded
  BY DEF G!ResourcesGuarded, I!ResourcesGuarded, G!Kinds, I!Kinds, G!MainKinds, I!MainKinds,
         G!AuthKinds, I!AuthKinds
<1>7. G!RunningMeansDeployed => I!RunningMeansDeployed
  BY DEF G!RunningMeansDeployed, I!RunningMeansDeployed, G!Kinds, I!Kinds, G!MainKinds,
         I!MainKinds, G!AuthKinds, I!AuthKinds
<1>8. G!DuplicatesNeedErrors => I!DuplicatesNeedErrors
  BY DEF G!DuplicatesNeedErrors, I!DuplicatesNeedErrors, G!Revisions, I!Revisions
<1>9. QED
  BY <1>1, <1>2, <1>3, <1>4, <1>5, <1>6, <1>7, <1>8, OperatorRunsInstances, SameSpec, PTL
     DEF InstancesAsModelled

\* ... no URL is posted for which nothing was built, nothing is built twice, and no
\* deletion is undone, also by the copies that the environment controller writes.
THEOREM PreviewStepsAreSafe ==
  Spec => I!PostedUrlWasBuilt /\ I!NeverRebuilt /\ I!DeletionNotUndone
<1>1. G!Spec => G!PostedUrlWasBuilt
  BY G!PostedUrls, InstancesAssumption, BoundsAssumption
<1>2. G!Spec => G!NeverRebuilt
  BY G!NothingIsRebuilt, InstancesAssumption, BoundsAssumption
<1>3. G!Spec => G!DeletionNotUndone
  BY G!DeletionStays, InstancesAssumption, BoundsAssumption
<1>4. G!PostedUrlWasBuilt => I!PostedUrlWasBuilt
  BY PTL DEF G!PostedUrlWasBuilt, I!PostedUrlWasBuilt, I!vars, G!vars, I!store, G!store, I!worker, G!worker,
     I!github, G!github, I!cluster, G!cluster, I!faults, G!faults
<1>5. G!NeverRebuilt => I!NeverRebuilt
  BY PTL DEF G!NeverRebuilt, I!NeverRebuilt, I!vars, G!vars, I!store, G!store, I!worker, G!worker,
     I!github, G!github, I!cluster, G!cluster, I!faults, G!faults
<1>6. G!DeletionNotUndone => I!DeletionNotUndone
  BY PTL DEF G!DeletionNotUndone, I!DeletionNotUndone, I!vars, G!vars, I!store, G!store, I!worker, G!worker,
     I!github, G!github, I!cluster, G!cluster, I!faults, G!faults
<1>7. QED
  BY <1>1, <1>2, <1>3, <1>4, <1>5, <1>6, OperatorRunsInstances, SameSpec, PTL
     DEF InstancesAsModelled

\* As long as no call of the instance controller fails, previews live as InstanceLife
\* says, from the environment controller's Create to the end of its Delete.
THEOREM OperatorImplementsLife == Spec /\ [](peiErrors = 0) => I!ImplementsLife
<1>1. G!Spec /\ [](peiErrors = 0) => G!ImplementsLife
  BY G!ControllerImplementsLife, InstancesAssumption, BoundsAssumption
<1>2. G!ImplementsLife => I!ImplementsLife
  <2>1. G!Life!Init => I!Life!Init
    BY DEF G!Life!Init, I!Life!Init, G!Life!Nothing, I!Life!Nothing, G!MainKinds, I!MainKinds
  <2>2. [G!Life!Next]_(G!Life!lifeVars) => [I!Life!Next]_(I!Life!lifeVars)
    BY DEF G!Life!Next, I!Life!Next, G!Life!lifeVars, I!Life!lifeVars,
           G!Life!Create, I!Life!Create, G!Life!Build, I!Life!Build, G!Life!Deploy, I!Life!Deploy,
           G!Life!Terminate, I!Life!Terminate, G!Life!Undeploy, I!Life!Undeploy,
           G!Life!Remove, I!Life!Remove, G!Life!Nothing, I!Life!Nothing, G!MainKinds, I!MainKinds
  <2>3. QED
    BY <2>1, <2>2, PTL DEF G!ImplementsLife, I!ImplementsLife, G!Life!Spec, I!Life!Spec
<1>3. QED
  BY <1>1, <1>2, OperatorRunsInstances, SameSpec, PTL DEF InstancesAsModelled

-----------------------------------------------------------------------------
(* Steps of the operator are steps of EnvironmentReconciler *)

\* Nothing is known of an instance that does not exist.
LabelInv ==
  /\ DOMAIN label = Refs
  /\ \A r \in Refs : ~pei[r].exists => label[r] = 0

OperatorInv == G!BaseInv /\ G!CopyInv /\ LabelInv

LEMMA EnvironmentsAlone ==
  ASSUME UNCHANGED <<peVars, pei, peiCache, peiFresh, label, labelCache, crashes>>
  PROVE  UNCHANGED E!vars
BY DEF peVars, peStore, peWorker, E!vars, E!environments, E!instances, E!outside, E!worker,
       E!lists, E!faults, Seen

\* Version o of instance r, as the environment controller sees it, is stored.
LEMMA InstanceWritten ==
  ASSUME NEW r \in Refs, NEW o, pei \in [Refs -> G!Objects], peiFresh \in [Refs -> BOOLEAN],
         pei' = [pei EXCEPT ![r] = o], LabelInv, LabelsFollow,
         peiFresh' = [peiFresh EXCEPT ![r] = peiFresh[r] /\ o = pei[r]],
         UNCHANGED <<peVars, peiCache, labelCache, crashes>>, pei[r].exists
  PROVE  /\ label'[r] = IF o.exists THEN label[r] ELSE 0
         /\ [q \in Refs |-> Seen(pei[q], label[q])]' =
              [[q \in Refs |-> Seen(pei[q], label[q])] EXCEPT ![r] = Seen(o, label'[r])]
         /\ [q \in Refs |-> Seen(peiCache[q], labelCache[q])]' =
              [q \in Refs |-> Seen(peiCache[q], labelCache[q])]
         /\ UNCHANGED <<E!environments, E!outside, peQueue, E!worker, E!faults, peiCache>>
<1>1. \A q \in Refs : pei'[q] = IF q = r THEN o ELSE pei[q]
  OBVIOUS
<1>2. \A q \in Refs : label'[q] = IF pei'[q].exists THEN label[q] ELSE 0
  BY DEF LabelsFollow
<1>3. \A q \in Refs \ {r} : label'[q] = label[q]
  BY <1>1, <1>2 DEF LabelInv
<1>4. label'[r] = IF o.exists THEN label[r] ELSE 0
  BY <1>1, <1>2
<1>5. \A q \in Refs : Seen(pei'[q], label'[q]) =
                        IF q = r THEN Seen(o, label'[r]) ELSE Seen(pei[q], label[q])
  BY <1>1, <1>3
<1>6. QED
  BY <1>4, <1>5 DEF peVars, peStore, peWorker, E!environments, E!outside, E!worker, E!lists,
     E!faults

\* A write that the environment controller cannot see
LEMMA UnseenWrite ==
  ASSUME NEW r \in Refs, NEW o, pei \in [Refs -> G!Objects], peiFresh \in [Refs -> BOOLEAN],
         pei' = [pei EXCEPT ![r] = o], LabelInv, LabelsFollow,
         peiFresh' = [peiFresh EXCEPT ![r] = peiFresh[r] /\ o = pei[r]],
         UNCHANGED <<peVars, peiCache, labelCache, crashes>>, pei[r].exists,
         o.exists, o.deleting = pei[r].deleting, o.finalizer = pei[r].finalizer,
         (o.hash # NoCommit) = (pei[r].hash # NoCommit)
  PROVE  [E!Next]_(E!vars)
<1> DEFINE instances == [q \in Refs |-> Seen(pei[q], label[q])]
<1>1. /\ label'[r] = label[r]
      /\ instances' = [instances EXCEPT ![r] = Seen(o, label'[r])]
      /\ [q \in Refs |-> Seen(peiCache[q], labelCache[q])]' =
           [q \in Refs |-> Seen(peiCache[q], labelCache[q])]
      /\ UNCHANGED <<E!environments, E!outside, peQueue, E!worker, E!faults>>
  BY InstanceWritten
<1>2. Seen(o, label'[r]) = instances[r]
  BY <1>1 DEF Seen, G!Objects
<1>3. instances' = instances
  BY <1>1, <1>2
<1>4. CASE o = pei[r]
  <2>1. peiFresh' = peiFresh
    BY <1>4
  <2>2. QED
    BY <1>1, <1>3, <2>1 DEF E!vars, E!instances
<1>5. CASE o # pei[r]
  <2>1. peiFresh' = [peiFresh EXCEPT ![r] = FALSE]
    BY <1>5
  <2>2. E!InstanceStatus(r)
    BY <1>1, <1>3, <2>1 DEF E!InstanceStatus, Seen
  <2>3. QED
    BY <2>2 DEF E!Next, E!InstanceStep
<1>6. QED
  BY <1>4, <1>5

\* A write that it can see
LEMMA SeenWrite ==
  ASSUME NEW r \in Refs, NEW o, pei \in [Refs -> G!Objects], peiFresh \in [Refs -> BOOLEAN],
         pei' = [pei EXCEPT ![r] = o], LabelInv, LabelsFollow,
         peiFresh' = [peiFresh EXCEPT ![r] = peiFresh[r] /\ o = pei[r]],
         UNCHANGED <<peVars, peiCache, labelCache, crashes>>, pei[r].exists,
         NEW s, Seen(o, label'[r]) = s, s # Seen(pei[r], label[r])
  PROVE  E!InstanceWrite(r, s)
<1> DEFINE instances == [q \in Refs |-> Seen(pei[q], label[q])]
<1>1. /\ instances' = [instances EXCEPT ![r] = s]
      /\ [q \in Refs |-> Seen(peiCache[q], labelCache[q])]' =
           [q \in Refs |-> Seen(peiCache[q], labelCache[q])]
      /\ UNCHANGED <<E!environments, E!outside, peQueue, E!worker, E!faults>>
  BY InstanceWritten
<1>2. label'[r] = IF o.exists THEN label[r] ELSE 0
  BY InstanceWritten
<1>3. o # pei[r]
  BY <1>2
<1>4. peiFresh' = [peiFresh EXCEPT ![r] = peiFresh[r] /\ s = instances[r]]
  BY <1>3
<1>5. QED
  BY <1>1, <1>4 DEF E!InstanceWrite, E!StoreInstance

\* The finalizer and the hash as writes of a whole object
LEMMA FinalizerByValue ==
  ASSUME NEW r \in Refs, NEW e, NEW t,
         [q \in Refs |-> Seen(pei[q], label[q])][r] = e,
         e.exists, ~e.deleting, ~e.finalizer,
         t = [e EXCEPT !.finalizer = TRUE], E!InstanceWrite(r, t)
  PROVE  E!InstanceFinalizer(r)
BY DEF E!InstanceFinalizer, E!InstanceWrite, E!StoreInstance

LEMMA HashByValue ==
  ASSUME NEW r \in Refs, NEW e, NEW t, r \in PullRequests,
         [q \in Refs |-> Seen(pei[q], label[q])][r] = e,
         e.exists, ~e.deleting, e.finalizer, ~e.hash,
         t = [e EXCEPT !.hash = TRUE], E!InstanceWrite(r, t)
  PROVE  E!InstanceHash(r)
BY DEF E!InstanceHash, E!InstanceWrite, E!StoreInstance

LEMMA InstanceWorkerEnvironments ==
  ASSUME OperatorInv, InstanceWorker
  PROVE  [E!Next]_(E!vars)
<1>1. G!WorkerStep /\ LabelsFollow /\ UNCHANGED <<peVars, labelCache>>
  BY InstanceWorkerStep, SameWorkerStep DEF InstanceWorker
<1>2. crashes' = crashes
  BY InstanceWorkerStep, WorkerKeepsCrashes
<1>3. /\ pei \in [Refs -> G!Objects] /\ peiFresh \in [Refs -> BOOLEAN] /\ LabelInv
  BY DEF OperatorInv, G!BaseInv, G!TypeOK
<1>4. pei' \in [Refs -> G!Objects]
  <2>1. G!BaseInv'
    BY <1>1, G!BaseNext, InstancesAssumption, BoundsAssumption DEF G!Next, OperatorInv
  <2>2. QED
    BY <2>1 DEF G!BaseInv, G!TypeOK
<1>5. UNCHANGED G!store \/ \E o : G!WorkerWrites(o) /\ G!Write(peiKey, o)
  BY <1>1, G!WorkerWrite, InstancesAssumption, BoundsAssumption DEF OperatorInv
<1>6. CASE UNCHANGED G!store
  <2>1. UNCHANGED <<pei, peiCache, peiFresh>>
    BY <1>6 DEF G!store
  <2>2. \A q \in Refs : Seen(pei[q], label[q])' = Seen(pei[q], label[q])
    BY <1>1, <1>3, <2>1 DEF LabelsFollow, LabelInv
  <2>3. QED
    BY <1>1, <1>2, <2>1, <2>2 DEF peVars, peStore, peWorker, E!vars, E!environments, E!instances,
       E!outside, E!worker, E!lists, E!faults
<1>7. ASSUME NEW o, G!WorkerWrites(o), G!Write(peiKey, o) PROVE [E!Next]_(E!vars)
  <2>1. PICK r \in Refs : r = peiKey
    BY <1>3, <1>7 DEF G!WorkerWrites
  <2>2. PICK s : s = pei[r]
    OBVIOUS
  <2>3. /\ s.exists /\ pei[r].exists /\ pei' = [pei EXCEPT ![r] = o] /\ s \in G!Objects
        /\ peiFresh' = [peiFresh EXCEPT ![r] = peiFresh[r] /\ o = pei[r]]
        /\ UNCHANGED <<peVars, peiCache, labelCache, crashes>> /\ o \in G!Objects
        /\ label'[r] = IF o.exists THEN label[r] ELSE 0
    BY <1>1, <1>2, <1>3, <1>4, <1>7, <2>1, <2>2 DEF G!WorkerWrites, G!Write, LabelsFollow
  <2>4. ASSUME o.exists, o.deleting = s.deleting, o.finalizer = s.finalizer,
               (o.hash # NoCommit) = (s.hash # NoCommit)
        PROVE  [E!Next]_(E!vars)
    BY <1>1, <1>3, <2>2, <2>3, <2>4, UnseenWrite
  <2>5. PICK e : e = Seen(s, label[r])
    OBVIOUS
  <2>6. PICK h \in BOOLEAN : h = (s.hash # NoCommit)
    OBVIOUS
  <2>7. ASSUME NEW t, Seen(o, label'[r]) = t, t # e PROVE E!InstanceWrite(r, t)
    <3>1. t # Seen(pei[r], label[r])
      BY <2>2, <2>5, <2>7
    <3>2. QED
      BY <1>1, <1>3, <2>3, <2>7, <3>1, SeenWrite
  <2>8. PICK l : l = label[r]
    OBVIOUS
  <2>9. [q \in Refs |-> Seen(pei[q], label[q])][r] = e
    BY <2>2, <2>5
  <2>10. e = [exists |-> TRUE, deleting |-> s.deleting, finalizer |-> s.finalizer,
             hash |-> h, env |-> l]
    BY <2>3, <2>5, <2>6, <2>8 DEF Seen, G!Objects
  <2>11. CASE /\ ~s.deleting /\ o.exists /\ ~o.deleting /\ o.finalizer /\ o.hash = s.hash
             /\ ~s.finalizer
    <3>1. PICK t : t = [e EXCEPT !.finalizer = TRUE]
      OBVIOUS
    <3>2. t = [exists |-> TRUE, deleting |-> s.deleting, finalizer |-> TRUE,
               hash |-> h, env |-> l]
      BY <2>10, <3>1
    <3>3. Seen(o, label'[r]) = t
      BY <2>3, <2>11, <2>6, <2>8, <3>2, InstancesAssumption DEF Seen, G!Objects
    <3>4. t # e
      BY <2>10, <2>11, <2>6, <3>2
    <3>5. E!InstanceWrite(r, t)
      BY <2>7, <3>3, <3>4
    <3>6. E!InstanceFinalizer(r)
      <4>1. e.exists /\ ~e.deleting /\ ~e.finalizer
        BY <2>10, <2>11
      <4>2. QED
        BY <2>9, <3>1, <3>5, <4>1, FinalizerByValue
    <3>7. QED
      BY <3>6 DEF E!Next, E!InstanceStep
  <2>12. CASE /\ r \in PullRequests /\ ~s.deleting /\ s.finalizer
             /\ o.exists /\ ~o.deleting /\ o.finalizer /\ o.hash \in Commits
             /\ s.hash = NoCommit
    <3>1. PICK t : t = [e EXCEPT !.hash = TRUE]
      OBVIOUS
    <3>2. t = [exists |-> TRUE, deleting |-> s.deleting, finalizer |-> s.finalizer,
               hash |-> TRUE, env |-> l]
      BY <2>10, <3>1
    <3>3. Seen(o, label'[r]) = t
      BY <2>3, <2>12, <2>6, <2>8, <3>2, InstancesAssumption DEF Seen, G!Objects
    <3>4. t # e
      <4>1. t.hash # e.hash
        BY <2>10, <2>12, <2>6, <3>2
      <4>2. QED
        BY <4>1
    <3>5. E!InstanceWrite(r, t)
      BY <2>7, <3>3, <3>4
    <3>6. E!InstanceHash(r)
      <4>1. e.exists /\ ~e.deleting /\ e.finalizer /\ ~e.hash
        BY <2>10, <2>12, <2>6
      <4>2. QED
        BY <2>12, <2>9, <3>1, <3>5, <4>1, HashByValue
    <3>7. QED
      BY <3>6 DEF E!Next, E!InstanceStep
  <2>13. CASE s.deleting /\ o = G!Absent
    <3>1. PICK t : t = E!NoInstance
      OBVIOUS
    <3>2. label'[r] = 0
      BY <2>3, <2>13 DEF G!Absent
    <3>3. Seen(o, label'[r]) = t
      BY <2>13, <3>1, <3>2 DEF Seen, G!Absent, E!NoInstance
    <3>4. t.exists # e.exists
      BY <2>10, <3>1 DEF E!NoInstance
    <3>5. Seen(o, label'[r]) = t /\ t # e
      BY <3>3, <3>4
    <3>6. E!InstanceWrite(r, t)
      BY <2>7, <3>5
    <3>7. E!InstanceRemoved(r)
      BY <2>10, <2>13, <2>9, <3>1, <3>6 DEF E!InstanceRemoved, E!InstanceWrite, E!StoreInstance
    <3>8. QED
      BY <3>7 DEF E!Next, E!InstanceStep
  <2>14. \/ /\ o.exists /\ o.deleting = s.deleting
            /\ o.finalizer = s.finalizer /\ o.hash = s.hash
         \/ /\ ~s.deleting /\ o.exists /\ ~o.deleting /\ o.finalizer /\ o.hash = s.hash
         \/ /\ r \in PullRequests /\ ~s.deleting /\ s.finalizer
            /\ o.exists /\ ~o.deleting /\ o.finalizer /\ o.hash \in Commits
         \/ s.deleting /\ o = G!Absent
    BY <1>7, <2>1, <2>2 DEF G!WorkerWrites
  <2>15. CASE /\ ~s.deleting /\ o.exists /\ ~o.deleting /\ o.finalizer /\ o.hash = s.hash
              /\ s.finalizer
    BY <2>3, <2>4, <2>15 DEF G!Objects
  <2>16. CASE /\ r \in PullRequests /\ ~s.deleting /\ s.finalizer
              /\ o.exists /\ ~o.deleting /\ o.finalizer /\ o.hash \in Commits
              /\ s.hash # NoCommit
    BY <2>3, <2>4, <2>16, InstancesAssumption DEF G!Objects
  <2>17. CASE /\ o.exists /\ o.deleting = s.deleting
              /\ o.finalizer = s.finalizer /\ o.hash = s.hash
    BY <2>4, <2>17
  <2>18. QED
    BY <2>14, <2>11, <2>12, <2>13, <2>15, <2>16, <2>17
<1>8. QED
  BY <1>5, <1>6, <1>7

LEMMA StepOfEnvironments ==
  ASSUME OperatorInv, [Next]_vars
  PROVE  [E!Next]_(E!vars)
<1>1. CASE InstanceWorker
  BY <1>1, InstanceWorkerEnvironments
<1>2. CASE EnvironmentWorker
  BY <1>2 DEF EnvironmentWorker, EnvironmentWorkerAlone, SaveNewInstance, SaveInstanceAgain,
              DeleteInstance, E!Next, E!WorkerStep, E!Saving, E!Deleting
<1>3. ASSUME NEW r \in Refs, ReconcileInstance(r) \/ ClusterStep(r)
      PROVE  [E!Next]_(E!vars)
  <2>1. UNCHANGED <<peVars, pei, peiCache, peiFresh, label, labelCache, crashes>>
    BY <1>3 DEF ReconcileInstance, ClusterStep, I!Reconcile, I!Resync, I!JobSucceeds, I!JobFails,
                I!JobExpires, I!store, I!faults, labels
  <2>2. QED
    BY <2>1, EnvironmentsAlone
<1>4. ASSUME NEW r \in Refs, InstanceSync(r)
      PROVE  [E!Next]_(E!vars)
  BY <1>4 DEF InstanceSync, E!Next, E!SyncStep
<1>5. ASSUME NEW e \in Environments,
             ReconcileEnvironment(e) \/ EnvironmentSync(e) \/ EnvironmentResync(e)
      PROVE  [E!Next]_(E!vars)
  BY <1>5 DEF ReconcileEnvironment, EnvironmentSync, EnvironmentResync, E!Next, E!SyncStep
<1>6. CASE UserStep
  <2>1. CASE UNCHANGED <<peiVars, labels>> /\ E!UserStep
    BY <2>1 DEF E!Next
  <2>2. ASSUME NEW r \in Refs, NEW c \in Commits, I!Push(r, c),
               UNCHANGED <<peVars, labels>>
        PROVE  [E!Next]_(E!vars)
    <3>1. UNCHANGED <<peVars, pei, peiCache, peiFresh, label, labelCache, crashes>>
      BY <2>2 DEF I!Push, I!store, I!faults, labels
    <3>2. QED
      BY <3>1, EnvironmentsAlone
  <2>3. QED
    BY <1>6, <2>1, <2>2 DEF UserStep
<1>7. CASE Crash
  BY <1>7 DEF Crash, E!Next
<1>8. CASE UNCHANGED vars
  BY <1>8, EnvironmentsAlone DEF vars, peiVars, peiStore, labels
<1>9. QED
  BY <1>1, <1>2, <1>3, <1>4, <1>5, <1>6, <1>7, <1>8 DEF Next, SystemStep

LEMMA LabelsNext ==
  ASSUME G!BaseInv, LabelInv, [Next]_vars
  PROVE  LabelInv'
<1>1. pei \in [Refs -> G!Objects]
  BY DEF G!BaseInv, G!TypeOK
<1>2. CASE LabelsFollow
  BY <1>2 DEF LabelsFollow, LabelInv
<1>3. CASE UNCHANGED <<pei, label>>
  BY <1>3 DEF LabelInv
<1>4. ASSUME NEW r \in Refs, SaveNewInstance(r)
      PROVE  LabelInv'
  <2>1. /\ pei' = [pei EXCEPT ![r] = I!NewInstance] /\ I!NewInstance.exists
        /\ label' = [label EXCEPT ![r] = peObj.uid]
    BY <1>4 DEF SaveNewInstance, I!OtherWrites, I!Write, I!NewInstance
  <2>2. QED
    BY <1>1, <2>1 DEF LabelInv
<1>5. ASSUME NEW r \in Refs, SaveInstanceAgain(r)
      PROVE  LabelInv'
  <2>1. pei' = [pei EXCEPT ![r] = [pei[r] EXCEPT !.hash = NoCommit]] /\ label' = label
    BY <1>5 DEF SaveInstanceAgain, I!OtherWrites, I!Write, labels
  <2>2. pei'[r].exists = pei[r].exists
    BY <1>1, <2>1 DEF G!Objects
  <2>3. QED
    BY <1>1, <2>1, <2>2 DEF LabelInv
<1>6. CASE EnvironmentWorker
  BY <1>2, <1>3, <1>4, <1>5, <1>6
     DEF EnvironmentWorker, EnvironmentWorkerAlone, DeleteInstance, peiVars, peiStore, labels
<1>7. ASSUME NEW r \in Refs, ReconcileInstance(r) \/ ClusterStep(r) \/ InstanceSync(r)
      PROVE  UNCHANGED <<pei, label>>
  BY <1>7 DEF ReconcileInstance, ClusterStep, InstanceSync, I!Reconcile, I!Resync, I!JobSucceeds,
              I!JobFails, I!JobExpires, I!CacheSync, I!store, labels
<1>8. CASE UserStep \/ Crash \/ UNCHANGED vars
  BY <1>3, <1>8 DEF UserStep, Crash, vars, I!Push, I!Crash, I!store, peiVars, peiStore, labels
<1>9. ASSUME NEW e \in Environments,
             ReconcileEnvironment(e) \/ EnvironmentSync(e) \/ EnvironmentResync(e)
      PROVE  UNCHANGED <<pei, label>>
  BY <1>9 DEF ReconcileEnvironment, EnvironmentSync, EnvironmentResync, peiVars, peiStore, labels
<1>10. CASE InstanceWorker
  BY <1>2, <1>10 DEF InstanceWorker
<1>11. QED
  BY <1>3, <1>6, <1>7, <1>8, <1>9, <1>10 DEF Next, SystemStep

LEMMA OperatorInvariant == Spec => []OperatorInv
<1>1. Init => OperatorInv
  <2>1. Init => G!Init /\ LabelInv
    BY SameInit DEF Init, LabelInv
  <2>2. QED
    BY <2>1, G!BaseInit, G!CopyInit, InstancesAssumption, BoundsAssumption DEF OperatorInv
<1>2. ASSUME OperatorInv, [Next]_vars PROVE OperatorInv'
  <2>1. [G!Next]_(G!vars)
    BY <1>2, StepOfInstances, SameNext, SameVars
       DEF OperatorInv, I!vars, G!vars, I!store, G!store, I!worker, G!worker,
           I!github, G!github, I!cluster, G!cluster, I!faults, G!faults
  <2>2. QED
    BY <1>2, <2>1, LabelsNext, G!BaseNext, G!CopyNext, InstancesAssumption, BoundsAssumption
       DEF OperatorInv
<1>3. QED
  BY <1>1, <1>2, PTL DEF Spec

\* Every behavior of the operator is one of EnvironmentReconciler.
THEOREM OperatorRunsEnvironments == Spec => EnvironmentsAsModelled
<1>1. Init => E!Init
  BY DEF Init
<1>2. OperatorInv /\ [Next]_vars => [E!Next]_(E!vars)
  BY StepOfEnvironments
<1>3. QED
  BY <1>1, <1>2, OperatorInvariant, PTL DEF Spec, EnvironmentsAsModelled, E!Spec
-----------------------------------------------------------------------------
(* What is proved of environments holds in the operator *)

LEMMA SamePage == \A S : E!Page(S) = H!Page(S)
BY DEF E!Page, H!Page, E!Cardinality, H!Cardinality

LEMMA SameEnvironmentSpec == E!Spec => H!Spec
<1>1. E!Init => H!Init
  BY DEF E!Init, H!Init, E!NoEnvironment, H!NoEnvironment, E!NoInstance, H!NoInstance,
     E!Idle, H!Idle
<1>2. E!Next => H!Next
  <2>1. \A e \in Environments : E!Reconcile(e) => H!Reconcile(e)
    BY DEF E!Reconcile, H!Reconcile, E!lists, H!lists, E!worker, H!worker,
       E!environments, H!environments, E!instances, H!instances, E!outside, H!outside,
       E!faults, H!faults
  <2>2. E!AddFinalizer => H!AddFinalizer
    BY DEF E!AddFinalizer, H!AddFinalizer, E!Succeeds, H!Succeeds,
       E!StoreEnvironment, H!StoreEnvironment, E!Goto, H!Goto, E!lists, H!lists,
       E!UpdateFails, H!UpdateFails, E!instances, H!instances, E!outside, H!outside,
       E!environments, H!environments, E!ApiError, H!ApiError, E!Requeue, H!Requeue,
       E!Drop, H!Drop, E!NoEnvironment, H!NoEnvironment
  <2>3. E!DetectPullRequests => H!DetectPullRequests
    <3>1. E!OpenPullRequests(peKey) = H!OpenPullRequests(peKey)
      BY SamePage DEF E!OpenPullRequests, H!OpenPullRequests
    <3>2. QED
      BY <3>1 DEF E!DetectPullRequests, H!DetectPullRequests, E!Detect, H!Detect, E!DetectionFails, H!DetectionFails,
         E!environments, H!environments, E!instances, H!instances, E!outside, H!outside,
         E!Succeeds, H!Succeeds, E!ApiError, H!ApiError, E!Goto, H!Goto, E!Return, H!Return,
         E!Requeue, H!Requeue, E!Drop, H!Drop, E!NoEnvironment, H!NoEnvironment
  <2>4. E!DetectBranches => H!DetectBranches
    <3>1. E!OpenBranches(peKey) = H!OpenBranches(peKey)
      BY SamePage DEF E!OpenBranches, H!OpenBranches
    <3>2. QED
      BY <3>1 DEF E!DetectBranches, H!DetectBranches, E!Detect, H!Detect, E!DetectionFails, H!DetectionFails,
         E!environments, H!environments, E!instances, H!instances, E!outside, H!outside,
         E!Succeeds, H!Succeeds, E!ApiError, H!ApiError, E!Goto, H!Goto, E!Return, H!Return,
         E!Requeue, H!Requeue, E!Drop, H!Drop, E!NoEnvironment, H!NoEnvironment
  <2>5. E!ListInstances => H!ListInstances
    BY DEF E!ListInstances, H!ListInstances, E!Goto, H!Goto, E!environments, H!environments,
       E!instances, H!instances, E!outside, H!outside, E!faults, H!faults
  <2>6. E!RemoveFinalizer => H!RemoveFinalizer
    BY DEF E!RemoveFinalizer, H!RemoveFinalizer, E!Succeeds, H!Succeeds,
       E!StoreEnvironment, H!StoreEnvironment, E!NoEnvironment, H!NoEnvironment,
       E!Return, H!Return, E!UpdateFails, H!UpdateFails, E!instances, H!instances,
       E!outside, H!outside, E!Drop, H!Drop, E!environments, H!environments,
       E!ApiError, H!ApiError, E!Requeue, H!Requeue
  <2>7. E!UserStep => H!UserStep
    BY DEF E!UserStep, H!UserStep, E!PostEnvironment, H!PostEnvironment,
       E!DeleteEnvironment, H!DeleteEnvironment, E!PatchEnvironment, H!PatchEnvironment,
       E!OpenOrClose, H!OpenOrClose, E!OthersStore, H!OthersStore,
       E!NoEnvironment, H!NoEnvironment, E!instances, H!instances, E!outside, H!outside,
       E!lists, H!lists, E!faults, H!faults, E!environments, H!environments,
       E!worker, H!worker, E!StoreEnvironment, H!StoreEnvironment
  <2>8. E!InstanceStep => H!InstanceStep
    BY DEF E!InstanceStep, H!InstanceStep, E!InstanceFinalizer, H!InstanceFinalizer,
       E!InstanceHash, H!InstanceHash, E!InstanceRemoved, H!InstanceRemoved,
       E!InstanceStatus, H!InstanceStatus, E!InstanceWrite, H!InstanceWrite,
       E!NoInstance, H!NoInstance, E!environments, H!environments, E!outside, H!outside,
       E!worker, H!worker, E!faults, H!faults, E!StoreInstance, H!StoreInstance,
       E!lists, H!lists
  <2>9. E!SyncStep => H!SyncStep
    BY DEF E!SyncStep, H!SyncStep, E!EnvironmentSync, H!EnvironmentSync, E!Resync, H!Resync,
       E!InstanceSync, H!InstanceSync, E!instances, H!instances, E!outside, H!outside,
       E!worker, H!worker, E!faults, H!faults, E!environments, H!environments,
       E!lists, H!lists
  <2>10. E!Crash => H!Crash
    BY DEF E!Crash, H!Crash, E!Drop, H!Drop, E!outside, H!outside,
       E!NoEnvironment, H!NoEnvironment
  <2>11. \A r \in Refs : E!UpdateInstance(r) => H!UpdateInstance(r)
    BY DEF E!UpdateInstance, H!UpdateInstance, E!SaveInstance, H!SaveInstance,
       E!SavedNext, H!SavedNext, E!Succeeds, H!Succeeds, E!StoreInstance, H!StoreInstance,
       E!Saved, H!Saved, E!instances, H!instances, E!Requeue, H!Requeue,
       E!ApiError, H!ApiError, E!environments, H!environments, E!outside, H!outside,
       E!Before, H!Before, E!Return, H!Return, E!Goto, H!Goto, E!Drop, H!Drop,
       E!NoEnvironment, H!NoEnvironment
  <2>12. \A r \in Refs : E!CreateInstance(r) => H!CreateInstance(r)
    BY DEF E!CreateInstance, H!CreateInstance, E!SaveInstance, H!SaveInstance,
       E!NoInstance, H!NoInstance, E!SavedNext, H!SavedNext, E!Succeeds, H!Succeeds,
       E!StoreInstance, H!StoreInstance, E!Saved, H!Saved, E!instances, H!instances,
       E!Requeue, H!Requeue, E!ApiError, H!ApiError, E!environments, H!environments,
       E!outside, H!outside, E!Before, H!Before, E!Return, H!Return, E!Goto, H!Goto,
       E!Drop, H!Drop, E!NoEnvironment, H!NoEnvironment
  <2>13. \A r \in Refs : E!DeleteInstance(r) => H!DeleteInstance(r)
    BY DEF E!DeleteInstance, H!DeleteInstance, E!Succeeds, H!Succeeds,
       E!StoreInstance, H!StoreInstance, E!Deleted, H!Deleted,
       E!DeletedNext, H!DeletedNext, E!instances, H!instances, E!Requeue, H!Requeue,
       E!ApiError, H!ApiError, E!environments, H!environments, E!outside, H!outside,
       E!NoInstance, H!NoInstance, E!Goto, H!Goto, E!Drop, H!Drop,
       E!NoEnvironment, H!NoEnvironment
  <2> QED
    BY <2>1, <2>2, <2>3, <2>4, <2>5, <2>6, <2>7, <2>8, <2>9, <2>10, <2>11, <2>12, <2>13
       DEF E!Next, H!Next, E!WorkerStep, H!WorkerStep, E!Saving, H!Saving,
       E!Deleting, H!Deleting
<1>3. E!vars = H!vars
  BY DEF E!vars, H!vars, E!environments, H!environments, E!instances, H!instances,
     E!outside, H!outside, E!worker, H!worker, E!lists, H!lists, E!faults, H!faults
<1>4. [E!Next]_(E!vars) => [H!Next]_(H!vars)
  BY <1>2, <1>3 DEF E!vars, H!vars, E!environments, H!environments, E!instances, H!instances,
     E!outside, H!outside, E!worker, H!worker, E!lists, H!lists, E!faults, H!faults
<1>5. QED
  BY <1>1, <1>4, PTL DEF E!Spec, H!Spec

\* With the instance controller at work on the same objects: instances are created only
\* under a finalizer, and an environment goes behind the instances that were listed.
THEOREM EnvironmentsAreSafe == Spec => E!CreatedUnderFinalizer /\ E!ListedAreDeletedFirst
<1>1. H!Spec => H!CreatedUnderFinalizer
  BY H!InstancesAreCreatedGuarded, InstancesAssumption, EnvironmentsAssumption, BoundsAssumption
<1>2. H!Spec => H!ListedAreDeletedFirst
  BY H!ListedInstancesGoFirst, InstancesAssumption, EnvironmentsAssumption, BoundsAssumption
<1>3. H!CreatedUnderFinalizer => E!CreatedUnderFinalizer
  BY PTL DEF H!CreatedUnderFinalizer, E!CreatedUnderFinalizer,
     E!vars, H!vars, E!environments, H!environments, E!instances, H!instances,
     E!outside, H!outside, E!worker, H!worker, E!lists, H!lists, E!faults, H!faults
<1>4. H!ListedAreDeletedFirst => E!ListedAreDeletedFirst
  BY PTL DEF H!ListedAreDeletedFirst, E!ListedAreDeletedFirst,
     E!vars, H!vars, E!environments, H!environments, E!instances, H!instances,
     E!outside, H!outside, E!worker, H!worker, E!lists, H!lists, E!faults, H!faults
<1>5. QED
  BY <1>1, <1>2, <1>3, <1>4, OperatorRunsEnvironments, SameEnvironmentSpec, PTL
     DEF EnvironmentsAsModelled
=============================================================================
