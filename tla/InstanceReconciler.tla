------------------------- MODULE InstanceReconciler -------------------------
(***************************************************************************)
(* The controller that owns PreviewEnvironmentInstance objects (PEIs): it  *)
(* builds a container image for the head commit of a pull request, deploys *)
(* it behind an authentication proxy, posts the URL to the pull request,   *)
(* and removes everything again when the instance is deleted.              *)
(*                                                                         *)
(* Source: internal/controller/previewenvironmentinstance_*.go and         *)
(* internal/git/git_response.go.                                           *)
(*                                                                         *)
(* The manager runs one worker for this controller.  A call of Reconcile   *)
(* is a sequence of API calls, and every API call is one action here: the  *)
(* environment (users, the other controller, GitHub, the job controller, a *)
(* crash of the manager) may act between any two of them.                  *)
(*   - Reads of PEIs go to the informer's cache, which lags behind the API *)
(*     server; writes carry the resourceVersion that was read and are      *)
(*     refused when the object has changed since (optimistic locking).     *)
(*   - An API call may fail, with or without having taken effect.          *)
(***************************************************************************)
EXTENDS Naturals, Sequences, FiniteSets

CONSTANTS
  Instances,      \* names of PreviewEnvironmentInstances
  PullRequests,   \* those that stand for a pull request; the rest are branches
  Commits,        \* commit hashes
  NoCommit,       \* the empty commit hash "", and the absence of an object
  NoKey,          \* the worker is not processing any request
  KeepBuilt,      \* how many built versions are remembered (10 in the code)
  Lookups,        \* possible outcomes of loadPreviewEnvironmentForInstance
  MaxApiErrors,   \* bound on failing API calls
  MaxCrashes      \* bound on restarts of the manager

ASSUME PullRequestsAssumption == PullRequests \subseteq Instances
ASSUME NoCommitAssumption     == NoCommit \notin Commits
ASSUME NoKeyAssumption        == NoKey \notin Instances
ASSUME KeepBuiltAssumption    == KeepBuilt \in Nat \ {0}
ASSUME LookupsAssumption      == Lookups \subseteq BOOLEAN
ASSUME BoundsAssumption       == MaxApiErrors \in Nat /\ MaxCrashes \in Nat

VARIABLES
  pei,        \* the objects as the API server holds them
  cache,      \* the objects as the informer's cache holds them
  fresh,      \* fresh[i]: cache[i] has the current resourceVersion
  queue,      \* the controller's work queue
  pc,         \* the API call the worker makes next
  key,        \* the request the worker processes
  obj,        \* the worker's in-memory copy of the object
  cur,        \* obj still carries the current resourceVersion
  head,       \* head[i]: head commit of the pull request or branch
  comments,   \* comments[i][u]: comments on the pull request naming URL u
  job,        \* the kaniko job that builds the image of an instance
  registry,   \* registry[i][c]: the commit the image tagged c was built from
  res,        \* res[i][k]: the commit resource k was last applied for
  apiErrors,  \* API calls that have failed so far
  crashes     \* restarts so far

store   == <<pei, cache, fresh>>
worker  == <<pc, key, obj, cur>>
github  == <<head, comments>>
cluster == <<job, registry, res>>
faults  == <<apiErrors, crashes>>
vars    == <<store, queue, worker, github, cluster, faults>>

-----------------------------------------------------------------------------
(* Objects and their initial values *)

Revisions == Commits \cup {NoCommit}

Phases == {"", "pending", "building", "deploying", "running", "failed"}

\* The Kubernetes resources of an instance.  The auth proxy is the oauth2
\* proxy in front of it; service and authService do not mention a commit.
MainKinds == {"deployment", "service", "ingress"}
AuthKinds == {"authDeployment", "authService", "authIngress"}
Kinds     == MainKinds \cup AuthKinds

DeleteSteps == {"delDeployment", "delService", "delAuthDeployment",
                "delAuthService", "delAuthIngress", "delIngress",
                "removeFinalizer"}
BuildSteps  == {"markBuilding", "cleanJob", "createJob", "waitJob"}
DeploySteps == {"auth", "deployment", "service", "authDeployment",
                "authService", "authIngress", "ingress", "setUrl"}
OtherSteps  == {"idle", "addFinalizer", "load", "markDeploying", "redeploy",
                "comment", "post", "markRunning", "markFailed", "latest",
                "updateHash", "markPending"}
Steps == DeleteSteps \cup BuildSteps \cup DeploySteps \cup OtherSteps

\* at most KeepBuilt versions are remembered
BuiltVersions == {s \in Seq(Commits) : Len(s) <= KeepBuilt}

Statuses == [phase : Phases, built : BuiltVersions, url : Revisions]

Objects == [exists : BOOLEAN, deleting : BOOLEAN, finalizer : BOOLEAN,
            hash : Revisions, status : Statuses]

Jobs == [state : {"none", "active", "succeeded", "failed"}, tag : Revisions]

\* status is a subresource: Create and Update ignore what the caller put there
Absent == [exists |-> FALSE, deleting |-> FALSE, finalizer |-> FALSE,
           hash |-> NoCommit,
           status |-> [phase |-> "", built |-> <<>>, url |-> NoCommit]]

\* createInstanceFromEnvironment as the API server stores it
NewInstance == [Absent EXCEPT !.exists = TRUE]

NoJob == [state |-> "none", tag |-> NoCommit]

Init ==
  /\ pei = [i \in Instances |-> Absent]
  /\ cache = pei
  /\ fresh = [i \in Instances |-> TRUE]
  /\ queue = {}
  /\ pc = "idle" /\ key = NoKey /\ obj = Absent /\ cur = FALSE
  /\ head \in [Instances -> Commits]
  /\ comments = [i \in Instances |-> [u \in Revisions |-> 0]]
  /\ job = [i \in Instances |-> NoJob]
  /\ registry = [i \in Instances |-> [c \in Commits |-> NoCommit]]
  /\ res = [i \in Instances |-> [k \in Kinds |-> NoCommit]]
  /\ apiErrors = 0 /\ crashes = 0

-----------------------------------------------------------------------------
(* What the API server and the work queue do for the controllers *)

\* Version o of object i is stored; an identical version changes nothing, not
\* even the resourceVersion.
Write(i, o) ==
  /\ pei' = [pei EXCEPT ![i] = o]
  /\ fresh' = [fresh EXCEPT ![i] = fresh[i] /\ o = pei[i]]
  /\ UNCHANGED cache

\* Someone other than the worker writes: the worker's copy may become stale.
OtherWrites(i, o) ==
  /\ Write(i, o)
  /\ cur' = (cur /\ (key # i \/ o = pei[i]))
  /\ UNCHANGED <<queue, pc, key, obj, github, cluster, faults>>

\* Reconcile goes on with the next API call, or returns: "done" is an empty
\* result, "requeue" an error or a RequeueAfter.
Goto(step, o, c) ==
  IF step \in {"done", "requeue"}
    THEN /\ pc' = "idle" /\ key' = NoKey /\ obj' = Absent /\ cur' = FALSE
         /\ queue' = IF step = "requeue" THEN queue \cup {key} ELSE queue
    ELSE /\ pc' = step /\ obj' = o /\ cur' = c
         /\ UNCHANGED <<key, queue>>

Succeeds == UNCHANGED apiErrors

ApiError == apiErrors < MaxApiErrors /\ apiErrors' = apiErrors + 1

\* Mutant: the resourceVersion is not sent along
PutUnconditionally(o, new, ok, err) ==
  Succeeds /\ Write(key, new) /\ Goto(ok, new, TRUE)

\* A write of the worker's copy o that would store version new.  A failing
\* call may still have taken effect, and then the copy is out of date.
Put(o, new, ok, err) ==
  \/ cur /\ Succeeds /\ Write(key, new) /\ Goto(ok, new, TRUE)
  \/ ~cur /\ Succeeds /\ Goto(err, o, FALSE) /\ UNCHANGED store
  \/ ApiError /\ Goto(err, o, cur) /\ UNCHANGED store
  \/ cur /\ ApiError /\ Write(key, new) /\ Goto(err, o, new = pei[key])

\* client.Update: metadata and spec; the object goes when it is being deleted
\* and its last finalizer is removed.
Update(o, ok, err) ==
  Put(o, IF o.deleting /\ ~o.finalizer
           THEN Absent ELSE [o EXCEPT !.status = pei[key].status], ok, err)

\* client.Status().Update
StatusUpdate(o, ok, err) ==
  Put(o, [pei[key] EXCEPT !.status = o.status], ok, err)

InPhase(p) == [obj EXCEPT !.status.phase = p]

\* Get, then Update or Create, of one resource
Apply(kind, ok, err) ==
  LET applied == [res EXCEPT ![key][kind] = obj.hash] IN
  /\ \/ Succeeds /\ res' = applied /\ Goto(ok, obj, cur)
     \/ ApiError /\ res' \in {res, applied} /\ Goto(err, obj, cur)
  /\ UNCHANGED <<store, github, job, registry, crashes>>

\* Delete of one resource; that it does not exist is an error to the caller
DeleteResource(kind, ok, err) ==
  LET deleted == [res EXCEPT ![key][kind] = NoCommit] IN
  /\ \/ /\ Succeeds /\ res' = deleted
        /\ Goto(IF res[key][kind] = NoCommit THEN err ELSE ok, obj, cur)
     \/ ApiError /\ res' \in {res, deleted} /\ Goto(err, obj, cur)
  /\ UNCHANGED <<store, github, job, registry, crashes>>

-----------------------------------------------------------------------------
(* Reconcile: load, deletion, finalizer *)

\* Mutant: the finalizer is never added
ReconcileWithoutFinalizer(i) ==
  LET o == cache[i] IN
  /\ pc = "idle" /\ i \in queue
  /\ queue' = queue \ {i}
  /\ IF o.exists /\ (o.deleting => o.finalizer)
       THEN /\ key' = i /\ obj' = o /\ cur' = fresh[i]
            /\ pc' = IF o.deleting THEN "delDeployment" ELSE "load"
       ELSE UNCHANGED worker
  /\ UNCHANGED <<store, github, cluster, faults>>

\* Reconcile up to its first API call: the object is read from the cache
Reconcile(i) ==
  LET o == cache[i] IN
  /\ pc = "idle" /\ i \in queue
  /\ queue' = queue \ {i}
  /\ IF o.exists /\ (o.deleting => o.finalizer)
       THEN /\ key' = i /\ obj' = o /\ cur' = fresh[i]
            /\ pc' = IF o.deleting THEN "delDeployment"
                     ELSE IF o.finalizer THEN "load" ELSE "addFinalizer"
       ELSE UNCHANGED worker
  /\ UNCHANGED <<store, github, cluster, faults>>

AddFinalizer ==
  /\ pc = "addFinalizer"
  /\ Update([obj EXCEPT !.finalizer = TRUE], "load", "requeue")
  /\ UNCHANGED <<github, cluster, crashes>>

\* Mutant: the rest is given up when there is nothing to delete
DeleteKubernetesDeploymentOrGiveUp ==
  pc = "delDeployment" /\ DeleteResource("deployment", "delService", "removeFinalizer")

\* deleteResourcesForPreviewEnvironmentInstance: every error is only logged
DeleteKubernetesDeployment ==
  pc = "delDeployment" /\ DeleteResource("deployment", "delService", "delService")

DeleteKubernetesService ==
  pc = "delService" /\ DeleteResource("service", "delAuthDeployment", "delAuthDeployment")

\* Mutant: the auth proxy's service and ingress are forgotten
DeleteAuthProxyDeploymentOnly ==
  pc = "delAuthDeployment" /\ DeleteResource("authDeployment", "delIngress", "delIngress")

\* Mutant: an error of the deletion is returned, and so retried
DeleteAuthProxyOrRetry ==
  pc = "delAuthDeployment" /\ DeleteResource("authDeployment", "delAuthService", "requeue")

\* deleteKubernetesAuthProxy gives up at its first error
DeleteAuthProxyDeployment ==
  pc = "delAuthDeployment" /\ DeleteResource("authDeployment", "delAuthService", "delIngress")

DeleteAuthProxyService ==
  pc = "delAuthService" /\ DeleteResource("authService", "delAuthIngress", "delIngress")

DeleteAuthProxyIngress ==
  pc = "delAuthIngress" /\ DeleteResource("authIngress", "delIngress", "delIngress")

DeleteKubernetesIngress ==
  pc = "delIngress" /\ DeleteResource("ingress", "removeFinalizer", "removeFinalizer")

RemoveFinalizer ==
  /\ pc = "removeFinalizer"
  /\ Update([obj EXCEPT !.finalizer = FALSE], "done", "requeue")
  /\ UNCHANGED <<github, cluster, crashes>>

-----------------------------------------------------------------------------
(* Reconcile: dispatch on the phase *)

\* Mutant: the built versions are not consulted
RebuildAlways(o) == IF o.hash = NoCommit THEN "markDeploying" ELSE "markBuilding"

\* Mutant: only the newest built version is consulted
RebuildUnlessNewest(o) ==
  IF \/ o.hash = NoCommit
     \/ o.status.built # <<>> /\ o.status.built[Len(o.status.built)] = o.hash
    THEN "markDeploying" ELSE "markBuilding"

\* rebuildInstance builds only a known commit that was not built before
RebuildInstance(o) ==
  IF o.hash = NoCommit \/ \E j \in DOMAIN o.status.built : o.status.built[j] = o.hash
    THEN "markDeploying" ELSE "markBuilding"

\* redeployInstance skips the deployment when the commit is unknown
RedeployInstance(o) == IF o.hash = NoCommit THEN "comment" ELSE "redeploy"

\* loadPreviewEnvironmentForInstance finds the environment in the cache or not
LoadPreviewEnvironment(found) ==
  /\ pc = "load"
  /\ Goto(CASE ~found -> "requeue"
            [] found /\ obj.status.phase = "pending" -> RebuildInstance(obj)
            [] found /\ obj.status.phase = "deploying" -> RedeployInstance(obj)
            [] OTHER -> "latest", obj, cur)
  /\ UNCHANGED <<store, github, cluster, faults>>

\* latestCommitHashForPei is not implemented for branches
LatestCommitHash ==
  /\ pc = "latest"
  /\ \/ key \notin PullRequests /\ Succeeds /\ Goto("requeue", obj, cur)
     \/ /\ key \in PullRequests /\ Succeeds
        /\ Goto(IF head[key] = obj.hash THEN "done" ELSE "updateHash",
                [obj EXCEPT !.hash = head[key]], cur)
     \/ key \in PullRequests /\ ApiError /\ Goto("requeue", obj, cur)
  /\ UNCHANGED <<store, github, cluster, crashes>>

UpdateHash ==
  /\ pc = "updateHash"
  /\ Update(obj, "markPending", "requeue")
  /\ UNCHANGED <<github, cluster, crashes>>

MarkPending ==
  /\ pc = "markPending"
  /\ StatusUpdate(InPhase("pending"), "done", "requeue")
  /\ UNCHANGED <<github, cluster, crashes>>

MarkFailed ==
  /\ pc = "markFailed"
  /\ StatusUpdate(InPhase("failed"), "requeue", "requeue")
  /\ UNCHANGED <<github, cluster, crashes>>

-----------------------------------------------------------------------------
(* Build: rebuildInstance, buildContainerImage, buildAndWaitForContainerImage *)

MarkBuilding ==
  /\ pc = "markBuilding"
  /\ StatusUpdate(InPhase("building"), "cleanJob", "markFailed")
  /\ UNCHANGED <<github, cluster, crashes>>

\* A job of this name that is still there is deleted first; an error of the
\* Get counts as "not there".
CleanJob ==
  LET cleaned == [job EXCEPT ![key] = NoJob] IN
  /\ pc = "cleanJob"
  /\ \/ Succeeds /\ job' = cleaned /\ Goto("createJob", obj, cur)
     \/ ApiError /\ UNCHANGED job /\ Goto("createJob", obj, cur)
     \/ ApiError /\ job' \in {job, cleaned} /\ Goto("markFailed", obj, cur)
  /\ UNCHANGED <<store, github, registry, res, crashes>>

\* Mutant: a job that already exists is waited for
CreateOrAdoptJob ==
  LET created == [job EXCEPT ![key] = [state |-> "active", tag |-> obj.hash]] IN
  /\ pc = "createJob" /\ Succeeds
  /\ job' = IF job[key] = NoJob THEN created ELSE job
  /\ Goto("waitJob", obj, cur)
  /\ UNCHANGED <<store, github, registry, res, crashes>>

CreateJob ==
  LET created == [job EXCEPT ![key] = [state |-> "active", tag |-> obj.hash]] IN
  /\ pc = "createJob"
  /\ \/ /\ job[key] = NoJob /\ Succeeds
        /\ job' = created /\ Goto("waitJob", obj, cur)
     \/ /\ job[key] # NoJob /\ Succeeds
        /\ UNCHANGED job /\ Goto("markFailed", obj, cur)
     \/ /\ job[key] = NoJob /\ ApiError
        /\ job' \in {job, created} /\ Goto("markFailed", obj, cur)
  /\ UNCHANGED <<store, github, registry, res, crashes>>

\* Mutant: the loop drops one version too few
UpdateBuiltVersionsOffByOne(versions, hash, keep) ==
  LET all == Append(versions, hash)
  IN  IF Len(all) > keep + 1 THEN SubSeq(all, Len(all) - keep, Len(all)) ELSE all

\* updateBuiltVersions: newest last, at most keep of them
UpdateBuiltVersions(versions, hash, keep) ==
  LET all == Append(versions, hash)
  IN  IF Len(all) > keep THEN SubSeq(all, Len(all) - keep + 1, Len(all)) ELSE all

\* Mutant: a job that is no longer active counts as succeeded
WaitJobFinished ==
  /\ pc = "waitJob" /\ job[key].state # "active" /\ Succeeds
  /\ Goto("markDeploying",
          [obj EXCEPT !.status.built = UpdateBuiltVersions(@, obj.hash, KeepBuilt)], cur)
  /\ UNCHANGED <<store, github, cluster, crashes>>

\* Mutant: the loop only looks for success
WaitJobSucceeded ==
  /\ pc = "waitJob" /\ job[key].state = "succeeded" /\ Succeeds
  /\ Goto("markDeploying",
          [obj EXCEPT !.status.built = UpdateBuiltVersions(@, obj.hash, KeepBuilt)], cur)
  /\ UNCHANGED <<store, github, cluster, crashes>>

\* The polling loop.  Its timeout needs counter > 1800, and counter stays 0.
\* The built version is only in memory until markDeploying stores it.
WaitJob ==
  /\ pc = "waitJob"
  /\ \/ /\ job[key].state = "succeeded" /\ Succeeds
        /\ Goto("markDeploying",
                [obj EXCEPT !.status.built = UpdateBuiltVersions(@, obj.hash, KeepBuilt)], cur)
     \/ job[key].state \in {"failed", "none"} /\ Succeeds /\ Goto("markFailed", obj, cur)
     \/ ApiError /\ Goto("markFailed", obj, cur)
  /\ UNCHANGED <<store, github, cluster, crashes>>

MarkDeploying ==
  /\ pc = "markDeploying"
  /\ StatusUpdate(InPhase("deploying"), "done", "requeue")
  /\ UNCHANGED <<github, cluster, crashes>>

-----------------------------------------------------------------------------
(* Deployment: redeployInstance, deployEnvironmentInstance *)

MarkRedeploying ==
  /\ pc = "redeploy"
  /\ StatusUpdate(InPhase("deploying"), "auth", "markFailed")
  /\ UNCHANGED <<github, cluster, crashes>>

\* setupAuthenticationForInstance; Keycloak's groups are those of AccessControl.
\* A failing login to Keycloak panics, which the controller's runtime recovers.
SetupAuthentication ==
  /\ pc = "auth"
  /\ \/ Succeeds /\ Goto("deployment", obj, cur)
     \/ ApiError /\ Goto("markFailed", obj, cur)
     \/ ApiError /\ Goto("requeue", obj, cur)
  /\ UNCHANGED <<store, github, cluster, crashes>>

DeployKubernetesDeployment ==
  pc = "deployment" /\ Apply("deployment", "service", "markFailed")

\* Mutant: the auth proxy is not deployed
DeployServiceThenIngress ==
  pc = "service" /\ Apply("service", "ingress", "markFailed")

DeployKubernetesService ==
  pc = "service" /\ Apply("service", "authDeployment", "markFailed")

\* deployAuthenticationProxy: an error ends it and is only logged
DeployAuthProxyDeployment ==
  pc = "authDeployment" /\ Apply("authDeployment", "authService", "ingress")

DeployAuthProxyService ==
  pc = "authService" /\ Apply("authService", "authIngress", "ingress")

DeployAuthProxyIngress ==
  pc = "authIngress" /\ Apply("authIngress", "ingress", "ingress")

DeployKubernetesIngress ==
  pc = "ingress" /\ Apply("ingress", "setUrl", "markFailed")

\* The URL ends in the commit hash (PreviewEnvironmentHttpPath)
SetPublicFacingUrl ==
  /\ pc = "setUrl"
  /\ StatusUpdate([obj EXCEPT !.status.url = obj.hash], "comment", "markFailed")
  /\ UNCHANGED <<github, cluster, crashes>>

-----------------------------------------------------------------------------
(* UpdatePullRequestAnswer *)

\* Mutant: an old message is posted again without deleting it
RepostOldMessage ==
  LET n == comments[key][obj.status.url] IN
  /\ pc = "comment" /\ Succeeds
  /\ \/ n > 0 /\ Goto("markRunning", obj, cur)
     \/ Goto("post", obj, cur)
  /\ UNCHANGED <<store, github, cluster, crashes>>

\* pullRequestAlreadyHasMessage: a message older than a day is deleted and
\* posted again; when the list or the deletion fails it is posted again too.
PullRequestAlreadyHasMessage ==
  LET n == comments[key][obj.status.url]
      removed == [comments EXCEPT ![key][obj.status.url] = n - 1] IN
  /\ pc = "comment"
  /\ \/ n > 0 /\ Succeeds /\ UNCHANGED comments /\ Goto("markRunning", obj, cur)
     \/ n > 0 /\ Succeeds /\ comments' = removed /\ Goto("post", obj, cur)
     \/ n = 0 /\ Succeeds /\ UNCHANGED comments /\ Goto("post", obj, cur)
     \/ ApiError /\ UNCHANGED comments /\ Goto("post", obj, cur)
     \/ n > 0 /\ ApiError /\ comments' = removed /\ Goto("post", obj, cur)
  /\ UNCHANGED <<store, cluster, head, crashes>>

PostMessageToPr ==
  LET posted == [comments EXCEPT ![key][obj.status.url] = @ + 1] IN
  /\ pc = "post"
  /\ \/ Succeeds /\ comments' = posted /\ Goto("markRunning", obj, cur)
     \/ ApiError /\ comments' \in {comments, posted} /\ Goto("markFailed", obj, cur)
  /\ UNCHANGED <<store, cluster, head, crashes>>

MarkRunning ==
  /\ pc = "markRunning"
  /\ StatusUpdate(InPhase("running"), "done", "requeue")
  /\ UNCHANGED <<github, cluster, crashes>>

-----------------------------------------------------------------------------
(* The environment of the worker *)

\* A watch event reaches the informer, which also enqueues the object.
CacheSync(i) ==
  /\ ~fresh[i]
  /\ cache' = [cache EXCEPT ![i] = pei[i]]
  /\ fresh' = [fresh EXCEPT ![i] = TRUE]
  /\ queue' = queue \cup {i}
  /\ UNCHANGED <<pei, worker, github, cluster, faults>>

\* The informer's periodic resync enqueues every cached object.
Resync(i) ==
  /\ cache[i].exists
  /\ queue' = queue \cup {i}
  /\ UNCHANGED <<store, worker, github, cluster, faults>>

\* The manager restarts: the worker and its copy are lost, the informer lists
\* the objects anew and enqueues them.
Crash ==
  /\ crashes < MaxCrashes /\ crashes' = crashes + 1
  /\ pc' = "idle" /\ key' = NoKey /\ obj' = Absent /\ cur' = FALSE
  /\ cache' = pei /\ fresh' = [i \in Instances |-> TRUE]
  /\ queue' = {i \in Instances : pei[i].exists}
  /\ UNCHANGED <<pei, github, cluster, apiErrors>>

\* savePreviewEnvironmentInstance of the other controller, which shares the
\* cache: it creates an instance it does not find ...
CreateInstance(i) ==
  /\ ~cache[i].exists /\ ~pei[i].exists
  /\ OtherWrites(i, NewInstance)

\* Mutant: the instance is overwritten without its resourceVersion
ResetUnconditionally(i) ==
  /\ cache[i].exists /\ pei[i].exists
  /\ OtherWrites(i, [cache[i] EXCEPT !.hash = NoCommit, !.status = pei[i].status])

\* ... and overwrites the spec of one it finds, with an empty commit hash.
ResetInstance(i) ==
  /\ cache[i].exists /\ fresh[i]
  /\ OtherWrites(i, [pei[i] EXCEPT !.hash = NoCommit])

\* Delete by the other controller or a user
DeleteInstance(i) ==
  /\ pei[i].exists
  /\ OtherWrites(i, IF pei[i].finalizer THEN [pei[i] EXCEPT !.deleting = TRUE] ELSE Absent)

Push(i, c) ==
  /\ c # head[i]
  /\ head' = [head EXCEPT ![i] = c]
  /\ UNCHANGED <<store, queue, worker, comments, cluster, faults>>

\* The job clones the head of the branch and pushes the image under its tag.
JobSucceeds(i) ==
  /\ job[i].state = "active"
  /\ job' = [job EXCEPT ![i].state = "succeeded"]
  /\ registry' = [registry EXCEPT ![i][job[i].tag] = head[i]]
  /\ UNCHANGED <<store, queue, worker, github, res, faults>>

JobFails(i) ==
  /\ job[i].state = "active"
  /\ job' = [job EXCEPT ![i].state = "failed"]
  /\ UNCHANGED <<store, queue, worker, github, registry, res, faults>>

\* TTLSecondsAfterFinished is 60 s; a worker that waits polls every second and
\* has seen the result by then.
JobExpires(i) ==
  /\ job[i].state \in {"succeeded", "failed"}
  /\ ~(pc = "waitJob" /\ key = i)
  /\ job' = [job EXCEPT ![i] = NoJob]
  /\ UNCHANGED <<store, queue, worker, github, registry, res, faults>>

-----------------------------------------------------------------------------
Deleting ==
  \/ DeleteKubernetesDeployment \/ DeleteKubernetesService
  \/ DeleteAuthProxyDeployment \/ DeleteAuthProxyService \/ DeleteAuthProxyIngress
  \/ DeleteKubernetesIngress \/ RemoveFinalizer

Dispatching ==
  \/ AddFinalizer \/ \E found \in Lookups : LoadPreviewEnvironment(found)
  \/ LatestCommitHash \/ UpdateHash \/ MarkPending \/ MarkFailed

Building == MarkBuilding \/ CleanJob \/ CreateJob \/ WaitJob \/ MarkDeploying

Deploying ==
  \/ MarkRedeploying \/ SetupAuthentication
  \/ DeployKubernetesDeployment \/ DeployKubernetesService
  \/ DeployAuthProxyDeployment \/ DeployAuthProxyService \/ DeployAuthProxyIngress
  \/ DeployKubernetesIngress \/ SetPublicFacingUrl
  \/ PullRequestAlreadyHasMessage \/ PostMessageToPr \/ MarkRunning

\* The API calls of a Reconcile in progress
WorkerStep == Deleting \/ Dispatching \/ Building \/ Deploying

\* Users, the other controller and GitHub
UserStep ==
  \E i \in Instances : \/ CreateInstance(i) \/ ResetInstance(i) \/ DeleteInstance(i)
                       \/ \E c \in Commits : Push(i, c)

ClusterStep ==
  \E i \in Instances : \/ CacheSync(i) \/ Resync(i)
                       \/ JobSucceeds(i) \/ JobFails(i) \/ JobExpires(i)

Next ==
  \/ \E i \in Instances : Reconcile(i)
  \/ WorkerStep \/ UserStep \/ ClusterStep \/ Crash

Spec == Init /\ [][Next]_vars

-----------------------------------------------------------------------------
(* Fairness *)

\* The worker's goroutine runs, watch events arrive, the resync timer fires.
\* The work queue is a FIFO, so a queued request is not overtaken for ever.
ControllerFairness ==
  /\ WF_vars(WorkerStep)
  /\ \A i \in Instances : /\ SF_vars(Reconcile(i))
                          /\ WF_vars(CacheSync(i))
                          /\ WF_vars(Resync(i))

\* The job controller ends every build.
JobFairness == \A i \in Instances : WF_vars(JobSucceeds(i) \/ JobFails(i))

FairSpec == Spec /\ ControllerFairness /\ JobFairness

-----------------------------------------------------------------------------
(* Properties *)

\* Type correctness of the state of API server, cache, worker and cluster.
TypeOK ==
  /\ pei \in [Instances -> Objects] /\ cache \in [Instances -> Objects]
  /\ fresh \in [Instances -> BOOLEAN] /\ queue \subseteq Instances
  /\ pc \in Steps /\ key \in Instances \cup {NoKey}
  /\ obj \in Objects /\ cur \in BOOLEAN
  /\ head \in [Instances -> Commits]
  /\ comments \in [Instances -> [Revisions -> Nat]]
  /\ job \in [Instances -> Jobs]
  /\ registry \in [Instances -> [Commits -> Revisions]]
  /\ res \in [Instances -> [Kinds -> Revisions]]
  /\ apiErrors \in 0..MaxApiErrors /\ crashes \in 0..MaxCrashes
  /\ pc = "idle" <=> key = NoKey

\* The image a Deployment names is in the registry: whatever fails, is reset,
\* deleted or restarted between build and deployment, deployKubernetesDeployment
\* never rolls out an image that no kaniko job has pushed.
DeployedImageWasBuilt ==
  \A i \in Instances :
    res[i]["deployment"] # NoCommit => registry[i][res[i]["deployment"]] # NoCommit

\* A resource in the cluster belongs to an instance that still exists and whose
\* finalizer is set, so that its deletion will come by here again.  A failing
\* Delete is only logged, so this needs that no API call fails; and the auth
\* proxy's resources are only covered while the manager does not restart.
ResourcesGuarded ==
  \A i \in Instances, k \in Kinds :
    (res[i][k] # NoCommit /\ apiErrors = 0 /\ (k \in AuthKinds => crashes = 0))
      => pei[i].exists /\ pei[i].finalizer

\* An instance that shows phase running at a commit has all its resources
\* deployed for that commit, but for the moment between Update of the new hash
\* and markPreviewEnvironmentInstanceAsPending.
RunningMeansDeployed ==
  \A i \in Instances :
    (/\ pei[i].status.phase = "running" /\ pei[i].hash # NoCommit /\ ~pei[i].deleting
     /\ ~(pc = "markPending" /\ key = i) /\ apiErrors = 0 /\ crashes = 0)
      => \A k \in Kinds : res[i][k] = pei[i].hash

\* A pull request shows the same message twice only if a call to GitHub has
\* failed: a restart between listing, deleting and posting duplicates nothing,
\* and every failed call costs at most one duplicate.
DuplicatesNeedErrors ==
  \A i \in Instances, u \in Revisions : comments[i][u] <= 1 + apiErrors

\* A kaniko job is never started for a commit that is recorded as built.
NeverRebuilt ==
  [][\A i \in Instances :
       job[i] # job'[i] /\ job'[i].state = "active" =>
         \A j \in DOMAIN pei[i].status.built : pei[i].status.built[j] # job'[i].tag]_vars

\* A URL that is posted to a pull request names a commit whose image was built,
\* or none: the status it comes from may be several resets and restarts old.
PostedUrlWasBuilt ==
  [][\A i \in Instances, u \in Commits :
       comments'[i][u] > comments[i][u] => registry[i][u] # NoCommit]_vars

\* A deletion is never undone by a status write or spec update of a worker that
\* read the object before: once deletionTimestamp is set, it stays until the
\* object is gone.
DeletionNotUndone ==
  [][\A i \in Instances : pei[i].deleting /\ pei'[i].exists => pei'[i].deleting]_vars

\* What a user sees of an instance, of the parts whose deletion no restart can
\* interrupt.
Life == INSTANCE InstanceLife WITH
  Resources <- MainKinds,
  life      <- [i \in Instances |-> IF ~pei[i].exists THEN "absent"
                                    ELSE IF pei[i].deleting THEN "terminating" ELSE "live"],
  built     <- [i \in Instances |-> {c \in Commits : registry[i][c] # NoCommit}],
  deployed  <- [i \in Instances |-> [k \in MainKinds |-> res[i][k]]]

\* Unless a call fails, the controller with its caches, retries and restarts acts
\* as the life cycle of InstanceLife: only built commits are deployed, nothing of
\* an instance exists before or after it, and what is deployed stays up to its end.
ImplementsLife == Life!Spec

\* A deleted instance disappears, whatever the worker was doing and even if
\* calls fail or the manager restarts.
DeletionCompletes == \A i \in Instances : pei[i].deleting ~> ~pei[i].exists

\* The instance is gone, or runs the head of its pull request, or its build or
\* deployment for that head has failed.
Settled(i) ==
  \/ ~pei[i].exists
  \/ /\ ~pei[i].deleting /\ pei[i].hash = head[i]
     /\ \/ pei[i].status.phase = "failed"
        \/ pei[i].status.phase = "running" /\ \A k \in Kinds : res[i][k] = head[i]

\* When users stop creating, resetting, deleting and pushing, and neither a call
\* has failed nor the manager restarted, every pull request instance settles.
Converges ==
  (<>[][~UserStep]_vars) =>
    \A i \in PullRequests : <>[](apiErrors = 0 /\ crashes = 0 => Settled(i))

-----------------------------------------------------------------------------
(* What the repository says of the program and the code does not do *)

\* CommitHash is "the version that the instance is running": when users leave an
\* instance alone, it ends up failed or with its CommitHash deployed.
CommitHashIsRun ==
  (<>[][~UserStep]_vars) =>
    \A i \in PullRequests :
      <>[](\/ ~pei[i].exists \/ pei[i].status.phase = "failed"
           \/ res[i]["deployment"] = pei[i].hash)
=============================================================================
