------------------------- MODULE InstanceImages_proofs -------------------------
(***************************************************************************)
(* What the controller builds, deploys and posts, for every value of the   *)
(* constants of InstanceReconciler: DeployedImageWasBuilt,                 *)
(* PostedUrlWasBuilt, NeverRebuilt and DuplicatesNeedErrors.               *)
(*                                                                         *)
(* That an image exists when a Deployment names it is decided long before: *)
(* a job succeeded, the worker remembered the version, stored it with the  *)
(* phase, lost its copy, read an older one from the cache.  ImageInv says  *)
(* what each of these places may claim about the registry.                 *)
(***************************************************************************)
EXTENDS InstanceReconciler_proofs

-----------------------------------------------------------------------------
(* The inductive invariant *)

\* The registry holds an image of instance i tagged c.
Built(i, c) == registry[i][c] # NoCommit

\* The status of version o of instance i names built commits only.
VersionsExist(i, o) ==
  /\ \A j \in DOMAIN o.status.built : Built(i, o.status.built[j])
  /\ o.status.url # NoCommit => Built(i, o.status.url)

HashBuilt(i, o) == o.hash # NoCommit => Built(i, o.hash)

\* What version o of instance i claims of the registry
ImagesExist(i, o) ==
  /\ VersionsExist(i, o)
  /\ o.status.phase = "deploying" => HashBuilt(i, o)

\* What the worker may rely on at step p of processing instance i with copy o
CopyClaims(p, i, o) ==
  /\ VersionsExist(i, o)
  /\ p \in {"addFinalizer", "load"} => ImagesExist(i, o)
  /\ p \in {"latest", "updateHash"} => o.status.phase # "deploying"
  /\ p \in {"markDeploying", "redeploy"} \cup DeploySteps => HashBuilt(i, o)
  /\ p = "waitJob" /\ job[i].state # "none" => job[i].tag = o.hash

StoredImages == \A i \in Instances : ImagesExist(i, pei[i]) /\ ImagesExist(i, cache[i])

CopyImages == pc # "idle" => CopyClaims(pc, key, obj)

JobImages ==
  \A i \in Instances : /\ job[i].state # "none" => job[i].tag \in Commits
                       /\ job[i].state = "succeeded" => Built(i, job[i].tag)

ImageInv == StoredImages /\ CopyImages /\ JobImages /\ DeployedImageWasBuilt

-----------------------------------------------------------------------------
(* Lemmas *)

LEMMA AbsentImages ==
  ASSUME NEW i
  PROVE  ImagesExist(i, Absent) /\ ImagesExist(i, NewInstance)
<1> DEFINE none == <<>>
           st == [phase |-> "", built |-> none, url |-> NoCommit]
<1>1. none \in Seq(Commits) /\ Len(none) = 0
  BY EmptySeq
<1>2. Absent.status = st /\ NewInstance.status = st
  BY DEF Absent, NewInstance
<1>3. st.built = none /\ st.phase = "" /\ st.url = NoCommit
  OBVIOUS
<1> HIDE DEF none, st
<1>4. DOMAIN none = {}
  BY <1>1, LenProperties
<1> QED
  BY <1>2, <1>3, <1>4 DEF ImagesExist, VersionsExist

\* An API call that writes neither object nor job: only the copy moves on.
LEMMA GotoImages ==
  ASSUME BaseInv, ImageInv, UNCHANGED <<store, job, registry>>,
         NEW step \in NextSteps, NEW o, NEW c, Goto(step, o, c),
         pc # "idle", CopyClaims(step, key, o), DeployedImageWasBuilt'
  PROVE  ImageInv'
<1>1. StoredImages' /\ JobImages'
  BY DEF ImageInv, StoredImages, JobImages, ImagesExist, VersionsExist, HashBuilt, Built, store
<1>2. CopyImages'
  BY DEF Goto, CopyImages, CopyClaims, ImagesExist, VersionsExist, HashBuilt, Built
<1> QED
  BY <1>1, <1>2 DEF ImageInv

\* A write of the worker, successful or not
LEMMA PutImages ==
  ASSUME BaseInv, ImageInv, pc # "idle", UNCHANGED <<job, registry, res>>,
         NEW o \in Objects, NEW new \in Objects,
         NEW ok \in NextSteps, NEW err \in {"requeue", "markFailed"},
         Put(o, new, ok, err), VersionsExist(key, o),
         cur => ImagesExist(key, new) /\ CopyClaims(ok, key, new)
  PROVE  ImageInv'
<1>1. key \in Instances
  BY BusyKey DEF BaseInv
<1>2. JobImages' /\ DeployedImageWasBuilt'
  BY DEF ImageInv, JobImages, DeployedImageWasBuilt, Built
<1>3. ASSUME NEW step, NEW c, NEW b, Goto(step, c, b), CopyClaims(step, key, c)
      PROVE  CopyImages'
  BY <1>3 DEF Goto, CopyImages, CopyClaims, ImagesExist, VersionsExist, HashBuilt, Built
<1>4. CopyClaims(err, key, o)
  BY DEF CopyClaims, DeploySteps
<1>5. ASSUME cur, Write(key, new)
      PROVE  StoredImages'
  <2>1. pei' = [pei EXCEPT ![key] = new] /\ cache' = cache
    BY <1>5 DEF Write
  <2>2. \A i \in Instances : ImagesExist(i, pei'[i]) /\ ImagesExist(i, cache'[i])
    BY <1>5, <2>1 DEF ImageInv, StoredImages, BaseInv, TypeOK
  <2> QED
    BY <2>2 DEF StoredImages, ImagesExist, VersionsExist, HashBuilt, Built
<1>6. UNCHANGED store => StoredImages'
  BY DEF ImageInv, StoredImages, ImagesExist, VersionsExist, HashBuilt, Built, store
<1>7. StoredImages' /\ CopyImages'
  <2>1. CASE cur /\ Write(key, new) /\ Goto(ok, new, TRUE)
    BY <1>3, <1>5, <2>1
  <2>2. CASE Goto(err, o, FALSE) /\ UNCHANGED store
    BY <1>3, <1>4, <1>6, <2>2
  <2>3. CASE Goto(err, o, cur) /\ UNCHANGED store
    BY <1>3, <1>4, <1>6, <2>3
  <2>4. CASE cur /\ Write(key, new) /\ Goto(err, o, new = pei[key])
    BY <1>3, <1>4, <1>5, <2>4
  <2> QED
    BY <2>1, <2>2, <2>3, <2>4 DEF Put
<1> QED
  BY <1>2, <1>7 DEF ImageInv

\* A status update: what it stores, and what the worker goes on with
LEMMA StatusImages ==
  ASSUME BaseInv, ImageInv, pc \notin {"idle", "updateHash"},
         UNCHANGED <<job, registry, res>>, NEW o \in Objects,
         NEW ok \in NextSteps, NEW err \in {"requeue", "markFailed"},
         StatusUpdate(o, ok, err), o.hash = obj.hash, VersionsExist(key, o),
         o.status.phase = "deploying" => HashBuilt(key, obj),
         ok \in {"markDeploying"} \cup DeploySteps => HashBuilt(key, obj),
         ok \notin {"load", "addFinalizer", "latest", "updateHash", "redeploy", "waitJob"}
  PROVE  ImageInv'
<1> DEFINE new == [pei[key] EXCEPT !.status = o.status]
<1>1. key \in Instances /\ pei[key] \in Objects
  BY BusyKey DEF BaseInv, TypeOK
<1>2. new \in Objects /\ new.status = o.status /\ new.hash = pei[key].hash
  BY <1>1 DEF Objects
<1>3. cur => new.hash = obj.hash
  BY <1>2 DEF BaseInv, CopyAgrees
<1>4. VersionsExist(key, new) /\ (cur /\ HashBuilt(key, obj) => HashBuilt(key, new))
  BY <1>2, <1>3 DEF VersionsExist, HashBuilt
<1>5. cur => ImagesExist(key, new) /\ CopyClaims(ok, key, new)
  BY <1>2, <1>4 DEF ImagesExist, CopyClaims
<1>6. Put(o, new, ok, err)
  BY DEF StatusUpdate
<1> HIDE DEF new
<1> QED
  BY <1>2, <1>5, <1>6, PutImages

\* A status update of the copy with another phase
LEMMA PhaseImages ==
  ASSUME BaseInv, ImageInv, pc \notin {"idle", "updateHash"}, NEW p \in Phases,
         UNCHANGED <<job, registry, res>>,
         NEW ok \in NextSteps, NEW err \in {"requeue", "markFailed"},
         StatusUpdate(InPhase(p), ok, err), p = "deploying" => HashBuilt(key, obj),
         ok \in {"markDeploying"} \cup DeploySteps => HashBuilt(key, obj),
         ok \notin {"load", "addFinalizer", "latest", "updateHash", "redeploy", "waitJob"}
  PROVE  ImageInv'
<1>1. obj \in Objects /\ VersionsExist(key, obj)
  BY DEF BaseInv, TypeOK, ImageInv, CopyImages, CopyClaims
<1>2. /\ InPhase(p) \in Objects /\ InPhase(p).hash = obj.hash
      /\ InPhase(p).status.phase = p /\ InPhase(p).status.built = obj.status.built
      /\ InPhase(p).status.url = obj.status.url
  BY <1>1 DEF InPhase, Objects, Statuses
<1>3. VersionsExist(key, InPhase(p))
  BY <1>1, <1>2 DEF VersionsExist
<1> QED
  BY <1>2, <1>3, StatusImages

\* An API call that keeps the copy and claims nothing new
LEMMA KeepImages ==
  ASSUME BaseInv, ImageInv, pc # "idle", UNCHANGED <<store, job, registry>>,
         NEW step \in NextSteps \ {"load", "addFinalizer", "latest", "updateHash", "waitJob"},
         Goto(step, obj, cur), DeployedImageWasBuilt',
         step \in {"markDeploying", "redeploy"} \cup DeploySteps => HashBuilt(key, obj)
  PROVE  ImageInv'
<1>1. CopyClaims(step, key, obj)
  BY DEF ImageInv, CopyImages, CopyClaims
<1> QED
  BY <1>1, GotoImages

LEMMA DeployedKept ==
  ASSUME DeployedImageWasBuilt, UNCHANGED <<registry, res>>
  PROVE  DeployedImageWasBuilt'
BY DEF DeployedImageWasBuilt

LEMMA ApplyImages ==
  ASSUME BaseInv, ImageInv, pc \in DeploySteps, NEW kind \in Kinds,
         NEW ok \in DeploySteps \cup {"markFailed"},
         NEW err \in DeploySteps \cup {"markFailed"}, Apply(kind, ok, err)
  PROVE  ImageInv'
<1>1. PICK step \in {ok, err} : Goto(step, obj, cur)
  BY DEF Apply
<1>2. pc # "idle" /\ step \in NextSteps \ {"load", "addFinalizer", "latest", "updateHash", "waitJob"}
  BY DEF DeploySteps, NextSteps, Steps, OtherSteps
<1>3. HashBuilt(key, obj) /\ key \in Instances
  BY <1>2, BusyKey DEF ImageInv, CopyImages, CopyClaims, BaseInv
<1>4. DeployedImageWasBuilt'
  <2>1. res' = res \/ res' = [res EXCEPT ![key][kind] = obj.hash]
    BY DEF Apply
  <2>2. CASE res' = res
    BY <2>2, DeployedKept DEF Apply, ImageInv
  <2>3. CASE res' = [res EXCEPT ![key][kind] = obj.hash]
    <3>1. \A i \in Instances :
            res'[i]["deployment"] \in {res[i]["deployment"]} \cup
                                      (IF i = key THEN {obj.hash} ELSE {})
      BY <2>3 DEF BaseInv, TypeOK, Kinds, MainKinds
    <3> QED
      BY <1>3, <3>1 DEF DeployedImageWasBuilt, HashBuilt, Built, ImageInv, Apply
  <2> QED
    BY <2>1, <2>2, <2>3
<1> QED
  BY <1>1, <1>2, <1>3, <1>4, KeepImages DEF Apply

LEMMA DeleteResourceImages ==
  ASSUME BaseInv, ImageInv, pc \in DeleteSteps, NEW kind \in Kinds,
         NEW ok \in DeleteSteps, NEW err \in DeleteSteps, DeleteResource(kind, ok, err)
  PROVE  ImageInv'
<1>1. PICK step \in {ok, err} : Goto(step, obj, cur)
  BY DEF DeleteResource
<1>2. /\ pc # "idle" /\ step \in NextSteps \ {"load", "addFinalizer", "latest", "updateHash", "waitJob"}
      /\ step \notin {"markDeploying", "redeploy"} \cup DeploySteps
  BY DEF DeleteSteps, DeploySteps, NextSteps, Steps, OtherSteps
<1>3. DeployedImageWasBuilt'
  <2>1. res' = res \/ res' = [res EXCEPT ![key][kind] = NoCommit]
    BY DEF DeleteResource
  <2>2. "deployment" \in Kinds /\ res \in [Instances -> [Kinds -> Revisions]]
    BY DEF BaseInv, TypeOK, Kinds, MainKinds
  <2>3. \A i \in Instances : res'[i]["deployment"] \in {res[i]["deployment"], NoCommit}
    BY <2>1, <2>2
  <2> QED
    BY <2>3 DEF DeployedImageWasBuilt, ImageInv, DeleteResource
<1> QED
  BY <1>1, <1>2, <1>3, KeepImages DEF DeleteResource

-----------------------------------------------------------------------------
(* Every step keeps the invariant *)

LEMMA ImagesDeleting ==
  ASSUME BaseInv, ImageInv, Deleting
  PROVE  ImageInv'
<1> USE DEF DeleteSteps, Kinds, MainKinds, AuthKinds
<1>1. CASE DeleteKubernetesDeployment
  BY <1>1, DeleteResourceImages DEF DeleteKubernetesDeployment
<1>2. CASE DeleteKubernetesService
  BY <1>2, DeleteResourceImages DEF DeleteKubernetesService
<1>3. CASE DeleteAuthProxyDeployment
  BY <1>3, DeleteResourceImages DEF DeleteAuthProxyDeployment
<1>4. CASE DeleteAuthProxyService
  BY <1>4, DeleteResourceImages DEF DeleteAuthProxyService
<1>5. CASE DeleteAuthProxyIngress
  BY <1>5, DeleteResourceImages DEF DeleteAuthProxyIngress
<1>6. CASE DeleteKubernetesIngress
  BY <1>6, DeleteResourceImages DEF DeleteKubernetesIngress
<1>7. CASE RemoveFinalizer
  <2> DEFINE o == [obj EXCEPT !.finalizer = FALSE]
             new == IF o.deleting /\ ~o.finalizer
                      THEN Absent ELSE [o EXCEPT !.status = pei[key].status]
  <2>1. pc = "removeFinalizer" /\ Put(o, new, "done", "requeue")
        /\ UNCHANGED <<job, registry, res>>
    BY <1>7 DEF RemoveFinalizer, Update, cluster
  <2>2. key \in Instances /\ obj \in Objects /\ pei[key] \in Objects
    BY <2>1, BusyKey DEF BaseInv, TypeOK
  <2>3. o \in Objects /\ new \in Objects /\ o.hash = obj.hash /\ o.status = obj.status
    BY <2>2, AbsentType DEF Objects
  <2>4. VersionsExist(key, o) /\ VersionsExist(key, obj)
    BY <2>1, <2>3 DEF ImageInv, CopyImages, CopyClaims, VersionsExist
  <2>5. ASSUME cur PROVE ImagesExist(key, new)
    <3>1. CASE new = Absent
      BY <3>1, AbsentImages
    <3>2. CASE new = [o EXCEPT !.status = pei[key].status]
      <4>1. new.status = pei[key].status /\ new.hash = pei[key].hash
        BY <2>1, <2>3, <2>5, <3>2 DEF BaseInv, CopyAgrees, Objects
      <4> QED
        BY <2>2, <4>1 DEF ImageInv, StoredImages, ImagesExist, VersionsExist, HashBuilt
    <3> QED
      BY <3>1, <3>2
  <2>6. ImagesExist(key, new) => CopyClaims("done", key, new)
    BY DEF CopyClaims, ImagesExist, DeploySteps
  <2>7. "done" \in NextSteps
    BY DEF NextSteps
  <2> HIDE DEF o, new
  <2> QED
    BY <2>1, <2>3, <2>4, <2>5, <2>6, <2>7, PutImages
<1> QED
  BY <1>1, <1>2, <1>3, <1>4, <1>5, <1>6, <1>7 DEF Deleting

LEMMA ImagesDispatching ==
  ASSUME BaseInv, ImageInv, Dispatching
  PROVE  ImageInv'
<1> USE DEF NextSteps, Steps, OtherSteps
<1>1. CASE AddFinalizer
  <2> DEFINE o == [obj EXCEPT !.finalizer = TRUE]
             new == [o EXCEPT !.status = pei[key].status]
  <2>1. pc = "addFinalizer" /\ UNCHANGED <<job, registry, res>>
    BY <1>1 DEF AddFinalizer, cluster
  <2>2. key \in Instances /\ obj \in Objects /\ pei[key] \in Objects
    BY <2>1, BusyKey DEF BaseInv, TypeOK
  <2>3. /\ o \in Objects /\ new \in Objects /\ o.finalizer
        /\ o.status = obj.status /\ new.status = pei[key].status /\ new.hash = obj.hash
    BY <2>2 DEF Objects
  <2>4. Put(o, new, "load", "requeue")
    BY <1>1, <2>3 DEF AddFinalizer, Update
  <2>5. VersionsExist(key, o)
    BY <2>1, <2>3 DEF ImageInv, CopyImages, CopyClaims, VersionsExist
  <2>6. ASSUME cur PROVE ImagesExist(key, new)
    <3>1. new.hash = pei[key].hash
      BY <2>1, <2>3, <2>6 DEF BaseInv, CopyAgrees
    <3> QED
      BY <2>2, <2>3, <3>1 DEF ImageInv, StoredImages, ImagesExist, VersionsExist, HashBuilt
  <2>7. ImagesExist(key, new) => CopyClaims("load", key, new)
    BY DEF CopyClaims, ImagesExist, DeploySteps
  <2> HIDE DEF o, new
  <2> QED
    BY <2>1, <2>3, <2>4, <2>5, <2>6, <2>7, PutImages
<1>2. ASSUME NEW found \in Lookups, LoadPreviewEnvironment(found)
      PROVE  ImageInv'
  <2>1. pc = "load" /\ UNCHANGED <<store, job, registry, res>>
    BY <1>2 DEF LoadPreviewEnvironment, cluster
  <2>2. DeployedImageWasBuilt' /\ VersionsExist(key, obj) /\ ImagesExist(key, obj)
    BY <2>1, DeployedKept DEF ImageInv, CopyImages, CopyClaims
  <2>3. CASE ~found
    BY <1>2, <2>1, <2>2, <2>3, KeepImages DEF LoadPreviewEnvironment, DeploySteps
  <2>4. CASE found /\ obj.status.phase = "pending"
    <3>1. Goto(RebuildInstance(obj), obj, cur)
      BY <1>2, <2>4 DEF LoadPreviewEnvironment
    <3>2. RebuildInstance(obj) \in {"markDeploying", "markBuilding"}
          /\ (RebuildInstance(obj) = "markDeploying" => HashBuilt(key, obj))
      BY <2>2 DEF RebuildInstance, HashBuilt, VersionsExist
    <3> QED
      BY <2>1, <2>2, <3>1, <3>2, KeepImages DEF DeploySteps, BuildSteps
  <2>5. CASE found /\ obj.status.phase = "deploying"
    <3>1. Goto(RedeployInstance(obj), obj, cur)
      BY <1>2, <2>5 DEF LoadPreviewEnvironment
    <3>2. RedeployInstance(obj) \in {"comment", "redeploy"} /\ HashBuilt(key, obj)
      BY <2>2, <2>5 DEF RedeployInstance, ImagesExist
    <3> QED
      BY <2>1, <2>2, <3>1, <3>2, KeepImages DEF DeploySteps, BuildSteps
  <2>6. CASE found /\ obj.status.phase \notin {"pending", "deploying"}
    <3>1. Goto("latest", obj, cur)
      BY <1>2, <2>6 DEF LoadPreviewEnvironment
    <3>2. CopyClaims("latest", key, obj)
      BY <2>2, <2>6 DEF CopyClaims, DeploySteps
    <3> QED
      BY <2>1, <2>2, <3>1, <3>2, GotoImages
  <2>7. found \in BOOLEAN
    BY <1>2, LookupsAssumption
  <2> QED
    BY <2>3, <2>4, <2>5, <2>6, <2>7
<1>3. CASE LatestCommitHash
  <2> DEFINE o == [obj EXCEPT !.hash = head[key]]
  <2>1. pc = "latest" /\ UNCHANGED <<store, job, registry, res>>
    BY <1>3 DEF LatestCommitHash, cluster
  <2>2. \/ Goto("requeue", obj, cur)
        \/ Goto("done", o, cur)
        \/ Goto("updateHash", o, cur)
    BY <1>3 DEF LatestCommitHash
  <2>3. o.status = obj.status
    BY DEF BaseInv, TypeOK, Objects
  <2>4. VersionsExist(key, obj) /\ obj.status.phase # "deploying"
    BY <2>1 DEF ImageInv, CopyImages, CopyClaims
  <2>5. VersionsExist(key, o) /\ o.status.phase # "deploying"
    BY <2>3, <2>4 DEF VersionsExist
  <2>6. DeployedImageWasBuilt'
    BY <2>1, DeployedKept DEF ImageInv
  <2>7. /\ CopyClaims("requeue", key, obj)
        /\ CopyClaims("done", key, o) /\ CopyClaims("updateHash", key, o)
    BY <2>4, <2>5 DEF CopyClaims, DeploySteps
  <2> HIDE DEF o
  <2> QED
    BY <2>1, <2>2, <2>6, <2>7, GotoImages
<1>4. CASE UpdateHash
  <2> DEFINE new == IF obj.deleting /\ ~obj.finalizer
                      THEN Absent ELSE [obj EXCEPT !.status = pei[key].status]
  <2>1. pc = "updateHash" /\ Put(obj, new, "markPending", "requeue")
        /\ UNCHANGED <<job, registry, res>>
    BY <1>4 DEF UpdateHash, Update, cluster
  <2>2. key \in Instances /\ obj \in Objects /\ pei[key] \in Objects
    BY <2>1, BusyKey DEF BaseInv, TypeOK
  <2>3. new \in Objects
    BY <2>2, AbsentType DEF Objects
  <2>4. VersionsExist(key, obj) /\ obj.status.phase # "deploying"
    BY <2>1 DEF ImageInv, CopyImages, CopyClaims
  <2>5. ASSUME cur PROVE ImagesExist(key, new)
    <3>1. CASE new = Absent
      BY <3>1, AbsentImages
    <3>2. CASE new = [obj EXCEPT !.status = pei[key].status]
      <4>1. new.status = obj.status
        BY <2>1, <2>2, <2>5, <3>2 DEF BaseInv, CopyAgrees, Objects, StatusAhead
      <4> QED
        BY <2>4, <4>1 DEF ImagesExist, VersionsExist
    <3> QED
      BY <3>1, <3>2
  <2>6. ImagesExist(key, new) => CopyClaims("markPending", key, new)
    BY DEF CopyClaims, ImagesExist, DeploySteps
  <2> HIDE DEF new
  <2> QED
    BY <2>1, <2>2, <2>3, <2>4, <2>5, <2>6, PutImages
<1>5. CASE MarkPending
  BY <1>5, PhaseImages DEF MarkPending, Phases, DeploySteps, cluster
<1>6. CASE MarkFailed
  BY <1>6, PhaseImages DEF MarkFailed, Phases, DeploySteps, cluster
<1> QED
  BY <1>1, <1>2, <1>3, <1>4, <1>5, <1>6 DEF Dispatching

\* updateBuiltVersions remembers nothing but the old versions and the new one.
LEMMA BuiltVersionsRange ==
  ASSUME NEW versions \in BuiltVersions, NEW hash \in Commits
  PROVE  LET updated == UpdateBuiltVersions(versions, hash, KeepBuilt)
         IN  \A j \in DOMAIN updated :
               updated[j] = hash \/ \E l \in DOMAIN versions : updated[j] = versions[l]
<1> DEFINE all == Append(versions, hash)
           m == Len(all) - KeepBuilt + 1
<1>1. versions \in Seq(Commits) /\ Len(versions) \in Nat
  BY LenProperties DEF BuiltVersions
<1>2. /\ all \in Seq(Commits) /\ Len(all) = Len(versions) + 1
      /\ \A j \in 1..Len(versions) : all[j] = versions[j]
      /\ all[Len(versions) + 1] = hash
  BY <1>1, AppendProperties
<1>3. \A j \in 1..Len(all) : all[j] = hash \/ \E l \in DOMAIN versions : all[j] = versions[l]
  <2>1. \A j \in 1..Len(all) : j \in 1..Len(versions) \/ j = Len(versions) + 1
    BY <1>1, <1>2
  <2>2. DOMAIN versions = 1..Len(versions)
    BY <1>1, LenProperties
  <2> HIDE DEF all
  <2> QED
    BY <1>2, <2>1, <2>2
<1>4. CASE Len(all) > KeepBuilt
  <2>1. m \in Int /\ m >= 1 /\ m <= Len(all) /\ Len(all) \in Int
    BY <1>1, <1>2, <1>4, KeepBuiltAssumption
  <2>2. \A j \in m..Len(all) : all[j] \in Commits
    BY <1>2, <2>1, ElementOfSeq
  <2> DEFINE sub == SubSeq(all, m, Len(all))
  <2>3. /\ sub \in Seq(Commits) /\ Len(sub) = Len(all) - m + 1
        /\ \A j \in 1..(Len(all) - m + 1) : sub[j] = all[m + j - 1]
    <3> HIDE DEF all, m
    <3> QED BY <2>1, <2>2, SubSeqProperties
  <2>4. UpdateBuiltVersions(versions, hash, KeepBuilt) = sub
    BY <1>4 DEF UpdateBuiltVersions
  <2>5. DOMAIN sub = 1..(Len(all) - m + 1)
    <3> HIDE DEF sub, all, m
    <3> QED BY <2>3, LenProperties
  <2>6. \A j \in 1..(Len(all) - m + 1) : m + j - 1 \in 1..Len(all)
    <3> HIDE DEF all, m
    <3> QED BY <2>1
  <2> HIDE DEF all, m, sub
  <2> QED
    BY <1>3, <2>3, <2>4, <2>5, <2>6
<1>5. CASE ~(Len(all) > KeepBuilt)
  <2>1. UpdateBuiltVersions(versions, hash, KeepBuilt) = all
    BY <1>5 DEF UpdateBuiltVersions
  <2>2. DOMAIN all = 1..Len(all)
    BY <1>2, LenProperties
  <2> HIDE DEF all
  <2> QED
    BY <1>3, <2>1, <2>2
<1> QED
  BY <1>4, <1>5

LEMMA ImagesBuilding ==
  ASSUME BaseInv, ImageInv, Building
  PROVE  ImageInv'
<1> USE DEF NextSteps, Steps, OtherSteps, BuildSteps
<1>1. CASE MarkBuilding
  BY <1>1, PhaseImages DEF MarkBuilding, Phases, DeploySteps, cluster
<1>2. ASSUME pc \in {"cleanJob", "createJob"}, UNCHANGED <<store, registry, res>>,
             NEW j \in {NoJob, [state |-> "active", tag |-> obj.hash]},
             job' = job \/ job' = [job EXCEPT ![key] = j],
             NEW step \in {"createJob", "waitJob", "markFailed"}, Goto(step, obj, cur),
             step = "waitJob" => j.tag = obj.hash /\ job' = [job EXCEPT ![key] = j]
      PROVE  ImageInv'
  <2>1. key \in Instances /\ obj.hash \in Commits /\ VersionsExist(key, obj)
    BY <1>2, BusyKey DEF BaseInv, BuildsACommit, ImageInv, CopyImages, CopyClaims
  <2>2. StoredImages' /\ DeployedImageWasBuilt'
    BY <1>2 DEF ImageInv, StoredImages, DeployedImageWasBuilt, ImagesExist, VersionsExist,
                HashBuilt, Built, store
  <2>3. j.state \in {"none", "active"} /\ (j.state = "active" => j.tag \in Commits)
    BY <1>2, <2>1 DEF NoJob
  <2>4. JobImages'
    <3>1. \A i \in Instances : job'[i] \in {job[i], j}
      BY <1>2 DEF BaseInv, TypeOK
    <3> QED
      BY <1>2, <2>3, <3>1 DEF ImageInv, JobImages, Built
  <2>5. CopyImages'
    <3>1. step = "waitJob" => job'[key].tag = obj.hash
      BY <1>2, <2>1 DEF BaseInv, TypeOK
    <3>2. pc' = step /\ obj' = obj /\ key' = key
      BY <1>2 DEF Goto
    <3> QED
      BY <1>2, <2>1, <3>1, <3>2 DEF CopyImages, CopyClaims, VersionsExist, Built, DeploySteps
  <2> QED
    BY <2>2, <2>4, <2>5 DEF ImageInv
<1>3. CASE CleanJob
  BY <1>2, <1>3 DEF CleanJob
<1>4. CASE CreateJob
  <2> DEFINE created == [state |-> "active", tag |-> obj.hash]
  <2>1. created.tag = obj.hash
    OBVIOUS
  <2>2. /\ pc = "createJob" /\ UNCHANGED <<store, registry, res>>
        /\ \/ job' = [job EXCEPT ![key] = created] /\ Goto("waitJob", obj, cur)
           \/ job' = job /\ Goto("markFailed", obj, cur)
           \/ job' = [job EXCEPT ![key] = created] /\ Goto("markFailed", obj, cur)
    BY <1>4 DEF CreateJob
  <2>3. \A j \in {NoJob, created} : j = created => j.tag = obj.hash
    BY <2>1
  <2>4. created \in {NoJob, created}
    OBVIOUS
  <2> HIDE DEF created
  <2> QED
    BY <1>2, <2>1, <2>2, <2>4 DEF created
<1>5. CASE WaitJob
  <2> DEFINE built == UpdateBuiltVersions(obj.status.built, obj.hash, KeepBuilt)
             o == [obj EXCEPT !.status.built = built]
  <2>1. /\ pc = "waitJob" /\ UNCHANGED <<store, job, registry, res>>
        /\ \/ job[key].state = "succeeded" /\ Goto("markDeploying", o, cur)
           \/ Goto("markFailed", obj, cur)
    BY <1>5 DEF WaitJob, cluster
  <2>2. /\ key \in Instances /\ obj \in Objects /\ obj.hash \in Commits
        /\ obj.status.built \in BuiltVersions /\ VersionsExist(key, obj)
    BY <2>1, BusyKey DEF BaseInv, TypeOK, BuildsACommit, Objects, Statuses,
                         ImageInv, CopyImages, CopyClaims
  <2>3. DeployedImageWasBuilt'
    BY <2>1, DeployedKept DEF ImageInv
  <2>4. CASE Goto("markFailed", obj, cur)
    BY <2>1, <2>2, <2>3, <2>4, KeepImages DEF DeploySteps
  <2>5. CASE job[key].state = "succeeded" /\ Goto("markDeploying", o, cur)
    <3>1. Built(key, obj.hash)
      BY <2>1, <2>2, <2>5 DEF ImageInv, CopyImages, CopyClaims, JobImages
    <3>2. o.status.built = built /\ o.hash = obj.hash /\ o.status.url = obj.status.url
      <4> HIDE DEF built
      <4> QED BY <2>2 DEF Objects, Statuses
    <3>3. \A j \in DOMAIN built :
            built[j] = obj.hash \/ \E l \in DOMAIN obj.status.built : built[j] = obj.status.built[l]
      BY <2>2, BuiltVersionsRange
    <3>4. VersionsExist(key, o)
      <4> HIDE DEF built, o
      <4> QED BY <2>2, <3>1, <3>2, <3>3 DEF VersionsExist
    <3>5. CopyClaims("markDeploying", key, o)
      <4> HIDE DEF built, o
      <4> QED BY <3>1, <3>2, <3>4 DEF CopyClaims, HashBuilt
    <3> HIDE DEF o
    <3> QED
      BY <2>1, <2>3, <2>5, <3>5, GotoImages
  <2> QED
    BY <2>1, <2>4, <2>5
<1>6. CASE MarkDeploying
  <2>1. pc = "markDeploying" /\ HashBuilt(key, obj)
    BY <1>6 DEF MarkDeploying, ImageInv, CopyImages, CopyClaims
  <2> QED
    BY <1>6, <2>1, PhaseImages DEF MarkDeploying, Phases, DeploySteps, cluster
<1> QED
  BY <1>1, <1>3, <1>4, <1>5, <1>6 DEF Building

LEMMA ImagesDeploying ==
  ASSUME BaseInv, ImageInv, Deploying
  PROVE  ImageInv'
<1> USE DEF DeploySteps, Kinds, MainKinds, AuthKinds
<1>1. CASE MarkRedeploying
  <2>1. pc = "redeploy" /\ HashBuilt(key, obj)
    BY <1>1 DEF MarkRedeploying, ImageInv, CopyImages, CopyClaims
  <2> QED
    BY <1>1, <2>1, PhaseImages DEF MarkRedeploying, Phases, NextSteps, Steps, OtherSteps, cluster
<1>2. CASE SetupAuthentication
  <2>1. /\ pc = "auth" /\ UNCHANGED <<store, job, registry, res>>
        /\ \E n \in {"deployment", "markFailed", "requeue"} : Goto(n, obj, cur)
    BY <1>2 DEF SetupAuthentication, cluster
  <2>2. HashBuilt(key, obj) /\ DeployedImageWasBuilt'
    BY <2>1, DeployedKept DEF ImageInv, CopyImages, CopyClaims
  <2> QED
    BY <2>1, <2>2, KeepImages DEF NextSteps, Steps, OtherSteps
<1>3. CASE DeployKubernetesDeployment
  BY <1>3, ApplyImages DEF DeployKubernetesDeployment
<1>4. CASE DeployKubernetesService
  BY <1>4, ApplyImages DEF DeployKubernetesService
<1>5. CASE DeployAuthProxyDeployment
  BY <1>5, ApplyImages DEF DeployAuthProxyDeployment
<1>6. CASE DeployAuthProxyService
  BY <1>6, ApplyImages DEF DeployAuthProxyService
<1>7. CASE DeployAuthProxyIngress
  BY <1>7, ApplyImages DEF DeployAuthProxyIngress
<1>8. CASE DeployKubernetesIngress
  BY <1>8, ApplyImages DEF DeployKubernetesIngress
<1>9. CASE SetPublicFacingUrl
  <2> DEFINE o == [obj EXCEPT !.status.url = obj.hash]
  <2>1. /\ pc = "setUrl" /\ StatusUpdate(o, "comment", "markFailed")
        /\ UNCHANGED <<job, registry, res>>
    BY <1>9 DEF SetPublicFacingUrl, cluster
  <2>2. /\ o \in Objects /\ o.hash = obj.hash /\ o.status.built = obj.status.built
        /\ o.status.url = obj.hash
    BY DEF BaseInv, TypeOK, Objects, Statuses
  <2>3. HashBuilt(key, obj) /\ VersionsExist(key, o)
    BY <2>1, <2>2 DEF ImageInv, CopyImages, CopyClaims, VersionsExist, HashBuilt
  <2> HIDE DEF o
  <2> QED
    BY <2>1, <2>2, <2>3, StatusImages DEF NextSteps, Steps, OtherSteps
<1>10. CASE PullRequestAlreadyHasMessage \/ PostMessageToPr
  <2>1. /\ pc \in {"comment", "post"} /\ UNCHANGED <<store, job, registry, res>>
        /\ \/ Goto("markRunning", obj, cur) \/ Goto("post", obj, cur)
           \/ Goto("markFailed", obj, cur)
    BY <1>10 DEF PullRequestAlreadyHasMessage, PostMessageToPr, cluster
  <2>2. DeployedImageWasBuilt'
    BY <2>1, DeployedKept DEF ImageInv
  <2> QED
    BY <2>1, <2>2, KeepImages DEF NextSteps, Steps, OtherSteps
<1>11. CASE MarkRunning
  BY <1>11, PhaseImages DEF MarkRunning, Phases, NextSteps, cluster
<1> QED
  BY <1>1, <1>2, <1>3, <1>4, <1>5, <1>6, <1>7, <1>8, <1>9, <1>10, <1>11 DEF Deploying

LEMMA ImagesReconcile ==
  ASSUME BaseInv, ImageInv, NEW i \in Instances, Reconcile(i)
  PROVE  ImageInv'
<1>1. pc = "idle" /\ UNCHANGED <<store, job, registry, res>>
  BY DEF Reconcile, cluster
<1>2. StoredImages' /\ JobImages' /\ DeployedImageWasBuilt'
  BY <1>1 DEF ImageInv, StoredImages, JobImages, DeployedImageWasBuilt, ImagesExist,
              VersionsExist, HashBuilt, Built, store
<1>3. CASE UNCHANGED worker
  BY <1>1, <1>2, <1>3 DEF ImageInv, CopyImages, worker
<1>4. CASE ~UNCHANGED worker
  <2>1. key' = i /\ obj' = cache[i] /\ pc' \in {"delDeployment", "load", "addFinalizer"}
    BY <1>4 DEF Reconcile
  <2>2. ImagesExist(i, cache[i])
    BY DEF ImageInv, StoredImages
  <2>3. CopyImages'
    BY <1>1, <2>1, <2>2 DEF CopyImages, CopyClaims, ImagesExist, VersionsExist, HashBuilt,
                            Built, DeploySteps
  <2> QED
    BY <1>2, <2>3 DEF ImageInv
<1> QED
  BY <1>3, <1>4

LEMMA OtherWritesImages ==
  ASSUME BaseInv, ImageInv, NEW i \in Instances, NEW o, OtherWrites(i, o), ImagesExist(i, o)
  PROVE  ImageInv'
<1>1. /\ pei' = [pei EXCEPT ![i] = o] /\ cache' = cache
      /\ UNCHANGED <<pc, key, obj, job, registry, res>>
  BY DEF OtherWrites, Write, cluster
<1>2. \A l \in Instances : ImagesExist(l, pei'[l]) /\ ImagesExist(l, cache'[l])
  BY <1>1 DEF ImageInv, StoredImages, BaseInv, TypeOK
<1>3. StoredImages'
  BY <1>1, <1>2 DEF StoredImages, ImagesExist, VersionsExist, HashBuilt, Built
<1>4. CopyImages' /\ JobImages' /\ DeployedImageWasBuilt'
  BY <1>1 DEF ImageInv, CopyImages, CopyClaims, JobImages, DeployedImageWasBuilt, ImagesExist,
              VersionsExist, HashBuilt, Built
<1> QED
  BY <1>3, <1>4 DEF ImageInv

LEMMA ImagesUserStep ==
  ASSUME BaseInv, ImageInv, UserStep
  PROVE  ImageInv'
<1>1. PICK i \in Instances : \/ CreateInstance(i) \/ ResetInstance(i) \/ DeleteInstance(i)
                             \/ \E c \in Commits : Push(i, c)
  BY DEF UserStep
<1>2. pei[i] \in Objects /\ ImagesExist(i, pei[i])
  BY DEF BaseInv, TypeOK, ImageInv, StoredImages
<1>3. CASE CreateInstance(i)
  BY <1>3, AbsentImages, OtherWritesImages DEF CreateInstance
<1>4. CASE ResetInstance(i)
  <2> DEFINE o == [pei[i] EXCEPT !.hash = NoCommit]
  <2>1. o.status = pei[i].status /\ o.hash = NoCommit
    BY <1>2 DEF Objects
  <2>2. ImagesExist(i, o)
    <3> HIDE DEF o
    <3> QED BY <1>2, <2>1 DEF ImagesExist, VersionsExist, HashBuilt
  <2> QED
    BY <1>4, <2>2, OtherWritesImages DEF ResetInstance
<1>5. CASE DeleteInstance(i)
  <2> DEFINE o == [pei[i] EXCEPT !.deleting = TRUE]
  <2>1. o.status = pei[i].status /\ o.hash = pei[i].hash
    BY <1>2 DEF Objects
  <2>2. ImagesExist(i, o)
    <3> HIDE DEF o
    <3> QED BY <1>2, <2>1 DEF ImagesExist, VersionsExist, HashBuilt
  <2>3. OtherWrites(i, o) \/ OtherWrites(i, Absent)
    BY <1>5 DEF DeleteInstance
  <2> HIDE DEF o
  <2> QED
    BY <2>2, <2>3, AbsentImages, OtherWritesImages
<1>6. CASE \E c \in Commits : Push(i, c)
  BY <1>6 DEF Push, ImageInv, StoredImages, CopyImages, CopyClaims, JobImages,
              DeployedImageWasBuilt, ImagesExist, VersionsExist, HashBuilt, Built,
              store, worker, cluster
<1> QED
  BY <1>1, <1>3, <1>4, <1>5, <1>6

LEMMA ImagesClusterStep ==
  ASSUME BaseInv, ImageInv, ClusterStep
  PROVE  ImageInv'
<1>1. PICK i \in Instances : \/ CacheSync(i) \/ Resync(i)
                             \/ JobSucceeds(i) \/ JobFails(i) \/ JobExpires(i)
  BY DEF ClusterStep
<1>2. CASE CacheSync(i) \/ Resync(i)
  <2>1. /\ pei' = pei /\ UNCHANGED <<worker, job, registry, res>>
        /\ \A l \in Instances : cache'[l] \in {cache[l], pei[l]}
    BY <1>2 DEF CacheSync, Resync, cluster, store, BaseInv, TypeOK
  <2>2. StoredImages'
    BY <2>1 DEF ImageInv, StoredImages, ImagesExist, VersionsExist, HashBuilt, Built
  <2> QED
    BY <2>1, <2>2 DEF ImageInv, CopyImages, CopyClaims, JobImages, DeployedImageWasBuilt,
                      ImagesExist, VersionsExist, HashBuilt, Built, worker
<1>3. CASE JobSucceeds(i) \/ JobFails(i) \/ JobExpires(i)
  <2> DEFINE pushed == [registry EXCEPT ![i][job[i].tag] = head[i]]
  <2>1. /\ UNCHANGED <<store, worker, res>> /\ \A l \in Instances \ {i} : job'[l] = job[l]
        /\ job[i].state # "none" /\ job[i].tag \in Commits
        /\ \/ job'[i].state \in {"none", "failed"} /\ registry' = registry
           \/ job'[i].state = "succeeded" /\ registry' = pushed
        /\ job'[i].state # "none" => job'[i].tag = job[i].tag
    <3>1. \A l \in Instances : job[l] \in Jobs
      BY DEF BaseInv, TypeOK
    <3> QED
      BY <1>3, <3>1 DEF JobSucceeds, JobFails, JobExpires, NoJob, BaseInv, TypeOK, Jobs,
                        ImageInv, JobImages
  <2>2. \A l \in Instances, c \in Commits :
          /\ Built(l, c) => registry'[l][c] # NoCommit
          /\ registry' = pushed /\ l = i /\ c = job[i].tag => registry'[l][c] # NoCommit
    <3>1. NoCommit \notin Commits /\ head[i] \in Commits
      BY NoCommitAssumption DEF BaseInv, TypeOK
    <3>2. CASE registry' = registry
      BY <2>1, <3>1, <3>2 DEF Built, BaseInv, TypeOK
    <3>3. CASE registry' = pushed
      BY <3>1, <3>3 DEF Built, BaseInv, TypeOK
    <3> QED
      BY <2>1, <3>2, <3>3
  <2>3. \A l \in Instances, o \in Objects :
          /\ VersionsExist(l, o) =>
               /\ \A j \in DOMAIN o.status.built : registry'[l][o.status.built[j]] # NoCommit
               /\ o.status.url # NoCommit => registry'[l][o.status.url] # NoCommit
          /\ HashBuilt(l, o) /\ o.hash # NoCommit => registry'[l][o.hash] # NoCommit
    <3> SUFFICES ASSUME NEW l \in Instances, NEW o \in Objects
                 PROVE  /\ VersionsExist(l, o) =>
                             /\ \A j \in DOMAIN o.status.built :
                                  registry'[l][o.status.built[j]] # NoCommit
                             /\ o.status.url # NoCommit => registry'[l][o.status.url] # NoCommit
                        /\ HashBuilt(l, o) /\ o.hash # NoCommit => registry'[l][o.hash] # NoCommit
      OBVIOUS
    <3>1. /\ o.status.built \in Seq(Commits) /\ o.hash \in Commits \cup {NoCommit}
          /\ o.status.url \in Commits \cup {NoCommit}
      BY DEF Objects, Statuses, BuiltVersions, Revisions
    <3>2. \A j \in DOMAIN o.status.built : o.status.built[j] \in Commits
      BY <3>1, LenProperties, ElementOfSeq
    <3> QED
      BY <2>2, <3>1, <3>2 DEF VersionsExist, HashBuilt
  <2>4. JobImages'
    BY <2>1, <2>2 DEF ImageInv, JobImages, Built
  <2>5. StoredImages'
    <3>1. \A l \in Instances : /\ pei[l] \in Objects /\ ImagesExist(l, pei[l])
                              /\ cache[l] \in Objects /\ ImagesExist(l, cache[l])
      BY DEF ImageInv, StoredImages, BaseInv, TypeOK
    <3>2. pei' = pei /\ cache' = cache
      BY <2>1 DEF store
    <3> QED
      BY <2>3, <3>1, <3>2 DEF StoredImages, ImagesExist, VersionsExist, HashBuilt, Built
  <2>6. CopyImages'
    <3>1. pc = "waitJob" /\ job'[key].state # "none" => job[key].state # "none" /\ job'[key].tag = job[key].tag
      <4>1. pc = "waitJob" => key \in Instances
        BY BusyKey DEF BaseInv
      <4> QED
        BY <2>1, <4>1
    <3>2. pc # "idle" => key \in Instances /\ obj \in Objects
      BY BusyKey DEF BaseInv, TypeOK
    <3> QED
      BY <2>1, <2>3, <3>1, <3>2 DEF ImageInv, CopyImages, CopyClaims, ImagesExist,
                                    VersionsExist, HashBuilt, Built, worker
  <2>7. DeployedImageWasBuilt'
    <3>1. \A l \in Instances : res[l]["deployment"] \in Commits \cup {NoCommit}
      BY DEF BaseInv, TypeOK, Revisions, Kinds, MainKinds
    <3> QED
      BY <2>1, <2>2, <3>1 DEF ImageInv, DeployedImageWasBuilt, Built
  <2> QED
    BY <2>4, <2>5, <2>6, <2>7 DEF ImageInv
<1> QED
  BY <1>1, <1>2, <1>3

LEMMA ImagesCrash ==
  ASSUME BaseInv, ImageInv, Crash
  PROVE  ImageInv'
BY DEF Crash, ImageInv, StoredImages, CopyImages, JobImages, DeployedImageWasBuilt,
       ImagesExist, VersionsExist, HashBuilt, Built, cluster

LEMMA ImagesInit == Init => ImageInv
<1> SUFFICES ASSUME Init
             PROVE  ImageInv
  OBVIOUS
<1>1. \A i \in Instances : pei[i] = Absent /\ cache[i] = Absent /\ job[i] = NoJob
                          /\ res[i]["deployment"] = NoCommit
  BY DEF Init, Kinds, MainKinds
<1>2. StoredImages
  BY <1>1, AbsentImages DEF StoredImages
<1>3. CopyImages /\ JobImages /\ DeployedImageWasBuilt
  BY <1>1 DEF Init, CopyImages, JobImages, DeployedImageWasBuilt, NoJob
<1> QED
  BY <1>2, <1>3 DEF ImageInv

LEMMA ImagesNext == BaseInv /\ ImageInv /\ [Next]_vars => ImageInv'
<1> SUFFICES ASSUME BaseInv, ImageInv, [Next]_vars
             PROVE  ImageInv'
  OBVIOUS
<1>1. CASE UNCHANGED vars
  BY <1>1 DEF vars, store, worker, cluster, ImageInv, StoredImages, CopyImages, CopyClaims,
              JobImages, DeployedImageWasBuilt, ImagesExist, VersionsExist, HashBuilt, Built
<1> QED
  BY <1>1, ImagesDeleting, ImagesDispatching, ImagesBuilding, ImagesDeploying, ImagesReconcile,
     ImagesUserStep, ImagesClusterStep, ImagesCrash
     DEF Next, WorkerStep

\* Whatever fails or restarts between build and deployment, for any number of
\* instances, commits, failures and restarts, no Deployment names an image that
\* was never pushed.
THEOREM DeployedImages == Spec => []DeployedImageWasBuilt
<1>1. ImageInv => DeployedImageWasBuilt
  BY DEF ImageInv
<1> QED
  BY <1>1, BaseAlways, ImagesInit, ImagesNext, PTL DEF Spec

-----------------------------------------------------------------------------
(* What is posted to a pull request *)

LEMMA CommentsKept ==
  ASSUME [Next]_vars
  PROVE  \/ PostMessageToPr \/ PullRequestAlreadyHasMessage
         \/ /\ comments' = comments /\ apiErrors' \in {apiErrors, apiErrors + 1}
            /\ pc' = "post" => UNCHANGED <<pc, key, obj>>
<1> USE DEF Succeeds, ApiError, github
<1> DEFINE Kept == /\ comments' = comments /\ apiErrors' \in {apiErrors, apiErrors + 1}
                   /\ pc' = "post" => UNCHANGED <<pc, key, obj>>
<1>1. ASSUME NEW o, NEW new, NEW ok, NEW err, Put(o, new, ok, err), ok # "post", err # "post"
      PROVE  apiErrors' \in {apiErrors, apiErrors + 1} /\ pc' # "post"
  BY <1>1 DEF Put, Goto
<1>2. ASSUME NEW kind, NEW ok, NEW err, Apply(kind, ok, err) \/ DeleteResource(kind, ok, err),
             ok # "post", err # "post"
      PROVE  Kept
  BY <1>2 DEF Apply, DeleteResource, Goto
<1>3. CASE Deleting
  BY <1>1, <1>2, <1>3 DEF Deleting, DeleteKubernetesDeployment, DeleteKubernetesService,
     DeleteAuthProxyDeployment, DeleteAuthProxyService, DeleteAuthProxyIngress,
     DeleteKubernetesIngress, RemoveFinalizer, Update
<1>4. CASE Dispatching
  <2>1. CASE \E found \in Lookups : LoadPreviewEnvironment(found)
    BY <2>1, LookupsAssumption
       DEF LoadPreviewEnvironment, Goto, RebuildInstance, RedeployInstance, faults
  <2>2. CASE LatestCommitHash
    BY <2>2 DEF LatestCommitHash, Goto
  <2> QED
    BY <1>1, <1>4, <2>1, <2>2 DEF Dispatching, AddFinalizer, UpdateHash, MarkPending, MarkFailed,
       Update, StatusUpdate
<1>5. CASE Building
  BY <1>1, <1>5 DEF Building, MarkBuilding, CleanJob, CreateJob, WaitJob, MarkDeploying,
     StatusUpdate, Goto
<1>6. CASE Deploying
  BY <1>1, <1>2, <1>6 DEF Deploying, MarkRedeploying, SetupAuthentication,
     DeployKubernetesDeployment, DeployKubernetesService, DeployAuthProxyDeployment,
     DeployAuthProxyService, DeployAuthProxyIngress, DeployKubernetesIngress,
     SetPublicFacingUrl, MarkRunning, StatusUpdate, Goto
<1>7. CASE \E i \in Instances : Reconcile(i)
  BY <1>7 DEF Reconcile, worker, faults
<1>8. CASE UserStep \/ ClusterStep
  BY <1>8 DEF UserStep, ClusterStep, CreateInstance, ResetInstance, DeleteInstance, OtherWrites,
     Push, CacheSync, Resync, JobSucceeds, JobFails, JobExpires, worker, faults
<1>9. CASE Crash \/ UNCHANGED vars
  BY <1>9 DEF Crash, vars, worker, faults
<1> QED
  BY <1>3, <1>4, <1>5, <1>6, <1>7, <1>8, <1>9 DEF Next, WorkerStep

\* Only PostMessageToPr adds a comment, and it names the URL of the copy's status.
LEMMA StepPostsBuiltUrl ==
  ASSUME BaseInv, ImageInv, [Next]_vars,
         NEW i \in Instances, NEW u \in Commits, comments'[i][u] > comments[i][u]
  PROVE  registry[i][u] # NoCommit
<1>1. /\ comments \in [Instances -> [Revisions -> Nat]] /\ u \in Revisions
      /\ comments[i][u] \in Nat
  BY DEF BaseInv, TypeOK, Revisions
<1>2. CASE PostMessageToPr
  <2> DEFINE v == obj.status.url
  <2>1. pc = "post" /\ key \in Instances /\ v \in Revisions
    BY <1>2, BusyKey DEF PostMessageToPr, BaseInv, TypeOK, Objects, Statuses
  <2>2. comments' = comments \/ comments' = [comments EXCEPT ![key][v] = @ + 1]
    BY <1>2 DEF PostMessageToPr
  <2>3. VersionsExist(key, obj)
    BY <2>1 DEF ImageInv, CopyImages, CopyClaims
  <2> HIDE DEF v
  <2>4. i = key /\ u = v
    BY <1>1, <2>1, <2>2
  <2> QED
    BY <2>3, <2>4, NoCommitAssumption DEF VersionsExist, Built, v
<1>3. CASE PullRequestAlreadyHasMessage
  <2> DEFINE v == obj.status.url
             n == comments[key][v]
  <2>1. pc = "comment" /\ key \in Instances /\ v \in Revisions
    BY <1>3, BusyKey DEF PullRequestAlreadyHasMessage, BaseInv, TypeOK, Objects, Statuses
  <2>2. n \in Nat
    BY <1>1, <2>1
  <2>3. comments' = comments \/ (n > 0 /\ comments' = [comments EXCEPT ![key][v] = n - 1])
    BY <1>3 DEF PullRequestAlreadyHasMessage
  <2> HIDE DEF v
  <2>4. ~(comments'[i][u] > comments[i][u])
    BY <1>1, <2>1, <2>2, <2>3
  <2> QED
    BY <2>4
<1>4. CASE comments' = comments
  BY <1>1, <1>4
<1> QED
  BY <1>2, <1>3, <1>4, CommentsKept

\* The URL of a comment names a commit that was built, however old the status is it
\* was taken from, for any number of instances, failing calls and restarts.
THEOREM PostedUrls == Spec => PostedUrlWasBuilt
<1>1. BaseInv /\ ImageInv /\ [Next]_vars =>
        [\A i \in Instances, u \in Commits :
           comments'[i][u] > comments[i][u] => registry[i][u] # NoCommit]_vars
  BY StepPostsBuiltUrl
<1> QED
  BY <1>1, BaseAlways, ImagesInit, ImagesNext, PTL DEF Spec, PostedUrlWasBuilt

\* A message is only posted where none was found or the one found was deleted; a
\* failing call may leave one behind.
DuplicatesInv ==
  /\ DuplicatesNeedErrors
  /\ pc = "post" => comments[key][obj.status.url] <= apiErrors

LEMMA DuplicatesNext == BaseInv /\ DuplicatesInv /\ [Next]_vars => DuplicatesInv'
<1> SUFFICES ASSUME BaseInv, DuplicatesInv, [Next]_vars
             PROVE  DuplicatesInv'
  OBVIOUS
<1>1. /\ comments \in [Instances -> [Revisions -> Nat]] /\ apiErrors \in Nat
      /\ \A i \in Instances, u \in Revisions : comments[i][u] <= 1 + apiErrors
  BY BoundsAssumption DEF BaseInv, TypeOK, DuplicatesInv, DuplicatesNeedErrors
<1>2. CASE PostMessageToPr
  <2> DEFINE v == obj.status.url
  <2>1. /\ pc = "post" /\ key \in Instances /\ v \in Revisions
        /\ comments[key][v] <= apiErrors
    BY <1>2, BusyKey DEF PostMessageToPr, BaseInv, TypeOK, Objects, Statuses, DuplicatesInv
  <2>2. /\ comments' = comments \/ comments' = [comments EXCEPT ![key][v] = @ + 1]
        /\ pc' # "post" /\ apiErrors' \in {apiErrors, apiErrors + 1}
    BY <1>2 DEF PostMessageToPr, Goto, Succeeds, ApiError
  <2> HIDE DEF v
  <2>3. \A i \in Instances, u \in Revisions : comments'[i][u] <= 1 + apiErrors'
    BY <1>1, <2>1, <2>2
  <2> QED
    BY <2>2, <2>3 DEF DuplicatesInv, DuplicatesNeedErrors
<1>3. CASE PullRequestAlreadyHasMessage
  <2> DEFINE v == obj.status.url
             n == comments[key][v]
             removed == [comments EXCEPT ![key][v] = n - 1]
  <2>1. pc = "comment" /\ key \in Instances /\ v \in Revisions
    BY <1>3, BusyKey DEF PullRequestAlreadyHasMessage, BaseInv, TypeOK, Objects, Statuses
  <2>2. n \in Nat /\ n <= 1 + apiErrors
    BY <1>1, <2>1
  <2>3. /\ \/ comments' = comments /\ apiErrors' = apiErrors /\ (pc' = "post" => n = 0)
           \/ comments' = comments /\ apiErrors' = apiErrors + 1
           \/ n > 0 /\ comments' = removed /\ apiErrors' \in {apiErrors, apiErrors + 1}
        /\ obj' = obj /\ key' = key
    BY <1>3 DEF PullRequestAlreadyHasMessage, Goto, Succeeds, ApiError
  <2> HIDE DEF v
  <2>4. \A i \in Instances, u \in Revisions : comments'[i][u] <= 1 + apiErrors'
    BY <1>1, <2>1, <2>2, <2>3
  <2>5. pc' = "post" => comments'[key][v] <= apiErrors'
    BY <1>1, <2>1, <2>2, <2>3
  <2> QED
    BY <2>3, <2>4, <2>5 DEF DuplicatesInv, DuplicatesNeedErrors, v
<1>4. CASE /\ comments' = comments /\ apiErrors' \in {apiErrors, apiErrors + 1}
           /\ pc' = "post" => UNCHANGED <<pc, key, obj>>
  <2>1. pc = "post" => key \in Instances /\ obj.status.url \in Revisions
    BY BusyKey DEF BaseInv, TypeOK, Objects, Statuses
  <2>2. \A i \in Instances, u \in Revisions : comments'[i][u] <= 1 + apiErrors'
    BY <1>1, <1>4
  <2>3. pc' = "post" => comments'[key'][obj'.status.url] <= apiErrors'
    BY <1>1, <1>4, <2>1 DEF DuplicatesInv
  <2> QED
    BY <2>2, <2>3 DEF DuplicatesInv, DuplicatesNeedErrors
<1> QED
  BY <1>2, <1>3, <1>4, CommentsKept

\* However often the manager restarts between listing, deleting and posting, each
\* message is there at most once, plus once for every call that has failed.
THEOREM DuplicatesAreErrors == Spec => []DuplicatesNeedErrors
<1>1. Init => DuplicatesInv
  BY DEF Init, DuplicatesInv, DuplicatesNeedErrors
<1>2. DuplicatesInv => DuplicatesNeedErrors
  BY DEF DuplicatesInv
<1> QED
  BY <1>1, <1>2, BaseAlways, DuplicatesNext, PTL DEF Spec

-----------------------------------------------------------------------------
(* What is built *)

NotBuiltYet(o, c) == \A j \in DOMAIN o.status.built : o.status.built[j] # c

LEMMA AbsentBuiltNothing ==
  ASSUME NEW c
  PROVE  NotBuiltYet(Absent, c) /\ NotBuiltYet(NewInstance, c)
<1> DEFINE none == <<>>
<1>1. none \in Seq(Commits) /\ Len(none) = 0
  BY EmptySeq
<1>2. Absent.status.built = none /\ NewInstance.status.built = none
  BY DEF Absent, NewInstance
<1> HIDE DEF none
<1>3. DOMAIN none = {}
  BY <1>1, LenProperties
<1> QED
  BY <1>2, <1>3 DEF NotBuiltYet

\* Only the worker adds built versions.
LEMMA UserBuildsNothing ==
  ASSUME BaseInv, UserStep
  PROVE  \A i \in Instances : \A c : NotBuiltYet(pei[i], c) => NotBuiltYet(pei'[i], c)
<1>1. PICK i \in Instances : \/ CreateInstance(i) \/ ResetInstance(i) \/ DeleteInstance(i)
                             \/ \E c \in Commits : Push(i, c)
  BY DEF UserStep
<1> DEFINE reset == [pei[i] EXCEPT !.hash = NoCommit]
           deleted == [pei[i] EXCEPT !.deleting = TRUE]
<1>2. pei[i] \in Objects /\ reset.status = pei[i].status /\ deleted.status = pei[i].status
  BY DEF BaseInv, TypeOK, Objects
<1>3. pei' = pei \/ \E o \in {Absent, NewInstance, reset, deleted} : pei' = [pei EXCEPT ![i] = o]
  BY <1>1 DEF CreateInstance, ResetInstance, DeleteInstance, OtherWrites, Write, Push, store
<1>4. \A o \in {Absent, NewInstance, reset, deleted} : \A c :
        NotBuiltYet(pei[i], c) => NotBuiltYet(o, c)
  <2> HIDE DEF reset, deleted
  <2> QED BY <1>2, AbsentBuiltNothing DEF NotBuiltYet
<1> HIDE DEF reset, deleted
<1>5. \A l \in Instances : \/ pei'[l] = pei[l]
                           \/ l = i /\ pei'[l] \in {Absent, NewInstance, reset, deleted}
  BY <1>3 DEF BaseInv, TypeOK
<1> QED
  BY <1>4, <1>5

\* The decision to build is taken with a copy that may be old.  If it was, the update
\* to phase building is a conflict; afterwards only this worker adds versions.
BuildInv ==
  /\ pc = "markBuilding" => NotBuiltYet(obj, obj.hash)
  /\ pc \in {"cleanJob", "createJob"} => NotBuiltYet(pei[key], obj.hash)

\* How the worker gets to a build
LEMMA BuildStepsEntered ==
  ASSUME [Next]_vars
  PROVE  \/ MarkBuilding \/ CleanJob \/ UserStep
         \/ \E found \in Lookups : LoadPreviewEnvironment(found)
         \/ UNCHANGED <<pc, key, obj, pei>>
         \/ pc' \notin {"markBuilding", "cleanJob", "createJob"}
<1> DEFINE Entered == {"markBuilding", "cleanJob", "createJob"}
<1>1. ASSUME NEW o, NEW new, NEW ok, NEW err, Put(o, new, ok, err), ok \notin Entered, err \notin Entered
      PROVE  pc' \notin Entered
  BY <1>1 DEF Put, Goto
<1>2. ASSUME NEW kind, NEW ok, NEW err, Apply(kind, ok, err) \/ DeleteResource(kind, ok, err),
             ok \notin Entered, err \notin Entered
      PROVE  pc' \notin Entered
  BY <1>2 DEF Apply, DeleteResource, Goto
<1>3. CASE Deleting
  BY <1>1, <1>2, <1>3 DEF Deleting, DeleteKubernetesDeployment, DeleteKubernetesService,
     DeleteAuthProxyDeployment, DeleteAuthProxyService, DeleteAuthProxyIngress,
     DeleteKubernetesIngress, RemoveFinalizer, Update
<1>4. CASE AddFinalizer \/ LatestCommitHash \/ UpdateHash \/ MarkPending \/ MarkFailed
  BY <1>1, <1>4 DEF AddFinalizer, LatestCommitHash, UpdateHash, MarkPending, MarkFailed,
     Update, StatusUpdate, Goto
<1>5. CASE CreateJob \/ WaitJob \/ MarkDeploying
  BY <1>1, <1>5 DEF CreateJob, WaitJob, MarkDeploying, StatusUpdate, Goto
<1>6. CASE Deploying
  BY <1>1, <1>2, <1>6 DEF Deploying, MarkRedeploying, SetupAuthentication,
     DeployKubernetesDeployment, DeployKubernetesService, DeployAuthProxyDeployment,
     DeployAuthProxyService, DeployAuthProxyIngress, DeployKubernetesIngress,
     SetPublicFacingUrl, PullRequestAlreadyHasMessage, PostMessageToPr, MarkRunning,
     StatusUpdate, Goto
<1>7. CASE \E i \in Instances : Reconcile(i)
  BY <1>7 DEF Reconcile, worker, store
<1>8. CASE ClusterStep \/ Crash \/ UNCHANGED vars
  BY <1>8 DEF ClusterStep, CacheSync, Resync, JobSucceeds, JobFails, JobExpires, Crash, vars,
     worker, store
<1> QED
  BY <1>3, <1>4, <1>5, <1>6, <1>7, <1>8 DEF Next, WorkerStep, Dispatching, Building

LEMMA BuildNext == BaseInv /\ BuildInv /\ [Next]_vars => BuildInv'
<1> SUFFICES ASSUME BaseInv, BuildInv, [Next]_vars
             PROVE  BuildInv'
  OBVIOUS
<1>1. CASE MarkBuilding
  <2> DEFINE o == InPhase("building")
             new == [pei[key] EXCEPT !.status = o.status]
  <2>1. /\ pc = "markBuilding" /\ Put(o, new, "cleanJob", "markFailed")
        /\ obj \in Objects /\ key \in Instances /\ pei[key] \in Objects
    BY <1>1, BusyKey DEF MarkBuilding, StatusUpdate, BaseInv, TypeOK
  <2>2. o.status.built = obj.status.built
    BY <2>1 DEF InPhase, Objects, Statuses
  <2>3. /\ new.status.built = obj.status.built
        /\ cur => new.hash = obj.hash
    BY <2>1, <2>2 DEF Objects, BaseInv, CopyAgrees
  <2> HIDE DEF o, new
  <2>4. \/ pc' = "markFailed"
        \/ cur /\ pc' = "cleanJob" /\ key' = key /\ obj' = new /\ pei' = [pei EXCEPT ![key] = new]
    BY <2>1 DEF Put, Goto, Write
  <2>5. CASE pc' = "markFailed"
    BY <2>5 DEF BuildInv
  <2>6. CASE cur /\ pc' = "cleanJob" /\ key' = key /\ obj' = new /\ pei' = [pei EXCEPT ![key] = new]
    <3>1. pei'[key] = new
      BY <2>1, <2>6 DEF BaseInv, TypeOK
    <3> QED
      BY <2>1, <2>3, <2>6, <3>1 DEF BuildInv, NotBuiltYet
  <2> QED
    BY <2>4, <2>5, <2>6
<1>2. CASE \E found \in Lookups : LoadPreviewEnvironment(found)
  <2>1. /\ pc' \notin {"cleanJob", "createJob"}
        /\ pc' = "markBuilding" => obj' = obj /\ RebuildInstance(obj) = "markBuilding"
    BY <1>2, LookupsAssumption DEF LoadPreviewEnvironment, Goto, RebuildInstance, RedeployInstance
  <2> QED
    BY <2>1 DEF BuildInv, NotBuiltYet, RebuildInstance
<1>3. CASE CleanJob
  BY <1>3 DEF CleanJob, Goto, store, BuildInv, NotBuiltYet
<1>4. CASE UNCHANGED <<pc, key, obj>> /\ UNCHANGED pei
  BY <1>4 DEF BuildInv, NotBuiltYet
<1>5. CASE UserStep
  <2>1. pc # "idle" => key \in Instances
    BY BusyKey DEF BaseInv
  <2>2. UNCHANGED <<pc, key, obj>>
    BY <1>5 DEF UserStep, CreateInstance, ResetInstance, DeleteInstance, OtherWrites, Push, worker
  <2>3. \A i \in Instances : \A c : NotBuiltYet(pei[i], c) => NotBuiltYet(pei'[i], c)
    BY <1>5, UserBuildsNothing
  <2> QED
    BY <2>1, <2>2, <2>3 DEF BuildInv, NotBuiltYet
<1>6. CASE pc' \notin {"markBuilding", "cleanJob", "createJob"}
  BY <1>6 DEF BuildInv
<1> QED
  BY <1>1, <1>2, <1>3, <1>4, <1>5, <1>6, BuildStepsEntered

\* Jobs are deleted and created by the worker; the rest happens in the cluster.
LEMMA JobsKept ==
  ASSUME [Next]_vars
  PROVE  CreateJob \/ CleanJob \/ ClusterStep \/ UNCHANGED job
<1> USE DEF cluster
<1>1. CASE Deleting \/ Dispatching
  BY <1>1 DEF Deleting, Dispatching, DeleteKubernetesDeployment, DeleteKubernetesService,
     DeleteAuthProxyDeployment, DeleteAuthProxyService, DeleteAuthProxyIngress,
     DeleteKubernetesIngress, DeleteResource, RemoveFinalizer, AddFinalizer,
     LoadPreviewEnvironment, LatestCommitHash, UpdateHash, MarkPending, MarkFailed
<1>2. CASE MarkBuilding \/ WaitJob \/ MarkDeploying \/ Deploying
  BY <1>2 DEF MarkBuilding, WaitJob, MarkDeploying, Deploying, MarkRedeploying, SetupAuthentication,
     DeployKubernetesDeployment, DeployKubernetesService, DeployAuthProxyDeployment,
     DeployAuthProxyService, DeployAuthProxyIngress, DeployKubernetesIngress, Apply,
     SetPublicFacingUrl, PullRequestAlreadyHasMessage, PostMessageToPr, MarkRunning
<1>3. CASE UserStep \/ Crash \/ UNCHANGED vars \/ \E i \in Instances : Reconcile(i)
  BY <1>3 DEF UserStep, CreateInstance, ResetInstance, DeleteInstance, OtherWrites, Push, Crash,
     vars, Reconcile
<1> QED
  BY <1>1, <1>2, <1>3 DEF Next, WorkerStep, Building

\* A build is started for a commit that the stored instance does not record as built,
\* however old the version is that the worker has decided by.
LEMMA StepStartsNewBuild ==
  ASSUME BaseInv, BuildInv, [Next]_vars,
         NEW i \in Instances, job[i] # job'[i], job'[i].state = "active"
  PROVE  NotBuiltYet(pei[i], job'[i].tag)
<1>1. job \in [Instances -> Jobs] /\ NoJob.state = "none"
  BY DEF BaseInv, TypeOK, NoJob
<1>2. CASE CreateJob
  <2> DEFINE created == [state |-> "active", tag |-> obj.hash]
  <2>1. /\ pc = "createJob" /\ key \in Instances
        /\ job' = [job EXCEPT ![key] = created]
    BY <1>2, BusyKey DEF CreateJob, BaseInv
  <2>2. created.tag = obj.hash
    OBVIOUS
  <2> HIDE DEF created
  <2>3. i = key /\ job'[i].tag = obj.hash
    BY <1>1, <2>1, <2>2
  <2> QED
    BY <2>1, <2>3 DEF BuildInv
<1>3. CASE CleanJob
  BY <1>1, <1>3, BusyKey DEF CleanJob, BaseInv
<1>4. CASE ClusterStep
  BY <1>1, <1>4 DEF ClusterStep, CacheSync, Resync, JobSucceeds, JobFails, JobExpires, cluster, Jobs
<1> QED
  BY <1>2, <1>3, <1>4, JobsKept

\* No job is started for a commit that is recorded as built, for any number of
\* instances and kept versions, failing calls and restarts.
THEOREM NothingIsRebuilt == Spec => NeverRebuilt
<1>1. Init => BuildInv
  BY DEF Init, BuildInv
<1>2. BaseInv /\ BuildInv /\ [Next]_vars =>
        [\A i \in Instances :
           job[i] # job'[i] /\ job'[i].state = "active" =>
             \A j \in DOMAIN pei[i].status.built : pei[i].status.built[j] # job'[i].tag]_vars
  BY StepStartsNewBuild DEF NotBuiltYet
<1> QED
  BY <1>1, <1>2, BaseAlways, BuildNext, PTL DEF Spec, NeverRebuilt

=============================================================================
