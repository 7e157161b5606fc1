---------------------- MODULE InstanceReconciler_proofs ----------------------
(***************************************************************************)
(* Theorems about InstanceReconciler.                                      *)
(*                                                                         *)
(* The base invariant says what the optimistic locking gives the worker:   *)
(* as long as its copy carries the current resourceVersion, it agrees with *)
(* the stored object on what the worker has not changed itself.            *)
(***************************************************************************)
EXTENDS InstanceReconciler, SequenceTheorems, TLAPS

-----------------------------------------------------------------------------
(* The base invariant *)

\* An up-to-date cache entry is the stored object.
FreshIsCurrent == \A i \in Instances : fresh[i] => cache[i] = pei[i]

\* The API server removes a deleted object together with its last finalizer.
GoneWhenUnguarded == \A i \in Instances : pei[i].deleting => pei[i].exists /\ pei[i].finalizer

StoreInv == FreshIsCurrent /\ GoneWhenUnguarded

\* Steps at which the copy's status is ahead of the stored one
StatusAhead == {"markDeploying", "markFailed"}

\* A copy with the current resourceVersion agrees with the stored object.
CopyAgrees ==
  cur => /\ pc # "idle" /\ pei[key].exists
         /\ obj.exists = pei[key].exists
         /\ obj.deleting = pei[key].deleting
         /\ obj.finalizer = pei[key].finalizer
         /\ pc # "updateHash" => obj.hash = pei[key].hash
         /\ pc \notin StatusAhead => obj.status = pei[key].status

\* Only a known commit is built.
BuildsACommit == pc \in BuildSteps => obj.hash \in Commits

BaseInv == TypeOK /\ StoreInv /\ CopyAgrees /\ BuildsACommit

-----------------------------------------------------------------------------
(* Lemmas about the operators *)

\* Where an API call can lead
NextSteps == (Steps \ {"idle"}) \cup {"done", "requeue"}

LEMMA AbsentType == Absent \in Objects /\ NewInstance \in Objects
<1>1. <<>> \in BuiltVersions
  BY EmptySeq, KeepBuiltAssumption DEF BuiltVersions
<1>2. [phase |-> "", built |-> <<>>, url |-> NoCommit] \in Statuses
  BY <1>1 DEF Statuses, Phases, Revisions
<1> QED
  BY <1>2 DEF Absent, NewInstance, Objects, Revisions

\* updateBuiltVersions keeps at most keep versions.
LEMMA UpdateBuiltVersionsType ==
  ASSUME NEW versions \in BuiltVersions, NEW hash \in Commits
  PROVE  UpdateBuiltVersions(versions, hash, KeepBuilt) \in BuiltVersions
<1> DEFINE all == Append(versions, hash)
<1>1. versions \in Seq(Commits) /\ Len(versions) \in Nat /\ Len(versions) <= KeepBuilt
  BY LenProperties DEF BuiltVersions
<1>2. all \in Seq(Commits) /\ Len(all) = Len(versions) + 1
  BY <1>1
<1>3. CASE Len(all) > KeepBuilt
  <2> DEFINE m == Len(all) - KeepBuilt + 1
  <2>1. m \in Int /\ Len(all) \in Int /\ m >= 1
    BY <1>1, <1>2, <1>3, KeepBuiltAssumption
  <2>2. \A j \in m..Len(all) : all[j] \in Commits
    BY <1>2, <2>1, ElementOfSeq
  <2>3. SubSeq(all, m, Len(all)) \in Seq(Commits)
        /\ Len(SubSeq(all, m, Len(all))) = IF m <= Len(all) THEN Len(all) - m + 1 ELSE 0
    <3> HIDE DEF all, m
    <3> QED BY <2>1, <2>2, SubSeqProperties
  <2>4. Len(SubSeq(all, m, Len(all))) <= KeepBuilt
    BY <2>1, <2>3, KeepBuiltAssumption
  <2> QED
    BY <1>3, <2>3, <2>4 DEF UpdateBuiltVersions, BuiltVersions
<1>4. CASE ~(Len(all) > KeepBuilt)
  BY <1>1, <1>2, <1>4, KeepBuiltAssumption DEF UpdateBuiltVersions, BuiltVersions
<1> QED
  BY <1>3, <1>4

\* Changing the phase of the copy changes nothing else.
LEMMA InPhaseType ==
  ASSUME obj \in Objects, NEW p \in Phases
  PROVE  /\ InPhase(p) \in Objects
         /\ InPhase(p) = [obj EXCEPT !.status = [obj.status EXCEPT !.phase = p]]
         /\ InPhase(p).exists = obj.exists /\ InPhase(p).deleting = obj.deleting
         /\ InPhase(p).finalizer = obj.finalizer /\ InPhase(p).hash = obj.hash
BY DEF InPhase, Objects, Statuses

\* The parts of TypeOK: the worker and its queue, and everything else
StoreType ==
  /\ pei \in [Instances -> Objects] /\ cache \in [Instances -> Objects]
  /\ fresh \in [Instances -> BOOLEAN]

WorkerType ==
  /\ queue \subseteq Instances /\ pc \in Steps /\ key \in Instances \cup {NoKey}
  /\ obj \in Objects /\ cur \in BOOLEAN /\ (pc = "idle" <=> key = NoKey)

WorldType ==
  /\ head \in [Instances -> Commits]
  /\ comments \in [Instances -> [Revisions -> Nat]]
  /\ job \in [Instances -> Jobs]
  /\ registry \in [Instances -> [Commits -> Revisions]]
  /\ res \in [Instances -> [Kinds -> Revisions]]
  /\ apiErrors \in 0..MaxApiErrors /\ crashes \in 0..MaxCrashes

LEMMA TypeParts ==
  /\ TypeOK <=> StoreType /\ WorkerType /\ WorldType
  /\ TypeOK' <=> StoreType' /\ WorkerType' /\ WorldType'
BY DEF TypeOK, StoreType, WorkerType, WorldType

\* While it is not idle, the worker processes an instance.
LEMMA BusyKey ==
  ASSUME TypeOK, pc # "idle"
  PROVE  key \in Instances
BY NoKeyAssumption DEF TypeOK

LEMMA ErrorsBounded ==
  ASSUME TypeOK, Succeeds \/ ApiError
  PROVE  apiErrors' \in 0..MaxApiErrors
BY BoundsAssumption DEF TypeOK, Succeeds, ApiError

\* An API call that does not write the object keeps what the worker knows of it.
LEMMA GotoInv ==
  ASSUME BaseInv, pc # "idle", UNCHANGED store,
         NEW step \in NextSteps, NEW o \in Objects, Goto(step, o, cur),
         o.exists = obj.exists, o.deleting = obj.deleting, o.finalizer = obj.finalizer,
         pc # "updateHash", step # "updateHash" => o.hash = obj.hash,
         pc \notin StatusAhead, step \notin StatusAhead => o.status = obj.status,
         step \in BuildSteps => o.hash \in Commits
  PROVE  StoreType' /\ WorkerType' /\ StoreInv' /\ CopyAgrees' /\ BuildsACommit'
<1>1. key \in Instances
  BY BusyKey DEF BaseInv
<1>2. StoreType' /\ StoreInv'
  BY DEF BaseInv, TypeOK, StoreType, StoreInv, FreshIsCurrent, GoneWhenUnguarded, store
<1>3. CASE step \in {"done", "requeue"}
  BY <1>1, <1>2, <1>3, AbsentType
     DEF Goto, BaseInv, TypeOK, WorkerType, CopyAgrees, BuildsACommit, Steps, OtherSteps, BuildSteps
<1>4. CASE step \notin {"done", "requeue"}
  <2>1. /\ pc' = step /\ obj' = o /\ cur' = cur /\ key' = key /\ queue' = queue
        /\ pei' = pei /\ step \in Steps /\ step # "idle"
    BY <1>4 DEF Goto, NextSteps, store
  <2>2. WorkerType'
    BY <1>1, <2>1, NoKeyAssumption DEF BaseInv, TypeOK, WorkerType
  <2>3. CopyAgrees' /\ BuildsACommit'
    BY <2>1 DEF BaseInv, CopyAgrees, BuildsACommit, StatusAhead
  <2> QED
    BY <1>2, <2>2, <2>3
<1> QED
  BY <1>3, <1>4

\* A write of the worker, successful or not, keeps its copy in agreement.
LEMMA PutInv ==
  ASSUME BaseInv, pc # "idle", NEW o \in Objects, NEW new \in Objects,
         NEW ok \in NextSteps, NEW err \in {"requeue", "markFailed"},
         Put(o, new, ok, err),
         cur /\ ok \notin {"done", "requeue"} => new.exists,
         cur /\ ok \in BuildSteps => new.hash \in Commits,
         cur /\ new.deleting => new.exists /\ new.finalizer,
         err = "markFailed" =>
           /\ o.exists = obj.exists /\ o.deleting = obj.deleting
           /\ o.finalizer = obj.finalizer /\ o.hash = obj.hash /\ pc # "updateHash"
  PROVE  /\ StoreType' /\ WorkerType' /\ StoreInv' /\ CopyAgrees' /\ BuildsACommit'
         /\ apiErrors' \in 0..MaxApiErrors
<1>1. key \in Instances
  BY BusyKey DEF BaseInv
<1>2. apiErrors' \in 0..MaxApiErrors
  BY ErrorsBounded DEF Put, BaseInv
<1>3. ASSUME Write(key, new)
      PROVE  /\ StoreType' /\ pei'[key] = new /\ FreshIsCurrent'
             /\ cur => GoneWhenUnguarded'
             /\ new = pei[key] => pei' = pei
  BY <1>1, <1>3 DEF Write, BaseInv, TypeOK, StoreType, StoreInv, FreshIsCurrent, GoneWhenUnguarded
<1>4. ASSUME UNCHANGED store
      PROVE  StoreType' /\ StoreInv' /\ pei' = pei
  BY <1>4 DEF store, BaseInv, TypeOK, StoreType, StoreInv, FreshIsCurrent, GoneWhenUnguarded
<1>5. ASSUME NEW step \in NextSteps, NEW c \in Objects, NEW b \in BOOLEAN, Goto(step, c, b)
      PROVE  /\ WorkerType'
             /\ step \in {"done", "requeue"} => pc' = "idle" /\ ~cur'
             /\ step \notin {"done", "requeue"} =>
                  pc' = step /\ pc' # "idle" /\ obj' = c /\ cur' = b /\ key' = key
  BY <1>1, <1>5, AbsentType, NoKeyAssumption
     DEF Goto, BaseInv, TypeOK, WorkerType, NextSteps, Steps, OtherSteps
<1>6. err \in NextSteps
  BY DEF NextSteps, Steps, OtherSteps
<1>7. CASE cur /\ Succeeds /\ Write(key, new) /\ Goto(ok, new, TRUE)
  <2>1. StoreType' /\ StoreInv' /\ pei'[key] = new
    BY <1>3, <1>7 DEF StoreInv
  <2>2. CASE ok \in {"done", "requeue"}
    BY <1>2, <1>5, <1>7, <2>1, <2>2 DEF CopyAgrees, BuildsACommit, BuildSteps
  <2>3. CASE ok \notin {"done", "requeue"}
    BY <1>2, <1>5, <1>7, <2>1, <2>3 DEF CopyAgrees, BuildsACommit
  <2> QED
    BY <2>2, <2>3
<1>8. CASE ~cur /\ Succeeds /\ Goto(err, o, FALSE) /\ UNCHANGED store
  BY <1>2, <1>4, <1>5, <1>6, <1>8 DEF CopyAgrees, BuildsACommit, BuildSteps
<1>9. CASE ApiError /\ Goto(err, o, cur) /\ UNCHANGED store
  <2>1. cur \in BOOLEAN
    BY DEF BaseInv, TypeOK
  <2> QED
    BY <1>2, <1>4, <1>5, <1>6, <1>9, <2>1
       DEF CopyAgrees, BuildsACommit, BuildSteps, StatusAhead, BaseInv
<1>10. CASE cur /\ ApiError /\ Write(key, new) /\ Goto(err, o, new = pei[key])
  BY <1>2, <1>3, <1>5, <1>6, <1>10
     DEF CopyAgrees, BuildsACommit, BuildSteps, StatusAhead, BaseInv, StoreInv
<1> QED
  BY <1>7, <1>8, <1>9, <1>10 DEF Put

\* Status().Update of a copy that differs from obj in its status only
LEMMA StatusUpdateInv ==
  ASSUME BaseInv, pc \notin {"idle", "updateHash"}, NEW o \in Objects,
         NEW ok \in NextSteps, NEW err \in {"requeue", "markFailed"},
         StatusUpdate(o, ok, err),
         o.exists = obj.exists, o.deleting = obj.deleting,
         o.finalizer = obj.finalizer, o.hash = obj.hash,
         ok \in BuildSteps => obj.hash \in Commits
  PROVE  /\ StoreType' /\ WorkerType' /\ StoreInv' /\ CopyAgrees' /\ BuildsACommit'
         /\ apiErrors' \in 0..MaxApiErrors
<1> DEFINE new == [pei[key] EXCEPT !.status = o.status]
<1>1. key \in Instances /\ pei[key] \in Objects
  BY BusyKey DEF BaseInv, TypeOK
<1>2. /\ new \in Objects /\ new.exists = pei[key].exists /\ new.hash = pei[key].hash
      /\ new.deleting => new.exists /\ new.finalizer
  BY <1>1 DEF Objects, BaseInv, StoreInv, GoneWhenUnguarded
<1>3. cur => new.exists /\ new.hash = obj.hash
  BY <1>2 DEF BaseInv, CopyAgrees
<1>4. Put(o, new, ok, err)
  BY DEF StatusUpdate
<1> HIDE DEF new
<1> QED
  BY <1>2, <1>3, <1>4, PutInv, SMT

\* An API call that keeps the copy and does not lead to a build
LEMMA KeepCopyInv ==
  ASSUME BaseInv, pc \notin {"idle", "updateHash"} \cup StatusAhead, UNCHANGED store,
         NEW step \in NextSteps \ (BuildSteps \cup {"updateHash"}), Goto(step, obj, cur)
  PROVE  StoreType' /\ WorkerType' /\ StoreInv' /\ CopyAgrees' /\ BuildsACommit'
<1>1. obj \in Objects
  BY DEF BaseInv, TypeOK
<1> QED
  BY <1>1, GotoInv

LEMMA BaseFromParts ==
  ASSUME StoreType', WorkerType', WorldType', StoreInv', CopyAgrees', BuildsACommit'
  PROVE  BaseInv'
BY TypeParts DEF BaseInv

\* What a step leaves alone keeps its type.
LEMMA WorldKept ==
  ASSUME BaseInv, UNCHANGED <<github, cluster, crashes>>, apiErrors' \in 0..MaxApiErrors
  PROVE  WorldType'
BY DEF BaseInv, TypeOK, WorldType, github, cluster

LEMMA ResType ==
  ASSUME TypeOK, NEW kind \in Kinds, NEW r \in Revisions, key \in Instances
  PROVE  [res EXCEPT ![key][kind] = r] \in [Instances -> [Kinds -> Revisions]]
BY DEF TypeOK

LEMMA ApplyInv ==
  ASSUME BaseInv, pc \in DeploySteps, NEW kind \in Kinds,
         NEW ok \in NextSteps \ (BuildSteps \cup {"updateHash"}),
         NEW err \in NextSteps \ (BuildSteps \cup {"updateHash"}),
         Apply(kind, ok, err)
  PROVE  BaseInv'
<1>1. pc \notin {"idle", "updateHash"} \cup StatusAhead
  BY DEF DeploySteps, StatusAhead
<1>2. PICK step \in {ok, err} : Goto(step, obj, cur)
  BY DEF Apply
<1>3. StoreType' /\ WorkerType' /\ StoreInv' /\ CopyAgrees' /\ BuildsACommit'
  BY <1>1, <1>2, KeepCopyInv DEF Apply
<1>4. Succeeds \/ ApiError
  BY DEF Apply
<1>5. obj.hash \in Revisions /\ key \in Instances
  BY <1>1, BusyKey DEF BaseInv, TypeOK, Objects
<1>6. res' \in [Instances -> [Kinds -> Revisions]]
  <2>1. res' = res \/ res' = [res EXCEPT ![key][kind] = obj.hash]
    BY DEF Apply
  <2>2. [res EXCEPT ![key][kind] = obj.hash] \in [Instances -> [Kinds -> Revisions]]
    BY <1>5, ResType DEF BaseInv
  <2> QED
    BY <2>1, <2>2 DEF BaseInv, TypeOK
<1>7. WorldType'
  BY <1>4, <1>6, ErrorsBounded DEF Apply, BaseInv, TypeOK, WorldType, github
<1> QED
  BY <1>3, <1>7, BaseFromParts

LEMMA DeleteResourceInv ==
  ASSUME BaseInv, pc \in DeleteSteps, NEW kind \in Kinds,
         NEW ok \in DeleteSteps, NEW err \in DeleteSteps,
         DeleteResource(kind, ok, err)
  PROVE  BaseInv'
<1>1. pc \notin {"idle", "updateHash"} \cup StatusAhead
  BY DEF DeleteSteps, StatusAhead
<1>2. PICK step \in {ok, err} : Goto(step, obj, cur)
  BY DEF DeleteResource
<1>3. step \in NextSteps \ (BuildSteps \cup {"updateHash"})
  BY <1>2 DEF DeleteSteps, NextSteps, Steps, BuildSteps
<1>4. StoreType' /\ WorkerType' /\ StoreInv' /\ CopyAgrees' /\ BuildsACommit'
  BY <1>1, <1>2, <1>3, KeepCopyInv DEF DeleteResource
<1>5. Succeeds \/ ApiError
  BY DEF DeleteResource
<1>6. key \in Instances /\ NoCommit \in Revisions
  BY <1>1, BusyKey DEF BaseInv, Revisions
<1>7. res' \in [Instances -> [Kinds -> Revisions]]
  <2>1. res' = res \/ res' = [res EXCEPT ![key][kind] = NoCommit]
    BY DEF DeleteResource
  <2>2. [res EXCEPT ![key][kind] = NoCommit] \in [Instances -> [Kinds -> Revisions]]
    BY <1>6, ResType DEF BaseInv
  <2> QED
    BY <2>1, <2>2 DEF BaseInv, TypeOK
<1>8. WorldType'
  BY <1>5, <1>7, ErrorsBounded DEF DeleteResource, BaseInv, TypeOK, WorldType, github
<1> QED
  BY <1>4, <1>8, BaseFromParts

-----------------------------------------------------------------------------
(* Every step keeps the base invariant *)

LEMMA BaseDeleting ==
  ASSUME BaseInv, Deleting
  PROVE  BaseInv'
<1> USE DEF DeleteSteps, Kinds, MainKinds, AuthKinds
<1>1. CASE DeleteKubernetesDeployment
  BY <1>1, DeleteResourceInv DEF DeleteKubernetesDeployment
<1>2. CASE DeleteKubernetesService
  BY <1>2, DeleteResourceInv DEF DeleteKubernetesService
<1>3. CASE DeleteAuthProxyDeployment
  BY <1>3, DeleteResourceInv DEF DeleteAuthProxyDeployment
<1>4. CASE DeleteAuthProxyService
  BY <1>4, DeleteResourceInv DEF DeleteAuthProxyService
<1>5. CASE DeleteAuthProxyIngress
  BY <1>5, DeleteResourceInv DEF DeleteAuthProxyIngress
<1>6. CASE DeleteKubernetesIngress
  BY <1>6, DeleteResourceInv DEF DeleteKubernetesIngress
<1>7. CASE RemoveFinalizer
  <2> DEFINE o == [obj EXCEPT !.finalizer = FALSE]
             new == IF o.deleting /\ ~o.finalizer
                      THEN Absent ELSE [o EXCEPT !.status = pei[key].status]
  <2>1. pc = "removeFinalizer" /\ Put(o, new, "done", "requeue")
    BY <1>7 DEF RemoveFinalizer, Update
  <2>2. key \in Instances /\ obj \in Objects /\ pei[key] \in Objects
    BY <2>1, BusyKey DEF BaseInv, TypeOK
  <2>3. o \in Objects /\ new \in Objects /\ ~new.deleting
    BY <2>2, AbsentType DEF Objects, Absent
  <2>4. "done" \in NextSteps \ BuildSteps
    BY DEF NextSteps, BuildSteps
  <2>5. /\ StoreType' /\ WorkerType' /\ StoreInv' /\ CopyAgrees' /\ BuildsACommit'
        /\ apiErrors' \in 0..MaxApiErrors
    <3> HIDE DEF o, new
    <3> QED BY <2>1, <2>3, <2>4, PutInv, SMT
  <2> QED
    BY <1>7, <2>5, WorldKept, BaseFromParts DEF RemoveFinalizer
<1> QED
  BY <1>1, <1>2, <1>3, <1>4, <1>5, <1>6, <1>7 DEF Deleting

\* A status update of the copy with another phase
LEMMA PhaseUpdateInv ==
  ASSUME BaseInv, pc \notin {"idle", "updateHash"}, NEW p \in Phases,
         NEW ok \in NextSteps, NEW err \in {"requeue", "markFailed"},
         StatusUpdate(InPhase(p), ok, err),
         UNCHANGED <<github, cluster, crashes>>,
         ok \in BuildSteps => obj.hash \in Commits
  PROVE  BaseInv'
<1>1. obj \in Objects
  BY DEF BaseInv, TypeOK
<1>2. /\ StoreType' /\ WorkerType' /\ StoreInv' /\ CopyAgrees' /\ BuildsACommit'
      /\ apiErrors' \in 0..MaxApiErrors
  BY <1>1, InPhaseType, StatusUpdateInv
<1> QED
  BY <1>2, WorldKept, BaseFromParts

LEMMA BaseDispatching ==
  ASSUME BaseInv, Dispatching
  PROVE  BaseInv'
<1> USE DEF NextSteps, Steps, OtherSteps
<1>1. CASE AddFinalizer
  <2> DEFINE o == [obj EXCEPT !.finalizer = TRUE]
             new == [o EXCEPT !.status = pei[key].status]
  <2>1. pc = "addFinalizer"
    BY <1>1 DEF AddFinalizer
  <2>2. key \in Instances /\ obj \in Objects /\ pei[key] \in Objects
    BY <2>1, BusyKey DEF BaseInv, TypeOK
  <2>3. /\ o \in Objects /\ new \in Objects
        /\ new.exists = obj.exists /\ o.finalizer /\ new.finalizer
    BY <2>2 DEF Objects
  <2>4. Put(o, new, "load", "requeue")
    BY <1>1, <2>3 DEF AddFinalizer, Update
  <2>5. cur => new.exists
    BY <2>3 DEF BaseInv, CopyAgrees
  <2>6. "load" \notin BuildSteps
    BY DEF BuildSteps
  <2>7. /\ StoreType' /\ WorkerType' /\ StoreInv' /\ CopyAgrees' /\ BuildsACommit'
        /\ apiErrors' \in 0..MaxApiErrors
    <3> HIDE DEF o, new
    <3> QED BY <2>1, <2>3, <2>4, <2>5, <2>6, PutInv, SMT
  <2> QED
    BY <1>1, <2>7, WorldKept, BaseFromParts DEF AddFinalizer
<1>2. ASSUME NEW found \in Lookups, LoadPreviewEnvironment(found)
      PROVE  BaseInv'
  <2>1. pc = "load" /\ UNCHANGED <<store, github, cluster, faults>>
    BY <1>2 DEF LoadPreviewEnvironment
  <2>2. obj \in Objects /\ obj.hash \in Revisions
    BY DEF BaseInv, TypeOK, Objects
  <2>3. PICK step \in {"requeue", "markDeploying", "markBuilding", "comment", "redeploy", "latest"} :
          Goto(step, obj, cur) /\ (step = "markBuilding" => obj.hash # NoCommit)
    BY <1>2 DEF LoadPreviewEnvironment, RebuildInstance, RedeployInstance
  <2>4. step \in BuildSteps => obj.hash \in Commits
    BY <2>2, <2>3 DEF BuildSteps, Revisions
  <2>5. StoreType' /\ WorkerType' /\ StoreInv' /\ CopyAgrees' /\ BuildsACommit'
    BY <2>1, <2>2, <2>3, <2>4, GotoInv DEF StatusAhead, BuildSteps
  <2>6. apiErrors' \in 0..MaxApiErrors
    BY <2>1 DEF faults, BaseInv, TypeOK
  <2> QED
    BY <2>1, <2>5, <2>6, WorldKept, BaseFromParts DEF faults
<1>3. CASE LatestCommitHash
  <2>1. /\ pc = "latest" /\ UNCHANGED <<store, github, cluster, crashes>>
        /\ Succeeds \/ ApiError
    BY <1>3 DEF LatestCommitHash
  <2>2. key \in Instances /\ obj \in Objects /\ head[key] \in Commits
    BY <2>1, BusyKey DEF BaseInv, TypeOK
  <2> DEFINE o == [obj EXCEPT !.hash = head[key]]
  <2>3. /\ o \in Objects /\ o.exists = obj.exists /\ o.deleting = obj.deleting
        /\ o.finalizer = obj.finalizer /\ o.status = obj.status
    BY <2>2 DEF Objects, Revisions
  <2>4. \/ Goto("requeue", obj, cur)
        \/ Goto("done", o, cur)
        \/ Goto("updateHash", o, cur)
    BY <1>3 DEF LatestCommitHash
  <2>5. CASE Goto("requeue", obj, cur)
    BY <2>1, <2>2, <2>5, KeepCopyInv, WorldKept, BaseFromParts, ErrorsBounded
       DEF StatusAhead, BuildSteps, BaseInv
  <2>6. CASE Goto("done", o, cur)
    <3>1. Goto("done", obj, cur)
      BY <2>6 DEF Goto
    <3> QED
      BY <2>1, <2>2, <3>1, KeepCopyInv, WorldKept, BaseFromParts, ErrorsBounded
         DEF StatusAhead, BuildSteps, BaseInv
  <2>7. CASE Goto("updateHash", o, cur)
    <3>1. StoreType' /\ WorkerType' /\ StoreInv' /\ CopyAgrees' /\ BuildsACommit'
      <4> HIDE DEF o
      <4> QED BY <2>1, <2>3, <2>7, GotoInv DEF StatusAhead, BuildSteps
    <3> QED
      BY <2>1, <3>1, WorldKept, BaseFromParts, ErrorsBounded DEF BaseInv
  <2> QED
    BY <2>4, <2>5, <2>6, <2>7
<1>4. CASE UpdateHash
  <2> DEFINE new == IF obj.deleting /\ ~obj.finalizer
                      THEN Absent ELSE [obj EXCEPT !.status = pei[key].status]
  <2>1. pc = "updateHash" /\ Put(obj, new, "markPending", "requeue")
    BY <1>4 DEF UpdateHash, Update
  <2>2. key \in Instances /\ obj \in Objects /\ pei[key] \in Objects
    BY <2>1, BusyKey DEF BaseInv, TypeOK
  <2>3. new \in Objects
    BY <2>2, AbsentType DEF Objects
  <2>4. cur => new.exists /\ (new.deleting => new.finalizer)
    BY <2>2 DEF BaseInv, CopyAgrees, StoreInv, GoneWhenUnguarded, Objects
  <2>5. "markPending" \notin BuildSteps
    BY DEF BuildSteps
  <2>6. /\ StoreType' /\ WorkerType' /\ StoreInv' /\ CopyAgrees' /\ BuildsACommit'
        /\ apiErrors' \in 0..MaxApiErrors
    <3> HIDE DEF new
    <3> QED BY <2>1, <2>2, <2>3, <2>4, <2>5, PutInv, SMT
  <2> QED
    BY <1>4, <2>6, WorldKept, BaseFromParts DEF UpdateHash
<1>5. CASE MarkPending
  BY <1>5, PhaseUpdateInv DEF MarkPending, Phases, BuildSteps
<1>6. CASE MarkFailed
  BY <1>6, PhaseUpdateInv DEF MarkFailed, Phases, BuildSteps
<1> QED
  BY <1>1, <1>2, <1>3, <1>4, <1>5, <1>6 DEF Dispatching

LEMMA BaseBuilding ==
  ASSUME BaseInv, Building
  PROVE  BaseInv'
<1> USE DEF NextSteps, Steps, OtherSteps, BuildSteps
<1>1. CASE MarkBuilding
  BY <1>1, PhaseUpdateInv DEF MarkBuilding, Phases, BaseInv, BuildsACommit
<1>2. CASE CleanJob
  <2>1. /\ pc = "cleanJob" /\ UNCHANGED <<store, github, registry, res, crashes>>
        /\ Succeeds \/ ApiError
        /\ Goto("createJob", obj, cur) \/ Goto("markFailed", obj, cur)
        /\ job' = job \/ job' = [job EXCEPT ![key] = NoJob]
    BY <1>2 DEF CleanJob
  <2>2. key \in Instances /\ obj \in Objects /\ obj.hash \in Commits /\ NoJob \in Jobs
    BY <2>1, BusyKey DEF BaseInv, TypeOK, BuildsACommit, NoJob, Jobs, Revisions
  <2>3. StoreType' /\ WorkerType' /\ StoreInv' /\ CopyAgrees' /\ BuildsACommit'
    BY <2>1, <2>2, GotoInv DEF StatusAhead
  <2>4. job' \in [Instances -> Jobs]
    BY <2>1, <2>2 DEF BaseInv, TypeOK
  <2>5. WorldType'
    BY <2>1, <2>4, ErrorsBounded DEF BaseInv, TypeOK, WorldType, github
  <2> QED
    BY <2>3, <2>5, BaseFromParts
<1>3. CASE CreateJob
  <2> DEFINE created == [job EXCEPT ![key] = [state |-> "active", tag |-> obj.hash]]
  <2>1. /\ pc = "createJob" /\ UNCHANGED <<store, github, registry, res, crashes>>
        /\ Succeeds \/ ApiError
        /\ Goto("waitJob", obj, cur) \/ Goto("markFailed", obj, cur)
        /\ job' = job \/ job' = created
    BY <1>3 DEF CreateJob
  <2>2. key \in Instances /\ obj \in Objects /\ obj.hash \in Commits
    BY <2>1, BusyKey DEF BaseInv, TypeOK, BuildsACommit
  <2>3. StoreType' /\ WorkerType' /\ StoreInv' /\ CopyAgrees' /\ BuildsACommit'
    BY <2>1, <2>2, GotoInv DEF StatusAhead
  <2>4. [state |-> "active", tag |-> obj.hash] \in Jobs
    BY <2>2 DEF Jobs, Revisions
  <2>5. job' \in [Instances -> Jobs]
    BY <2>1, <2>2, <2>4 DEF BaseInv, TypeOK
  <2>6. WorldType'
    BY <2>1, <2>5, ErrorsBounded DEF BaseInv, TypeOK, WorldType, github
  <2> QED
    BY <2>3, <2>6, BaseFromParts
<1>4. CASE WaitJob
  <2> DEFINE built == UpdateBuiltVersions(obj.status.built, obj.hash, KeepBuilt)
             o == [obj EXCEPT !.status.built = built]
  <2>1. /\ pc = "waitJob" /\ UNCHANGED <<store, github, cluster, crashes>>
        /\ Succeeds \/ ApiError
        /\ Goto("markDeploying", o, cur) \/ Goto("markFailed", obj, cur)
    BY <1>4 DEF WaitJob
  <2>2. obj \in Objects /\ obj.hash \in Commits /\ obj.status.built \in BuiltVersions
    BY <2>1 DEF BaseInv, TypeOK, BuildsACommit, Objects, Statuses
  <2>3. built \in BuiltVersions
    BY <2>2, UpdateBuiltVersionsType
  <2>4. /\ o \in Objects /\ o.exists = obj.exists /\ o.deleting = obj.deleting
        /\ o.finalizer = obj.finalizer /\ o.hash = obj.hash
    <3> HIDE DEF built
    <3> QED BY <2>2, <2>3 DEF Objects, Statuses
  <2>5. StoreType' /\ WorkerType' /\ StoreInv' /\ CopyAgrees' /\ BuildsACommit'
    <3> HIDE DEF o
    <3> QED BY <2>1, <2>2, <2>4, GotoInv DEF StatusAhead
  <2> QED
    BY <2>1, <2>5, WorldKept, BaseFromParts, ErrorsBounded DEF BaseInv
<1>5. CASE MarkDeploying
  BY <1>5, PhaseUpdateInv DEF MarkDeploying, Phases
<1> QED
  BY <1>1, <1>2, <1>3, <1>4, <1>5 DEF Building

LEMMA BaseDeploying ==
  ASSUME BaseInv, Deploying
  PROVE  BaseInv'
<1> USE DEF NextSteps, Steps, OtherSteps, DeploySteps
<1> USE DEF Kinds, MainKinds, AuthKinds
<1>1. CASE MarkRedeploying
  BY <1>1, PhaseUpdateInv DEF MarkRedeploying, Phases, BuildSteps
<1>2. CASE SetupAuthentication
  <2>1. /\ pc = "auth" /\ UNCHANGED <<store, github, cluster, crashes>>
        /\ Succeeds \/ ApiError
        /\ Goto("deployment", obj, cur) \/ Goto("markFailed", obj, cur) \/ Goto("requeue", obj, cur)
    BY <1>2 DEF SetupAuthentication
  <2>2. StoreType' /\ WorkerType' /\ StoreInv' /\ CopyAgrees' /\ BuildsACommit'
    BY <2>1, KeepCopyInv DEF StatusAhead, BuildSteps
  <2> QED
    BY <2>1, <2>2, WorldKept, BaseFromParts, ErrorsBounded DEF BaseInv
<1>3. CASE DeployKubernetesDeployment
  BY <1>3, ApplyInv DEF DeployKubernetesDeployment, BuildSteps
<1>4. CASE DeployKubernetesService
  BY <1>4, ApplyInv DEF DeployKubernetesService, BuildSteps
<1>5. CASE DeployAuthProxyDeployment
  BY <1>5, ApplyInv DEF DeployAuthProxyDeployment, BuildSteps
<1>6. CASE DeployAuthProxyService
  BY <1>6, ApplyInv DEF DeployAuthProxyService, BuildSteps
<1>7. CASE DeployAuthProxyIngress
  BY <1>7, ApplyInv DEF DeployAuthProxyIngress, BuildSteps
<1>8. CASE DeployKubernetesIngress
  BY <1>8, ApplyInv DEF DeployKubernetesIngress, BuildSteps
<1>9. CASE SetPublicFacingUrl
  <2> DEFINE o == [obj EXCEPT !.status.url = obj.hash]
  <2>1. pc = "setUrl" /\ StatusUpdate(o, "comment", "markFailed")
        /\ UNCHANGED <<github, cluster, crashes>>
    BY <1>9 DEF SetPublicFacingUrl
  <2>2. /\ o \in Objects /\ o.exists = obj.exists /\ o.deleting = obj.deleting
        /\ o.finalizer = obj.finalizer /\ o.hash = obj.hash
    BY DEF BaseInv, TypeOK, Objects, Statuses
  <2>3. /\ StoreType' /\ WorkerType' /\ StoreInv' /\ CopyAgrees' /\ BuildsACommit'
        /\ apiErrors' \in 0..MaxApiErrors
    <3> HIDE DEF o
    <3> QED BY <2>1, <2>2, StatusUpdateInv DEF BuildSteps
  <2> QED
    BY <2>1, <2>3, WorldKept, BaseFromParts
<1>10. CASE PullRequestAlreadyHasMessage
  <2> DEFINE u == obj.status.url
             n == comments[key][u]
             removed == [comments EXCEPT ![key][u] = n - 1]
  <2>1. /\ pc = "comment" /\ UNCHANGED <<store, cluster, head, crashes>>
        /\ Succeeds \/ ApiError
        /\ Goto("markRunning", obj, cur) \/ Goto("post", obj, cur)
        /\ comments' = comments \/ (n > 0 /\ comments' = removed)
    BY <1>10 DEF PullRequestAlreadyHasMessage
  <2>2. key \in Instances /\ u \in Revisions /\ n \in Nat
    BY <2>1, BusyKey DEF BaseInv, TypeOK, Objects, Statuses
  <2>3. StoreType' /\ WorkerType' /\ StoreInv' /\ CopyAgrees' /\ BuildsACommit'
    BY <2>1, KeepCopyInv DEF StatusAhead, BuildSteps
  <2>4. n > 0 => removed \in [Instances -> [Revisions -> Nat]]
    BY <2>2 DEF BaseInv, TypeOK
  <2>5. comments' \in [Instances -> [Revisions -> Nat]]
    BY <2>1, <2>4 DEF BaseInv, TypeOK
  <2>6. WorldType'
    BY <2>1, <2>5, ErrorsBounded DEF BaseInv, TypeOK, WorldType, cluster
  <2> QED
    BY <2>3, <2>6, BaseFromParts
<1>11. CASE PostMessageToPr
  <2> DEFINE u == obj.status.url
             posted == [comments EXCEPT ![key][u] = @ + 1]
  <2>1. /\ pc = "post" /\ UNCHANGED <<store, cluster, head, crashes>>
        /\ Succeeds \/ ApiError
        /\ Goto("markRunning", obj, cur) \/ Goto("markFailed", obj, cur)
        /\ comments' = comments \/ comments' = posted
    BY <1>11 DEF PostMessageToPr
  <2>2. key \in Instances /\ u \in Revisions
    BY <2>1, BusyKey DEF BaseInv, TypeOK, Objects, Statuses
  <2>3. StoreType' /\ WorkerType' /\ StoreInv' /\ CopyAgrees' /\ BuildsACommit'
    BY <2>1, KeepCopyInv DEF StatusAhead, BuildSteps
  <2>4. posted \in [Instances -> [Revisions -> Nat]]
    BY <2>2 DEF BaseInv, TypeOK
  <2>5. comments' \in [Instances -> [Revisions -> Nat]]
    BY <2>1, <2>4 DEF BaseInv, TypeOK
  <2>6. WorldType'
    BY <2>1, <2>5, ErrorsBounded DEF BaseInv, TypeOK, WorldType, cluster
  <2> QED
    BY <2>3, <2>6, BaseFromParts
<1>12. CASE MarkRunning
  BY <1>12, PhaseUpdateInv DEF MarkRunning, Phases, BuildSteps
<1> QED
  BY <1>1, <1>2, <1>3, <1>4, <1>5, <1>6, <1>7, <1>8, <1>9, <1>10, <1>11, <1>12 DEF Deploying

LEMMA BaseReconcile ==
  ASSUME BaseInv, NEW i \in Instances, Reconcile(i)
  PROVE  BaseInv'
<1>1. /\ pc = "idle" /\ ~cur
      /\ UNCHANGED <<store, github, cluster, faults>> /\ queue' = queue \ {i}
  BY DEF Reconcile, BaseInv, CopyAgrees
<1>2. StoreType' /\ StoreInv' /\ WorldType'
  BY <1>1 DEF BaseInv, TypeOK, StoreType, StoreInv, FreshIsCurrent, GoneWhenUnguarded,
              WorldType, store, github, cluster, faults
<1>3. CASE UNCHANGED worker
  BY <1>1, <1>2, <1>3, BaseFromParts
     DEF worker, store, BaseInv, TypeOK, WorkerType, CopyAgrees, BuildsACommit
<1>4. CASE ~UNCHANGED worker
  <2>1. /\ key' = i /\ obj' = cache[i] /\ cur' = fresh[i] /\ cache[i].exists
        /\ pc' \in {"delDeployment", "load", "addFinalizer"}
    BY <1>4 DEF Reconcile
  <2>2. WorkerType'
    BY <1>1, <2>1, NoKeyAssumption DEF BaseInv, TypeOK, WorkerType, Steps, OtherSteps, DeleteSteps
  <2>3. CopyAgrees' /\ BuildsACommit'
    BY <1>1, <2>1 DEF BaseInv, StoreInv, FreshIsCurrent, CopyAgrees, BuildsACommit, BuildSteps, store
  <2> QED
    BY <1>2, <2>2, <2>3, BaseFromParts
<1> QED
  BY <1>3, <1>4

\* Another client's write makes the worker's copy stale, unless it changes nothing.
LEMMA OtherWritesInv ==
  ASSUME BaseInv, NEW i \in Instances, NEW o \in Objects, OtherWrites(i, o),
         o.deleting => o.exists /\ o.finalizer
  PROVE  BaseInv'
<1>1. StoreType' /\ StoreInv' /\ WorldType' /\ WorkerType'
  BY DEF OtherWrites, Write, BaseInv, TypeOK, StoreType, StoreInv, FreshIsCurrent,
         GoneWhenUnguarded, WorldType, WorkerType, github, cluster, faults
<1>2. cur' => pei'[key] = pei[key]
  <2>1. pei' = [pei EXCEPT ![i] = o] /\ cur' = (cur /\ (key # i \/ o = pei[i]))
    BY DEF OtherWrites, Write
  <2>2. cur => key \in Instances
    BY BusyKey DEF BaseInv, CopyAgrees
  <2>3. CASE key = i
    BY <2>1, <2>2, <2>3 DEF BaseInv, TypeOK
  <2>4. CASE key # i
    BY <2>1, <2>2, <2>4 DEF BaseInv, TypeOK
  <2> QED
    BY <2>3, <2>4
<1>3. CopyAgrees' /\ BuildsACommit'
  BY <1>2 DEF OtherWrites, BaseInv, CopyAgrees, BuildsACommit
<1> QED
  BY <1>1, <1>3, BaseFromParts

LEMMA BaseUserStep ==
  ASSUME BaseInv, UserStep
  PROVE  BaseInv'
<1>1. PICK i \in Instances : \/ CreateInstance(i) \/ ResetInstance(i) \/ DeleteInstance(i)
                             \/ \E c \in Commits : Push(i, c)
  BY DEF UserStep
<1>2. pei[i] \in Objects
  BY DEF BaseInv, TypeOK
<1>3. CASE CreateInstance(i)
  BY <1>3, AbsentType, OtherWritesInv DEF CreateInstance, NewInstance, Absent
<1>4. CASE ResetInstance(i)
  <2> DEFINE o == [pei[i] EXCEPT !.hash = NoCommit]
  <2>1. o \in Objects /\ (o.deleting => o.exists /\ o.finalizer)
    BY <1>2 DEF BaseInv, StoreInv, GoneWhenUnguarded, Objects, Revisions
  <2> QED
    BY <1>4, <2>1, OtherWritesInv DEF ResetInstance
<1>5. CASE DeleteInstance(i)
  <2> DEFINE o == [pei[i] EXCEPT !.deleting = TRUE]
  <2>1. CASE pei[i].finalizer
    <3>1. o \in Objects /\ o.exists /\ o.finalizer
      BY <1>2, <1>5, <2>1 DEF DeleteInstance, Objects
    <3> QED
      BY <1>5, <2>1, <3>1, OtherWritesInv DEF DeleteInstance
  <2>2. CASE ~pei[i].finalizer
    BY <1>5, <2>2, AbsentType, OtherWritesInv DEF DeleteInstance, Absent
  <2> QED
    BY <2>1, <2>2
<1>6. CASE \E c \in Commits : Push(i, c)
  <2>1. /\ UNCHANGED <<store, queue, worker, comments, cluster, faults>>
        /\ head' \in [Instances -> Commits]
    BY <1>6 DEF Push, BaseInv, TypeOK
  <2> QED
    BY <2>1, BaseFromParts
       DEF BaseInv, TypeOK, StoreType, WorkerType, WorldType, StoreInv, FreshIsCurrent,
           GoneWhenUnguarded, CopyAgrees, BuildsACommit, store, worker, cluster, faults
<1> QED
  BY <1>1, <1>3, <1>4, <1>5, <1>6

LEMMA BaseClusterStep ==
  ASSUME BaseInv, ClusterStep
  PROVE  BaseInv'
<1>1. PICK i \in Instances : \/ CacheSync(i) \/ Resync(i)
                             \/ JobSucceeds(i) \/ JobFails(i) \/ JobExpires(i)
  BY DEF ClusterStep
<1>2. CASE CacheSync(i)
  BY <1>2, BaseFromParts
     DEF CacheSync, BaseInv, TypeOK, StoreType, WorkerType, WorldType, StoreInv, FreshIsCurrent,
         GoneWhenUnguarded, CopyAgrees, BuildsACommit, worker, github, cluster, faults
<1>3. CASE Resync(i)
  BY <1>3, BaseFromParts
     DEF Resync, BaseInv, TypeOK, StoreType, WorkerType, WorldType, StoreInv, FreshIsCurrent,
         GoneWhenUnguarded, CopyAgrees, BuildsACommit, store, worker, github, cluster, faults
<1>4. CASE JobSucceeds(i) \/ JobFails(i) \/ JobExpires(i)
  <2>1. /\ UNCHANGED <<store, queue, worker, github, res, faults>>
        /\ job' \in [Instances -> Jobs]
        /\ registry' \in [Instances -> [Commits -> Revisions]]
    <3>1. job[i] \in Jobs /\ NoJob \in Jobs /\ head[i] \in Revisions
      BY DEF BaseInv, TypeOK, NoJob, Jobs, Revisions
    <3>2. CASE JobSucceeds(i)
      BY <3>1, <3>2 DEF JobSucceeds, BaseInv, TypeOK, Jobs
    <3>3. CASE JobFails(i)
      BY <3>1, <3>3 DEF JobFails, BaseInv, TypeOK, Jobs
    <3>4. CASE JobExpires(i)
      BY <3>1, <3>4 DEF JobExpires, BaseInv, TypeOK
    <3> QED
      BY <1>4, <3>2, <3>3, <3>4
  <2> QED
    BY <2>1, BaseFromParts
       DEF BaseInv, TypeOK, StoreType, WorkerType, WorldType, StoreInv, FreshIsCurrent,
           GoneWhenUnguarded, CopyAgrees, BuildsACommit, store, worker, github, faults
<1> QED
  BY <1>1, <1>2, <1>3, <1>4

LEMMA BaseCrash ==
  ASSUME BaseInv, Crash
  PROVE  BaseInv'
<1>1. StoreType' /\ StoreInv' /\ WorldType'
  BY BoundsAssumption
     DEF Crash, BaseInv, TypeOK, StoreType, WorldType, StoreInv, FreshIsCurrent,
         GoneWhenUnguarded, github, cluster
<1>2. WorkerType' /\ CopyAgrees' /\ BuildsACommit'
  BY AbsentType DEF Crash, BaseInv, TypeOK, WorkerType, CopyAgrees, BuildsACommit,
                    Steps, OtherSteps, BuildSteps
<1> QED
  BY <1>1, <1>2, BaseFromParts

LEMMA BaseStutter ==
  ASSUME BaseInv, UNCHANGED vars
  PROVE  BaseInv'
BY BaseFromParts
   DEF vars, store, worker, github, cluster, faults, BaseInv, TypeOK, StoreType, WorkerType,
       WorldType, StoreInv, FreshIsCurrent, GoneWhenUnguarded, CopyAgrees, BuildsACommit

LEMMA BaseInit == Init => BaseInv
<1> SUFFICES ASSUME Init
             PROVE  BaseInv
  OBVIOUS
<1>1. TypeOK
  <2>1. StoreType /\ WorkerType
    BY AbsentType, NoKeyAssumption DEF Init, StoreType, WorkerType, Steps, OtherSteps
  <2>2. 0 \in Nat /\ NoJob \in Jobs /\ NoCommit \in Revisions
    BY DEF NoJob, Jobs, Revisions
  <2>3. 0 \in 0..MaxApiErrors /\ 0 \in 0..MaxCrashes
    BY BoundsAssumption
  <2>4. WorldType
    BY <2>2, <2>3 DEF Init, WorldType
  <2> QED
    BY <2>1, <2>4, TypeParts
<1>2. StoreInv /\ CopyAgrees /\ BuildsACommit
  BY DEF Init, StoreInv, FreshIsCurrent, GoneWhenUnguarded, CopyAgrees, BuildsACommit,
         BuildSteps, Absent
<1> QED
  BY <1>1, <1>2 DEF BaseInv

LEMMA BaseNext == BaseInv /\ [Next]_vars => BaseInv'
<1> SUFFICES ASSUME BaseInv, [Next]_vars
             PROVE  BaseInv'
  OBVIOUS
<1> QED
  BY BaseDeleting, BaseDispatching, BaseBuilding, BaseDeploying, BaseReconcile,
     BaseUserStep, BaseClusterStep, BaseCrash, BaseStutter
     DEF Next, WorkerStep

LEMMA BaseAlways == Spec => []BaseInv
BY BaseInit, BaseNext, PTL DEF Spec

\* Type correctness for every value of the constants.
THEOREM TypeCorrect == Spec => []TypeOK
<1>1. BaseInv => TypeOK
  BY DEF BaseInv
<1> QED
  BY <1>1, BaseAlways, PTL

-----------------------------------------------------------------------------
(* What the worker writes *)

\* The worker deletes with a copy that is being deleted and does the rest with one
\* that is not and has its finalizer; it stores a new hash for pull requests only.
CopyInv ==
  /\ pc \in DeleteSteps => obj.deleting
  /\ pc \notin DeleteSteps \cup {"idle"} => ~obj.deleting
  /\ pc \notin DeleteSteps \cup {"idle", "addFinalizer"} => obj.finalizer
  /\ pc = "updateHash" => key \in PullRequests /\ obj.hash \in Commits

\* Steps at which the copy has its finalizer and the hash is not the worker's
PlainSteps == Steps \ (DeleteSteps \cup {"idle", "addFinalizer", "updateHash"})

\* The worker goes on with copy o, which is like its own ...
LEMMA GotoCopy ==
  ASSUME CopyInv, NEW o, NEW c, o.deleting = obj.deleting, o.finalizer = obj.finalizer,
         NEW step \in NextSteps, Goto(step, o, c),
         \/ step \in {"done", "requeue"}
         \/ pc \in DeleteSteps /\ step \in DeleteSteps
         \/ pc \in PlainSteps \cup {"updateHash"} /\ step \in PlainSteps
  PROVE  CopyInv'
<1>1. CASE step \in {"done", "requeue"}
  BY <1>1 DEF Goto, CopyInv, DeleteSteps
<1>2. CASE step \notin {"done", "requeue"}
  <2>1. pc' = step /\ obj' = o
    BY <1>2 DEF Goto
  <2>2. QED
    BY <1>2, <2>1 DEF CopyInv, PlainSteps, DeleteSteps
<1>3. QED
  BY <1>1, <1>2

\* ... or writes it, with whatever status.
LEMMA StatusCopy ==
  ASSUME BaseInv, CopyInv, pc \in PlainSteps, NEW o \in Objects,
         o.deleting = obj.deleting, o.finalizer = obj.finalizer,
         NEW ok \in PlainSteps \cup {"done", "requeue"}, NEW err \in {"requeue", "markFailed"},
         StatusUpdate(o, ok, err)
  PROVE  CopyInv'
<1> DEFINE new == [pei[key] EXCEPT !.status = o.status]
<1>1. pei[key] \in Objects
  BY BusyKey DEF BaseInv, TypeOK, PlainSteps
<1>2. cur => new.deleting = obj.deleting /\ new.finalizer = obj.finalizer
  BY <1>1 DEF BaseInv, CopyAgrees, Objects
<1>3. Put(o, new, ok, err)
  BY DEF StatusUpdate
<1>4. ok \in NextSteps /\ err \in NextSteps /\ "markFailed" \in PlainSteps
  BY DEF PlainSteps, NextSteps, Steps, OtherSteps, DeleteSteps
<1> HIDE DEF new
<1>5. CASE cur /\ Goto(ok, new, TRUE)
  BY <1>2, <1>4, <1>5, GotoCopy
<1>6. ASSUME NEW c, Goto(err, o, c) PROVE CopyInv'
  BY <1>4, <1>6, GotoCopy
<1>7. QED
  BY <1>3, <1>5, <1>6 DEF Put

LEMMA CopyDeleting ==
  ASSUME BaseInv, CopyInv, Deleting
  PROVE  CopyInv'
<1>1. CASE RemoveFinalizer
  <2>1. \E o, c : Goto("done", o, c) \/ Goto("requeue", o, c)
    BY <1>1 DEF RemoveFinalizer, Update, Put
  <2>2. pc' = "idle"
    BY <2>1 DEF Goto
  <2>3. QED
    BY <2>2 DEF CopyInv, DeleteSteps
<1>2. CASE ~RemoveFinalizer
  <2>1. pc \in DeleteSteps /\ \E step \in DeleteSteps : Goto(step, obj, cur)
    BY <1>2 DEF Deleting, DeleteKubernetesDeployment, DeleteKubernetesService,
       DeleteAuthProxyDeployment, DeleteAuthProxyService, DeleteAuthProxyIngress,
       DeleteKubernetesIngress, DeleteResource, DeleteSteps
  <2>2. DeleteSteps \subseteq NextSteps
    BY DEF DeleteSteps, NextSteps, Steps
  <2>3. QED
    BY <2>1, <2>2, GotoCopy
<1>3. QED
  BY <1>1, <1>2

\* A step that keeps the copy
LEMMA KeepCopy ==
  ASSUME CopyInv, pc \in PlainSteps,
         NEW step \in PlainSteps \cup {"done", "requeue"}, NEW c, Goto(step, obj, c)
  PROVE  CopyInv'
<1>1. step \in NextSteps
  BY DEF PlainSteps, NextSteps, Steps, OtherSteps
<1>2. QED
  BY <1>1, GotoCopy

LEMMA CopyDispatching ==
  ASSUME BaseInv, CopyInv, Dispatching
  PROVE  CopyInv'
<1> USE DEF PlainSteps, Steps, OtherSteps, BuildSteps, DeploySteps
<1>1. CASE AddFinalizer
  <2> DEFINE o == [obj EXCEPT !.finalizer = TRUE]
             new == [o EXCEPT !.status = pei[key].status]
  <2>1. obj \in Objects /\ pc = "addFinalizer"
    BY <1>1 DEF BaseInv, TypeOK, AddFinalizer
  <2>2. /\ ~new.deleting /\ new.finalizer /\ ~o.deleting /\ o.finalizer
    BY <2>1 DEF Objects, CopyInv, DeleteSteps
  <2>3. Put(o, new, "load", "requeue")
    BY <1>1, <2>2 DEF AddFinalizer, Update
  <2> HIDE DEF o, new
  <2>4. pc' = "idle" \/ (pc' = "load" /\ obj' = new)
    BY <2>3 DEF Put, Goto
  <2>5. QED
    BY <2>2, <2>4 DEF CopyInv, DeleteSteps
<1>2. ASSUME NEW found \in Lookups, LoadPreviewEnvironment(found)
      PROVE  CopyInv'
  <2>1. /\ pc = "load"
        /\ \E step \in {"requeue", "markDeploying", "markBuilding", "comment", "redeploy", "latest"} :
             Goto(step, obj, cur)
    BY <1>2 DEF LoadPreviewEnvironment, RebuildInstance, RedeployInstance
  <2>2. QED
    BY <2>1, KeepCopy DEF DeleteSteps
<1>3. CASE LatestCommitHash
  <2> DEFINE o == [obj EXCEPT !.hash = head[key]]
  <2>1. /\ pc = "latest"
        /\ \/ Goto("requeue", obj, cur) \/ Goto("done", o, cur)
           \/ key \in PullRequests /\ Goto("updateHash", o, cur)
    BY <1>3 DEF LatestCommitHash
  <2>2. key \in Instances /\ obj \in Objects /\ head[key] \in Commits
    BY <2>1, BusyKey DEF BaseInv, TypeOK
  <2>3. o.deleting = obj.deleting /\ o.finalizer = obj.finalizer /\ o.hash \in Commits
    BY <2>2 DEF Objects
  <2>4. ~obj.deleting /\ obj.finalizer
    BY <2>1 DEF CopyInv, DeleteSteps
  <2> HIDE DEF o
  <2>5. \/ pc' = "idle"
        \/ pc' = "updateHash" /\ key' \in PullRequests /\ obj' = o
    BY <2>1 DEF Goto
  <2>6. QED
    BY <2>3, <2>4, <2>5 DEF CopyInv, DeleteSteps
<1>4. CASE UpdateHash
  <2> DEFINE new == [obj EXCEPT !.status = pei[key].status]
  <2>1. obj \in Objects /\ pc = "updateHash" /\ ~obj.deleting /\ obj.finalizer
    BY <1>4 DEF BaseInv, TypeOK, UpdateHash, CopyInv, DeleteSteps
  <2>2. new.deleting = obj.deleting /\ new.finalizer = obj.finalizer
    BY <2>1 DEF Objects
  <2>3. Put(obj, new, "markPending", "requeue")
    BY <1>4, <2>1 DEF UpdateHash, Update
  <2> HIDE DEF new
  <2>4. pc' = "idle" \/ (pc' = "markPending" /\ obj' = new)
    BY <2>3 DEF Put, Goto
  <2>5. QED
    BY <2>1, <2>2, <2>4 DEF CopyInv, DeleteSteps
<1>5. CASE MarkPending \/ MarkFailed
  <2>1. /\ pc \in PlainSteps
        /\ \E p \in Phases, ok \in {"done", "requeue"} : StatusUpdate(InPhase(p), ok, "requeue")
    BY <1>5 DEF MarkPending, MarkFailed, Phases, DeleteSteps
  <2>2. obj \in Objects
    BY DEF BaseInv, TypeOK
  <2>3. QED
    BY <2>1, <2>2, InPhaseType, StatusCopy
<1>6. QED
  BY <1>1, <1>2, <1>3, <1>4, <1>5 DEF Dispatching

LEMMA CopyBuilding ==
  ASSUME BaseInv, CopyInv, Building
  PROVE  CopyInv'
<1> USE DEF PlainSteps, Steps, OtherSteps, BuildSteps, DeploySteps
<1>1. obj \in Objects
  BY DEF BaseInv, TypeOK
<1>2. CASE MarkBuilding \/ MarkDeploying
  <2>1. /\ pc \in PlainSteps
        /\ \E p \in Phases, ok \in {"cleanJob", "done"}, err \in {"markFailed", "requeue"} :
             StatusUpdate(InPhase(p), ok, err)
    BY <1>2 DEF MarkBuilding, MarkDeploying, Phases, DeleteSteps
  <2>2. QED
    BY <1>1, <2>1, InPhaseType, StatusCopy DEF DeleteSteps
<1>3. CASE CleanJob \/ CreateJob
  <2>1. /\ pc \in PlainSteps
        /\ \E step \in {"createJob", "waitJob", "markFailed"} : Goto(step, obj, cur)
    BY <1>3 DEF CleanJob, CreateJob, DeleteSteps
  <2>2. QED
    BY <2>1, KeepCopy DEF DeleteSteps
<1>4. CASE WaitJob
  <2> DEFINE o == [obj EXCEPT !.status.built = UpdateBuiltVersions(@, obj.hash, KeepBuilt)]
  <2>1. pc = "waitJob" /\ (Goto("markDeploying", o, cur) \/ Goto("markFailed", obj, cur))
    BY <1>4 DEF WaitJob
  <2>2. o.deleting = obj.deleting /\ o.finalizer = obj.finalizer
    BY <1>1 DEF Objects
  <2> HIDE DEF o
  <2>3. QED
    BY <2>1, <2>2, GotoCopy DEF DeleteSteps, NextSteps
<1>5. QED
  BY <1>2, <1>3, <1>4 DEF Building

LEMMA CopyDeploying ==
  ASSUME BaseInv, CopyInv, Deploying
  PROVE  CopyInv'
<1> USE DEF PlainSteps, Steps, OtherSteps, BuildSteps, DeploySteps
<1>1. obj \in Objects
  BY DEF BaseInv, TypeOK
<1>2. CASE MarkRedeploying \/ MarkRunning
  <2>1. /\ pc \in PlainSteps
        /\ \E p \in Phases, ok \in {"auth", "done"}, err \in {"markFailed", "requeue"} :
             StatusUpdate(InPhase(p), ok, err)
    BY <1>2 DEF MarkRedeploying, MarkRunning, Phases, DeleteSteps
  <2>2. QED
    BY <1>1, <2>1, InPhaseType, StatusCopy DEF DeleteSteps
<1>3. CASE SetPublicFacingUrl
  <2> DEFINE o == [obj EXCEPT !.status.url = obj.hash]
  <2>1. pc = "setUrl" /\ StatusUpdate(o, "comment", "markFailed")
    BY <1>3 DEF SetPublicFacingUrl
  <2>2. o \in Objects /\ o.deleting = obj.deleting /\ o.finalizer = obj.finalizer
    BY <1>1 DEF Objects, Statuses
  <2> HIDE DEF o
  <2>3. QED
    BY <2>1, <2>2, StatusCopy DEF DeleteSteps
<1>4. CASE ~(MarkRedeploying \/ MarkRunning \/ SetPublicFacingUrl)
  <2>1. /\ pc \in DeploySteps \cup {"comment", "post"}
        /\ \E step \in DeploySteps \cup {"markFailed", "requeue", "post", "markRunning"} :
             Goto(step, obj, cur)
    BY <1>4 DEF Deploying, SetupAuthentication, DeployKubernetesDeployment,
       DeployKubernetesService, DeployAuthProxyDeployment, DeployAuthProxyService,
       DeployAuthProxyIngress, DeployKubernetesIngress, Apply, PullRequestAlreadyHasMessage,
       PostMessageToPr
  <2>2. QED
    BY <2>1, KeepCopy DEF DeleteSteps
<1>5. QED
  BY <1>2, <1>3, <1>4

LEMMA CopyInit == Init => CopyInv
BY DEF Init, CopyInv, DeleteSteps

LEMMA CopyNext == BaseInv /\ CopyInv /\ [Next]_vars => CopyInv'
<1> SUFFICES ASSUME BaseInv, CopyInv, [Next]_vars
             PROVE  CopyInv'
  OBVIOUS
<1>1. ASSUME NEW i \in Instances, Reconcile(i) PROVE CopyInv'
  BY <1>1 DEF Reconcile, CopyInv, worker, DeleteSteps
<1>2. CASE UserStep \/ ClusterStep \/ UNCHANGED vars
  <2>1. UNCHANGED <<pc, obj, key>>
    BY <1>2 DEF UserStep, ClusterStep, CreateInstance, ResetInstance, DeleteInstance, OtherWrites,
       Push, CacheSync, Resync, JobSucceeds, JobFails, JobExpires, vars, worker
  <2>2. QED
    BY <2>1 DEF CopyInv
<1>3. CASE Crash
  BY <1>3 DEF Crash, CopyInv, DeleteSteps
<1>4. QED
  BY <1>1, <1>2, <1>3, CopyDeleting, CopyDispatching, CopyBuilding, CopyDeploying
     DEF Next, WorkerStep

\* The worker stores its instance with another status, with the finalizer, as a pull
\* request with another hash, or not at all, when it was being deleted.
WorkerWrites(o) ==
  LET s == pei[key] IN
  /\ key \in Instances /\ s.exists
  /\ \/ /\ o.exists /\ o.deleting = s.deleting
        /\ o.finalizer = s.finalizer /\ o.hash = s.hash
     \/ /\ ~s.deleting /\ o.exists /\ ~o.deleting
        /\ o.finalizer /\ o.hash = s.hash
     \/ /\ key \in PullRequests /\ ~s.deleting /\ s.finalizer
        /\ o.exists /\ ~o.deleting /\ o.finalizer /\ o.hash \in Commits
     \/ s.deleting /\ o = Absent

LEMMA PutWrites ==
  ASSUME NEW o, NEW new, NEW ok, NEW err, Put(o, new, ok, err)
  PROVE  UNCHANGED store \/ (cur /\ Write(key, new))
BY DEF Put

LEMMA StatusWrites ==
  ASSUME BaseInv, pc # "idle", NEW o, NEW ok, NEW err, StatusUpdate(o, ok, err)
  PROVE  UNCHANGED store \/ \E new : WorkerWrites(new) /\ Write(key, new)
<1> DEFINE new == [pei[key] EXCEPT !.status = o.status]
<1>1. key \in Instances /\ pei[key] \in Objects
  BY BusyKey DEF BaseInv, TypeOK
<1>2. cur => WorkerWrites(new)
  BY <1>1 DEF WorkerWrites, Objects, BaseInv, CopyAgrees
<1>3. Put(o, new, ok, err)
  BY DEF StatusUpdate
<1> HIDE DEF new
<1>4. QED
  BY <1>2, <1>3, PutWrites

LEMMA WorkerWrite ==
  ASSUME BaseInv, CopyInv, WorkerStep
  PROVE  UNCHANGED store \/ \E o : WorkerWrites(o) /\ Write(key, o)
<1>1. CASE AddFinalizer
  <2> DEFINE o == [obj EXCEPT !.finalizer = TRUE]
             new == [o EXCEPT !.status = pei[key].status]
  <2>1. pc = "addFinalizer" /\ key \in Instances /\ obj \in Objects
    BY <1>1, BusyKey DEF AddFinalizer, BaseInv, TypeOK
  <2>2. o.finalizer /\ (cur => WorkerWrites(new))
    BY <2>1 DEF Objects, WorkerWrites, CopyInv, BaseInv, CopyAgrees, DeleteSteps
  <2>3. Put(o, new, "load", "requeue")
    BY <1>1, <2>2 DEF AddFinalizer, Update
  <2> HIDE DEF o, new
  <2>4. QED
    BY <2>2, <2>3, PutWrites
<1>2. CASE RemoveFinalizer
  <2> DEFINE o == [obj EXCEPT !.finalizer = FALSE]
  <2>1. pc = "removeFinalizer" /\ key \in Instances /\ obj \in Objects
    BY <1>2, BusyKey DEF RemoveFinalizer, BaseInv, TypeOK
  <2>2. o.deleting /\ ~o.finalizer /\ (cur => WorkerWrites(Absent))
    BY <2>1 DEF Objects, WorkerWrites, CopyInv, BaseInv, CopyAgrees, DeleteSteps
  <2>3. Put(o, Absent, "done", "requeue")
    BY <1>2, <2>2 DEF RemoveFinalizer, Update
  <2> HIDE DEF o
  <2>4. QED
    BY <2>2, <2>3, PutWrites
<1>3. CASE UpdateHash
  <2> DEFINE new == [obj EXCEPT !.status = pei[key].status]
  <2>1. pc = "updateHash" /\ key \in Instances /\ obj \in Objects
    BY <1>3, BusyKey DEF UpdateHash, BaseInv, TypeOK
  <2>2. obj.finalizer /\ (cur => WorkerWrites(new))
    BY <2>1 DEF Objects, WorkerWrites, CopyInv, BaseInv, CopyAgrees, DeleteSteps
  <2>3. Put(obj, new, "markPending", "requeue")
    BY <1>3, <2>2 DEF UpdateHash, Update
  <2> HIDE DEF new
  <2>4. QED
    BY <2>2, <2>3, PutWrites
<1>4. CASE \/ MarkPending \/ MarkFailed \/ MarkBuilding \/ MarkDeploying \/ MarkRedeploying
           \/ SetPublicFacingUrl \/ MarkRunning
  <2>1. pc # "idle" /\ \E o, ok, err : StatusUpdate(o, ok, err)
    BY <1>4 DEF MarkPending, MarkFailed, MarkBuilding, MarkDeploying, MarkRedeploying,
       SetPublicFacingUrl, MarkRunning
  <2>2. QED
    BY <2>1, StatusWrites
<1>5. QED
  BY <1>1, <1>2, <1>3, <1>4
     DEF WorkerStep, Deleting, Dispatching, Building, Deploying, DeleteKubernetesDeployment,
         DeleteKubernetesService, DeleteAuthProxyDeployment, DeleteAuthProxyService,
         DeleteAuthProxyIngress, DeleteKubernetesIngress, DeleteResource,
         LoadPreviewEnvironment, LatestCommitHash, CleanJob, CreateJob, WaitJob,
         SetupAuthentication, DeployKubernetesDeployment, DeployKubernetesService,
         DeployAuthProxyDeployment, DeployAuthProxyService, DeployAuthProxyIngress,
         DeployKubernetesIngress, Apply, PullRequestAlreadyHasMessage, PostMessageToPr
=============================================================================
