-------------------- MODULE EnvironmentReconciler_proofs --------------------
(***************************************************************************)
(* Theorems about EnvironmentReconciler: type correctness, that instances  *)
(* are only created for an environment with its finalizer, and that the    *)
(* finalizer is only removed behind the last listed instance.              *)
(***************************************************************************)
EXTENDS EnvironmentReconciler, TLAPS

-----------------------------------------------------------------------------
(* The inductive invariant *)

\* The environment e exists under uid u and has its finalizer.
Guarded(e, u) == pe[e].exists /\ pe[e].finalizer /\ pe[e].uid = u

FreshIsCurrent == \A e \in Environments : peFresh[e] => peCache[e] = pe[e]

\* What a cached version says of the finalizer of a live environment is true
\* however old the version is: only the worker removes it, once the cache has
\* shown it the deletion.
CachedGuard ==
  \A e \in Environments :
    peCache[e].exists /\ ~peCache[e].deleting /\ peCache[e].finalizer =>
      Guarded(e, peCache[e].uid)

CacheInv == FreshIsCurrent /\ CachedGuard

\* A copy with the current resourceVersion is the stored object.
CopyIsCurrent == cur => pc # "idle" /\ obj = pe[key]

CopyGuarded == pc \in DetectSteps => Guarded(key, obj.uid)

CopyKind ==
  /\ pc = "addFinalizer" => obj.exists
  /\ pc \in DeleteSteps => obj.deleting
  /\ pc \in DeleteSteps /\ cur => peCache[key].deleting

CopyInv == CopyIsCurrent /\ CopyGuarded /\ CopyKind

\* What the worker has listed and has not left to delete is deleted.
ListInv ==
  /\ pc \notin {"deleteInstances", "removeFinalizer"} => listed = {}
  /\ \A r \in listed \ toDelete : ~pei[r].exists \/ pei[r].deleting

EnvironmentInv == TypeOK /\ CacheInv /\ CopyInv /\ ListInv

-----------------------------------------------------------------------------
(* The parts of TypeOK *)

EnvironmentsType ==
  /\ pe \in [Environments -> EnvironmentObjects]
  /\ peCache \in [Environments -> EnvironmentObjects]
  /\ peFresh \in [Environments -> BOOLEAN]

InstancesType ==
  /\ pei \in [Refs -> InstanceObjects] /\ peiCache \in [Refs -> InstanceObjects]
  /\ peiFresh \in [Refs -> BOOLEAN]

WorkerType ==
  /\ pc \in Steps /\ key \in Environments \cup {NoKey}
  /\ obj \in EnvironmentObjects /\ cur \in BOOLEAN
  /\ detected \subseteq Refs /\ listed \subseteq Refs /\ toDelete \subseteq listed
  /\ pc = "idle" <=> key = NoKey
  /\ pc = "save" => detected # {}
  /\ pc = "deleteInstances" <=> toDelete # {}

WorldType == uids \in Nat /\ open \subseteq Refs /\ queue \subseteq Environments

FaultsType == apiErrors \in 0..MaxApiErrors /\ crashes \in 0..MaxCrashes

LEMMA TypeParts ==
  /\ TypeOK <=> /\ EnvironmentsType /\ InstancesType /\ WorkerType
                /\ WorldType /\ FaultsType
  /\ TypeOK' <=> /\ EnvironmentsType' /\ InstancesType' /\ WorkerType'
                 /\ WorldType' /\ FaultsType'
BY DEF TypeOK, EnvironmentsType, InstancesType, WorkerType, WorldType, FaultsType

LEMMA ObjectTypes ==
  NoEnvironment \in EnvironmentObjects /\ NoInstance \in InstanceObjects
BY DEF NoEnvironment, EnvironmentObjects, NoInstance, InstanceObjects

\* A page is part of the list.
LEMMA PageSubset == ASSUME NEW S PROVE Page(S) \subseteq S
BY DEF Page

LEMMA DetectedRefs ==
  ASSUME TypeOK, NEW e
  PROVE  OpenPullRequests(e) \subseteq Refs /\ OpenBranches(e) \subseteq Refs
<1>1. {r \in open \cap PullRequests : RepoOf[r] = e} \subseteq Refs
      /\ {r \in open \ PullRequests : RepoOf[r] = e} \subseteq Refs
  BY DEF TypeOK
<1>2. QED
  BY <1>1, PageSubset DEF OpenPullRequests, OpenBranches

LEMMA BusyKey ==
  ASSUME WorkerType, pc # "idle"
  PROVE  key \in Environments
BY NoKeyAssumption DEF WorkerType

LEMMA FaultsBounded ==
  ASSUME FaultsType, Succeeds \/ ApiError, UNCHANGED crashes
  PROVE  FaultsType'
BY BoundsAssumption DEF FaultsType, Succeeds, ApiError

-----------------------------------------------------------------------------
(* Lemmas about the operators actions are built from *)

\* Reconcile returns: an idle worker satisfies every claim about a copy.
LEMMA DropInv ==
  ASSUME WorkerType, Drop
  PROVE  WorkerType' /\ CopyInv' /\ ListInv'
BY ObjectTypes, NoKeyAssumption
   DEF WorkerType, Drop, CopyInv, CopyIsCurrent, CopyGuarded, CopyKind, ListInv,
       Steps, DetectSteps, DeleteSteps

LEMMA ReturnInv ==
  ASSUME WorkerType, WorldType, pc # "idle", Return \/ Requeue, UNCHANGED outside
  PROVE  WorkerType' /\ WorldType' /\ CopyInv' /\ ListInv'
<1>1. Drop
  BY DEF Return, Requeue
<1>2. queue' \subseteq Environments
  BY BusyKey DEF WorldType, Return, Requeue
<1>3. QED
  BY <1>1, <1>2, DropInv DEF WorldType, outside

\* A stored version of an environment leaves the caches truthful if it keeps the
\* guard that a cached version speaks of.
LEMMA StoreEnvironmentInv ==
  ASSUME EnvironmentsType, CacheInv,
         NEW e \in Environments, NEW o \in EnvironmentObjects, StoreEnvironment(e, o),
         peCache[e].exists /\ ~peCache[e].deleting /\ peCache[e].finalizer =>
           o.exists /\ o.finalizer /\ o.uid = peCache[e].uid
  PROVE  EnvironmentsType' /\ CacheInv'
<1>1. EnvironmentsType'
  BY DEF EnvironmentsType, StoreEnvironment
<1>2. FreshIsCurrent'
  BY DEF EnvironmentsType, StoreEnvironment, CacheInv, FreshIsCurrent
<1>3. CachedGuard'
  BY DEF EnvironmentsType, StoreEnvironment, CacheInv, CachedGuard, Guarded
<1>4. QED
  BY <1>1, <1>2, <1>3 DEF CacheInv

LEMMA StoreInstanceType ==
  ASSUME InstancesType, NEW r \in Refs, NEW o \in InstanceObjects, StoreInstance(r, o)
  PROVE  InstancesType'
BY DEF InstancesType, StoreInstance

LEMMA DeletedType ==
  ASSUME InstancesType, NEW r \in Refs
  PROVE  /\ Deleted(r) \in InstanceObjects
         /\ Deleted(r).deleting \/ ~Deleted(r).exists
BY ObjectTypes DEF InstancesType, Deleted, InstanceObjects, NoInstance

\* Nothing that the environment part of the invariant speaks of changes.
LEMMA CacheStays ==
  ASSUME EnvironmentsType, CacheInv, UNCHANGED environments
  PROVE  EnvironmentsType' /\ CacheInv'
BY DEF EnvironmentsType, CacheInv, FreshIsCurrent, CachedGuard, Guarded, environments

LEMMA InstancesStay ==
  ASSUME InstancesType, UNCHANGED instances
  PROVE  InstancesType'
BY DEF InstancesType, instances

\* The copy that a failing Update would have stored need not be looked at again.
LEMMA UpdateFailsInv ==
  ASSUME EnvironmentsType, CacheInv, WorkerType, WorldType, FaultsType,
         pc # "idle", NEW new \in EnvironmentObjects, UpdateFails(new),
         UNCHANGED <<outside, crashes>>,
         cur /\ peCache[key].exists /\ ~peCache[key].deleting /\ peCache[key].finalizer =>
           new.exists /\ new.finalizer /\ new.uid = peCache[key].uid
  PROVE  /\ EnvironmentsType' /\ CacheInv' /\ WorkerType' /\ WorldType' /\ FaultsType'
         /\ CopyInv' /\ ListInv'
<1>1. key \in Environments
  BY BusyKey
<1>2. EnvironmentsType' /\ CacheInv'
  BY <1>1, CacheStays, StoreEnvironmentInv DEF UpdateFails
<1>3. WorkerType' /\ WorldType' /\ CopyInv' /\ ListInv'
  BY ReturnInv DEF UpdateFails
<1>4. FaultsType'
  BY FaultsBounded DEF UpdateFails
<1>5. QED
  BY <1>2, <1>3, <1>4

-----------------------------------------------------------------------------
(* Each action preserves the invariant *)

LEMMA InitInv == Init => EnvironmentInv
<1> SUFFICES ASSUME Init PROVE EnvironmentInv
  OBVIOUS
<1>1. EnvironmentsType /\ InstancesType
  BY ObjectTypes DEF Init, EnvironmentsType, InstancesType
<1>2. WorkerType /\ WorldType /\ FaultsType
  <2>1. WorkerType
    BY ObjectTypes DEF Init, Idle, WorkerType, Steps
  <2>2. WorldType
    BY DEF Init, WorldType
  <2>3. FaultsType
    BY BoundsAssumption DEF Init, FaultsType
  <2>4. QED
    BY <2>1, <2>2, <2>3
<1>3. CacheInv
  BY DEF Init, CacheInv, FreshIsCurrent, CachedGuard, NoEnvironment
<1>4. CopyInv /\ ListInv
  BY DEF Init, Idle, CopyInv, CopyIsCurrent, CopyGuarded, CopyKind, ListInv,
         DetectSteps, DeleteSteps
<1>5. QED
  BY <1>1, <1>2, <1>3, <1>4, TypeParts DEF EnvironmentInv

LEMMA ReconcileInv ==
  ASSUME EnvironmentInv, NEW e \in Environments, Reconcile(e)
  PROVE  EnvironmentInv'
<1> DEFINE o == peCache[e]
<1>1. /\ EnvironmentsType /\ InstancesType /\ WorkerType /\ WorldType /\ FaultsType
      /\ CacheInv /\ CopyInv /\ ListInv
  BY TypeParts DEF EnvironmentInv
<1>2. EnvironmentsType' /\ CacheInv' /\ InstancesType' /\ FaultsType'
  BY <1>1, CacheStays, InstancesStay DEF Reconcile, FaultsType, faults
<1>3. WorldType'
  BY <1>1 DEF Reconcile, WorldType, outside
<1>4. CASE o.exists /\ (o.deleting => o.finalizer)
  <2>1. /\ key' = e /\ obj' = o /\ cur' = peFresh[e] /\ UNCHANGED lists
        /\ pc' = IF o.deleting THEN "listInstances"
                 ELSE IF o.finalizer THEN "listPullRequests" ELSE "addFinalizer"
        /\ pc = "idle" /\ UNCHANGED <<environments, instances>>
    BY <1>4 DEF Reconcile
  <2>2. WorkerType'
    BY <1>1, <2>1, NoKeyAssumption DEF WorkerType, EnvironmentsType, lists, Steps,
       DeleteSteps, DetectSteps
  <2>3. CopyInv'
    BY <1>1, <1>4, <2>1
       DEF CopyInv, CopyIsCurrent, CopyGuarded, CopyKind, CacheInv, FreshIsCurrent,
           CachedGuard, Guarded, DeleteSteps, DetectSteps, environments
  <2>4. ListInv'
    BY <1>1, <2>1 DEF ListInv, lists, instances
  <2>5. QED
    BY <1>2, <1>3, <2>2, <2>3, <2>4, TypeParts DEF EnvironmentInv
<1>5. CASE ~(o.exists /\ (o.deleting => o.finalizer))
  <2>1. UNCHANGED <<worker, environments, instances>>
    BY <1>5 DEF Reconcile
  <2>2. WorkerType' /\ CopyInv' /\ ListInv'
    BY <1>1, <2>1
       DEF WorkerType, CopyInv, CopyIsCurrent, CopyGuarded, CopyKind, Guarded, ListInv,
           worker, lists, environments, instances
  <2>3. QED
    BY <1>2, <1>3, <2>2, TypeParts DEF EnvironmentInv
<1>6. QED
  BY <1>4, <1>5

LEMMA AddFinalizerInv ==
  ASSUME EnvironmentInv, AddFinalizer
  PROVE  EnvironmentInv'
<1> DEFINE new == [obj EXCEPT !.finalizer = TRUE]
<1>1. /\ EnvironmentsType /\ InstancesType /\ WorkerType /\ WorldType /\ FaultsType
      /\ CacheInv /\ CopyInv /\ ListInv
  BY TypeParts DEF EnvironmentInv
<1>2. key \in Environments /\ pc = "addFinalizer"
  BY <1>1, BusyKey DEF AddFinalizer
<1>3. /\ new \in EnvironmentObjects /\ new.finalizer
      /\ new.exists = obj.exists /\ new.uid = obj.uid /\ obj.exists
  BY <1>1, <1>2 DEF WorkerType, EnvironmentObjects, CopyInv, CopyKind
<1>4. cur /\ peCache[key].exists /\ ~peCache[key].deleting /\ peCache[key].finalizer =>
        new.exists /\ new.finalizer /\ new.uid = peCache[key].uid
  BY <1>1, <1>2, <1>3 DEF CopyInv, CopyIsCurrent, CacheInv, CachedGuard, Guarded
<1>5. InstancesType'
  BY <1>1, InstancesStay DEF AddFinalizer
<1>6. CASE /\ cur /\ Succeeds /\ StoreEnvironment(key, new)
           /\ Goto("listPullRequests", new) /\ UNCHANGED lists
  <2> HIDE DEF new
  <2>1. EnvironmentsType' /\ CacheInv'
    BY <1>1, <1>2, <1>3, <1>4, <1>6, StoreEnvironmentInv
  <2>2. WorkerType' /\ WorldType'
    BY <1>1, <1>2, <1>3, <1>6
       DEF AddFinalizer, WorkerType, WorldType, Goto, lists, outside, Steps,
           DetectSteps, DeleteSteps
  <2>3. FaultsType'
    BY <1>1, <1>6, FaultsBounded DEF AddFinalizer
  <2>4. pe'[key] = new /\ key' = key /\ obj' = new /\ pc' = "listPullRequests"
    BY <1>1, <1>2, <1>6 DEF StoreEnvironment, Goto, EnvironmentsType
  <2>5. CopyInv'
    BY <1>3, <2>4
       DEF CopyInv, CopyIsCurrent, CopyGuarded, CopyKind, Guarded, DeleteSteps, DetectSteps
  <2>6. ListInv'
    BY <1>1, <1>2, <1>6 DEF AddFinalizer, ListInv, Goto, lists, instances
  <2>7. QED
    BY <1>5, <2>1, <2>2, <2>3, <2>5, <2>6, TypeParts DEF EnvironmentInv
<1>7. CASE UpdateFails(new)
  <2> HIDE DEF new
  <2>1. UNCHANGED <<outside, crashes>>
    BY DEF AddFinalizer
  <2>2. QED
    BY <1>1, <1>2, <1>3, <1>4, <1>5, <1>7, <2>1, UpdateFailsInv, TypeParts
       DEF EnvironmentInv
<1>8. QED
  BY <1>6, <1>7 DEF AddFinalizer

\* The two detection steps: Detect or DetectionFails.
LEMMA DetectInv ==
  ASSUME EnvironmentInv, NEW refs \in SUBSET Refs, NEW next \in {"listBranches", "save"},
         pc \in {"listPullRequests", "listBranches"},
         Detect(refs, next) \/ DetectionFails,
         UNCHANGED <<environments, instances, outside, crashes>>
  PROVE  EnvironmentInv'
<1>1. /\ EnvironmentsType /\ InstancesType /\ WorkerType /\ WorldType /\ FaultsType
      /\ CacheInv /\ CopyInv /\ ListInv
  BY TypeParts DEF EnvironmentInv
<1>2. EnvironmentsType' /\ CacheInv' /\ InstancesType' /\ FaultsType'
  BY <1>1, CacheStays, InstancesStay, FaultsBounded DEF Detect, DetectionFails
<1>3. CASE Return \/ Requeue
  BY <1>1, <1>2, <1>3, ReturnInv, TypeParts DEF EnvironmentInv
<1>4. CASE /\ ~(next = "save" /\ refs = {})
           /\ Goto(next, obj) /\ detected' = refs /\ UNCHANGED <<listed, toDelete>>
  <2>1. WorkerType' /\ WorldType'
    BY <1>1, <1>4 DEF WorkerType, WorldType, Goto, outside, Steps, DetectSteps, DeleteSteps
  <2>2. CopyInv'
    BY <1>1, <1>4
       DEF CopyInv, CopyIsCurrent, CopyGuarded, CopyKind, Guarded, Goto, DeleteSteps,
           DetectSteps, environments
  <2>3. ListInv'
    BY <1>1, <1>4 DEF ListInv, Goto, instances
  <2>4. QED
    BY <1>2, <2>1, <2>2, <2>3, TypeParts DEF EnvironmentInv
<1>5. QED
  BY <1>3, <1>4 DEF Detect, DetectionFails

LEMMA DetectionInv ==
  ASSUME EnvironmentInv, DetectPullRequests \/ DetectBranches
  PROVE  EnvironmentInv'
<1>1. TypeOK
  BY DEF EnvironmentInv
<1>2. CASE DetectPullRequests
  <2>1. OpenPullRequests(key) \in SUBSET Refs
    BY <1>1, DetectedRefs
  <2>2. QED
    BY <1>2, <2>1, DetectInv DEF DetectPullRequests
<1>3. CASE DetectBranches
  <2>1. detected \cup OpenBranches(key) \in SUBSET Refs
    BY <1>1, DetectedRefs DEF TypeOK
  <2>2. QED
    BY <1>3, <2>1, DetectInv DEF DetectBranches
<1>4. QED
  BY <1>2, <1>3

LEMMA SaveInstanceInv ==
  ASSUME EnvironmentInv, NEW r \in Refs, NEW accepted, NEW new \in InstanceObjects,
         SaveInstance(r, accepted, new)
  PROVE  EnvironmentInv'
<1>1. /\ EnvironmentsType /\ InstancesType /\ WorkerType /\ WorldType /\ FaultsType
      /\ CacheInv /\ CopyInv /\ ListInv
  BY TypeParts DEF EnvironmentInv
<1>2. /\ pc = "save" /\ r \in detected
      /\ UNCHANGED <<environments, outside, crashes>>
      /\ Succeeds \/ ApiError
      /\ StoreInstance(r, new) \/ UNCHANGED instances
      /\ Saved(r) \/ Requeue
  BY DEF SaveInstance, SavedNext
<1>3. EnvironmentsType' /\ CacheInv' /\ FaultsType'
  BY <1>1, <1>2, CacheStays, FaultsBounded
<1>4. InstancesType'
  BY <1>1, <1>2, StoreInstanceType, InstancesStay
<1>5. CASE Return \/ Requeue
  BY <1>1, <1>2, <1>3, <1>4, <1>5, ReturnInv, TypeParts DEF EnvironmentInv
<1>6. CASE /\ detected # {r} /\ Goto("save", obj)
           /\ detected' = detected \ {r} /\ UNCHANGED <<listed, toDelete>>
  <2>1. WorkerType' /\ WorldType'
    <3>1. detected \ {r} # {}
      BY <1>2, <1>6
    <3>2. QED
      BY <1>1, <1>2, <1>6, <3>1 DEF WorkerType, WorldType, Goto, outside, Steps, DetectSteps
  <2>2. CopyInv'
    BY <1>1, <1>2, <1>6
       DEF CopyInv, CopyIsCurrent, CopyGuarded, CopyKind, Guarded, Goto, DeleteSteps,
           DetectSteps, environments
  <2>3. ListInv'
    BY <1>1, <1>2, <1>6 DEF ListInv, Goto
  <2>4. QED
    BY <1>3, <1>4, <2>1, <2>2, <2>3, TypeParts DEF EnvironmentInv
<1>7. QED
  BY <1>2, <1>5, <1>6 DEF Saved

LEMMA SavingInv ==
  ASSUME EnvironmentInv, NEW r \in Refs, UpdateInstance(r) \/ CreateInstance(r)
  PROVE  EnvironmentInv'
<1>1. /\ pei[r] \in InstanceObjects /\ obj.uid \in Nat
  BY DEF EnvironmentInv, TypeOK, EnvironmentObjects
<1>2. /\ [pei[r] EXCEPT !.hash = FALSE] \in InstanceObjects
      /\ [NoInstance EXCEPT !.exists = TRUE, !.env = obj.uid] \in InstanceObjects
  BY <1>1 DEF InstanceObjects, NoInstance
<1>3. QED
  BY <1>2, SaveInstanceInv DEF UpdateInstance, CreateInstance

LEMMA ListInstancesInv ==
  ASSUME EnvironmentInv, ListInstances
  PROVE  EnvironmentInv'
<1> DEFINE found == {r \in Refs : peiCache[r].exists}
<1>1. /\ EnvironmentsType /\ InstancesType /\ WorkerType /\ WorldType /\ FaultsType
      /\ CacheInv /\ CopyInv /\ ListInv
  BY TypeParts DEF EnvironmentInv
<1>2. EnvironmentsType' /\ CacheInv' /\ InstancesType' /\ FaultsType'
  BY <1>1, CacheStays, InstancesStay DEF ListInstances, FaultsType, faults
<1>3. /\ pc = "listInstances" /\ listed' = found /\ toDelete' = found /\ found \subseteq Refs
      /\ pc' = IF found = {} THEN "removeFinalizer" ELSE "deleteInstances"
      /\ UNCHANGED <<key, obj, cur, queue, detected, environments, outside>>
  BY DEF ListInstances, Goto
<1> HIDE DEF found
<1>4. WorkerType' /\ WorldType'
  BY <1>1, <1>3 DEF WorkerType, WorldType, outside, Steps, DeleteSteps
<1>5. CopyInv'
  BY <1>1, <1>3
     DEF CopyInv, CopyIsCurrent, CopyGuarded, CopyKind, DeleteSteps, DetectSteps, environments
<1>6. ListInv'
  BY <1>3 DEF ListInv
<1>7. QED
  BY <1>2, <1>4, <1>5, <1>6, TypeParts DEF EnvironmentInv

LEMMA DeleteInstanceInv ==
  ASSUME EnvironmentInv, NEW r \in Refs, DeleteInstance(r)
  PROVE  EnvironmentInv'
<1>1. /\ EnvironmentsType /\ InstancesType /\ WorkerType /\ WorldType /\ FaultsType
      /\ CacheInv /\ CopyInv /\ ListInv
  BY TypeParts DEF EnvironmentInv
<1>2. /\ pc = "deleteInstances" /\ r \in toDelete
      /\ UNCHANGED <<environments, outside, crashes>>
      /\ Succeeds \/ ApiError
      /\ StoreInstance(r, Deleted(r)) \/ UNCHANGED instances
      /\ (StoreInstance(r, Deleted(r)) /\ DeletedNext(r)) \/ Requeue
  BY DEF DeleteInstance
<1>3. Deleted(r) \in InstanceObjects /\ (Deleted(r).deleting \/ ~Deleted(r).exists)
  BY <1>1, DeletedType
<1>4. EnvironmentsType' /\ CacheInv' /\ FaultsType'
  BY <1>1, <1>2, CacheStays, FaultsBounded
<1>5. InstancesType'
  BY <1>1, <1>2, <1>3, StoreInstanceType, InstancesStay
<1>6. CASE Requeue
  BY <1>1, <1>2, <1>4, <1>5, <1>6, ReturnInv, TypeParts DEF EnvironmentInv
<1>7. CASE StoreInstance(r, Deleted(r)) /\ DeletedNext(r)
  <2>1. /\ toDelete' = toDelete \ {r}
        /\ pc' = IF toDelete = {r} THEN "removeFinalizer" ELSE "deleteInstances"
        /\ UNCHANGED <<key, obj, cur, queue, detected, listed>>
    BY <1>7 DEF DeletedNext, Goto
  <2>2. WorkerType' /\ WorldType'
    BY <1>1, <1>2, <2>1 DEF WorkerType, WorldType, outside, Steps, DeleteSteps
  <2>3. CopyInv'
    BY <1>1, <1>2, <2>1
       DEF CopyInv, CopyIsCurrent, CopyGuarded, CopyKind, DeleteSteps, DetectSteps, environments
  <2>4. ListInv'
    BY <1>1, <1>3, <1>7, <2>1 DEF ListInv, StoreInstance, InstancesType, WorkerType
  <2>5. QED
    BY <1>4, <1>5, <2>2, <2>3, <2>4, TypeParts DEF EnvironmentInv
<1>8. QED
  BY <1>2, <1>6, <1>7

LEMMA RemoveFinalizerInv ==
  ASSUME EnvironmentInv, RemoveFinalizer
  PROVE  EnvironmentInv'
<1>1. /\ EnvironmentsType /\ InstancesType /\ WorkerType /\ WorldType /\ FaultsType
      /\ CacheInv /\ CopyInv /\ ListInv
  BY TypeParts DEF EnvironmentInv
<1>2. key \in Environments /\ pc = "removeFinalizer" /\ UNCHANGED <<outside, crashes>>
  BY <1>1, BusyKey DEF RemoveFinalizer
<1>3. cur => peCache[key].deleting
  BY <1>1, <1>2 DEF CopyInv, CopyKind, DeleteSteps
<1>4. InstancesType'
  BY <1>1, InstancesStay DEF RemoveFinalizer
<1>5. CASE cur /\ Succeeds /\ StoreEnvironment(key, NoEnvironment) /\ Return
  <2>1. EnvironmentsType' /\ CacheInv'
    BY <1>1, <1>2, <1>3, <1>5, StoreEnvironmentInv, ObjectTypes
  <2>2. WorkerType' /\ WorldType' /\ CopyInv' /\ ListInv' /\ FaultsType'
    BY <1>1, <1>2, <1>5, ReturnInv, FaultsBounded
  <2>3. QED
    BY <1>4, <2>1, <2>2, TypeParts DEF EnvironmentInv
<1>6. CASE UpdateFails(NoEnvironment)
  BY <1>1, <1>2, <1>3, <1>4, <1>6, UpdateFailsInv, ObjectTypes, TypeParts DEF EnvironmentInv
<1>7. QED
  BY <1>5, <1>6 DEF RemoveFinalizer

\* A write by someone else that keeps the guard of an environment there is
LEMMA OthersStoreInv ==
  ASSUME EnvironmentInv, NEW e \in Environments, NEW o \in EnvironmentObjects,
         OthersStore(e, o), uids' \in Nat,
         pe[e].exists /\ pe[e].finalizer => o.exists /\ o.finalizer /\ o.uid = pe[e].uid
  PROVE  EnvironmentInv'
<1>1. /\ EnvironmentsType /\ InstancesType /\ WorkerType /\ WorldType /\ FaultsType
      /\ CacheInv /\ CopyInv /\ ListInv
  BY TypeParts DEF EnvironmentInv
<1>2. /\ StoreEnvironment(e, o) /\ cur' = (cur /\ (key # e \/ o = pe[e]))
      /\ UNCHANGED <<instances, open, queue, pc, key, obj, detected, listed, toDelete, faults>>
  BY DEF OthersStore, lists
<1>3. EnvironmentsType' /\ CacheInv'
  <2>1. peCache[e].exists /\ ~peCache[e].deleting /\ peCache[e].finalizer =>
          o.exists /\ o.finalizer /\ o.uid = peCache[e].uid
    BY <1>1 DEF CacheInv, CachedGuard, Guarded
  <2>2. QED
    BY <1>1, <1>2, <2>1, StoreEnvironmentInv
<1>4. InstancesType' /\ FaultsType' /\ WorldType' /\ WorkerType'
  <2>1. cur' \in BOOLEAN
    BY <1>2
  <2>2. QED
    BY <1>1, <1>2, <2>1, InstancesStay DEF FaultsType, WorldType, WorkerType, faults
<1>5. CopyInv'
  <2>1. pe' = [pe EXCEPT ![e] = o] /\ peCache' = peCache
    BY <1>2 DEF StoreEnvironment
  <2>2. pc # "idle" => key \in Environments
    BY <1>1, BusyKey
  <2>3. CopyIsCurrent'
    BY <1>1, <1>2, <2>1, <2>2 DEF CopyInv, CopyIsCurrent, EnvironmentsType
  <2>4. CopyGuarded'
    BY <1>1, <1>2, <2>1, <2>2
       DEF CopyInv, CopyGuarded, Guarded, EnvironmentsType, DetectSteps
  <2>5. CopyKind'
    BY <1>1, <1>2, <2>1 DEF CopyInv, CopyKind
  <2>6. QED
    BY <2>3, <2>4, <2>5 DEF CopyInv
<1>6. ListInv'
  BY <1>1, <1>2 DEF ListInv, instances
<1>7. QED
  BY <1>3, <1>4, <1>5, <1>6, TypeParts DEF EnvironmentInv

LEMMA UserInv ==
  ASSUME EnvironmentInv, UserStep
  PROVE  EnvironmentInv'
<1>1. /\ EnvironmentsType /\ InstancesType /\ WorkerType /\ WorldType /\ FaultsType
      /\ CacheInv /\ CopyInv /\ ListInv
  BY TypeParts DEF EnvironmentInv
<1>2. ASSUME NEW e \in Environments, PostEnvironment(e)
      PROVE  EnvironmentInv'
  <2>1. uids' = uids + 1 /\ uids + 1 \in Nat
    BY <1>1, <1>2 DEF PostEnvironment, WorldType
  <2>2. [NoEnvironment EXCEPT !.exists = TRUE, !.uid = uids + 1] \in EnvironmentObjects
    BY <2>1 DEF NoEnvironment, EnvironmentObjects
  <2>3. QED
    BY <1>2, <2>1, <2>2, OthersStoreInv DEF PostEnvironment
<1>3. ASSUME NEW e \in Environments, DeleteEnvironment(e)
      PROVE  EnvironmentInv'
  <2> DEFINE o == IF pe[e].finalizer THEN [pe[e] EXCEPT !.deleting = TRUE] ELSE NoEnvironment
  <2>1. /\ o \in EnvironmentObjects
        /\ pe[e].exists /\ pe[e].finalizer => o.exists /\ o.finalizer /\ o.uid = pe[e].uid
    BY <1>1, ObjectTypes DEF EnvironmentsType, EnvironmentObjects
  <2>2. OthersStore(e, o) /\ uids' \in Nat
    BY <1>1, <1>3 DEF DeleteEnvironment, WorldType
  <2> HIDE DEF o
  <2>3. QED
    BY <2>1, <2>2, OthersStoreInv
<1>4. ASSUME NEW e \in Environments, PatchEnvironment(e)
      PROVE  EnvironmentInv'
  <2>1. /\ peFresh' = [peFresh EXCEPT ![e] = FALSE] /\ cur' = (cur /\ key # e)
        /\ UNCHANGED <<pe, peCache, instances, uids, open, queue, pc, key, obj,
                       detected, listed, toDelete, faults>>
    BY <1>4 DEF PatchEnvironment, lists, outside
  <2>2. EnvironmentsType' /\ CacheInv'
    BY <1>1, <2>1 DEF EnvironmentsType, CacheInv, FreshIsCurrent, CachedGuard, Guarded
  <2>3. InstancesType' /\ FaultsType' /\ WorldType' /\ WorkerType'
    <3>1. cur' \in BOOLEAN
      BY <2>1
    <3>2. QED
      BY <1>1, <2>1, <3>1, InstancesStay DEF FaultsType, WorldType, WorkerType, faults
  <2>4. CopyInv' /\ ListInv'
    BY <1>1, <2>1
       DEF CopyInv, CopyIsCurrent, CopyGuarded, CopyKind, Guarded, ListInv, instances
  <2>5. QED
    BY <2>2, <2>3, <2>4, TypeParts DEF EnvironmentInv
<1>5. ASSUME NEW r \in Refs, OpenOrClose(r)
      PROVE  EnvironmentInv'
  <2>1. UNCHANGED <<environments, instances, uids, queue, pc, key, obj, cur, detected,
                    listed, toDelete, faults>> /\ open' \subseteq Refs
    BY <1>1, <1>5 DEF OpenOrClose, worker, lists, WorldType
  <2>2. EnvironmentsType' /\ CacheInv' /\ InstancesType'
    BY <1>1, <2>1, CacheStays, InstancesStay
  <2>3. FaultsType' /\ WorldType' /\ WorkerType'
    BY <1>1, <2>1 DEF FaultsType, WorldType, WorkerType, faults
  <2>4. CopyInv' /\ ListInv'
    BY <1>1, <2>1
       DEF CopyInv, CopyIsCurrent, CopyGuarded, CopyKind, Guarded, ListInv, instances,
           environments
  <2>5. QED
    BY <2>2, <2>3, <2>4, TypeParts DEF EnvironmentInv
<1>6. QED
  BY <1>2, <1>3, <1>4, <1>5 DEF UserStep

LEMMA InstanceInv ==
  ASSUME EnvironmentInv, InstanceStep
  PROVE  EnvironmentInv'
<1>1. /\ EnvironmentsType /\ InstancesType /\ WorkerType /\ WorldType /\ FaultsType
      /\ CacheInv /\ CopyInv /\ ListInv
  BY TypeParts DEF EnvironmentInv
<1>2. PICK r \in Refs : \/ InstanceFinalizer(r) \/ InstanceHash(r) \/ InstanceRemoved(r)
                         \/ InstanceStatus(r)
  BY DEF InstanceStep
<1>3. UNCHANGED <<environments, uids, open, queue, pc, key, obj, cur, detected, listed,
                  toDelete, faults>>
  BY <1>2 DEF InstanceFinalizer, InstanceHash, InstanceRemoved, InstanceStatus,
              InstanceWrite, outside, worker, lists
<1>4. InstancesType' /\ \A q \in Refs : (~pei[q].exists \/ pei[q].deleting)
                                        => (~pei[q].exists \/ pei[q].deleting)'
  <2>1. ASSUME NEW o \in InstanceObjects, InstanceWrite(r, o),
               (~pei[r].exists \/ pei[r].deleting) => (~o.exists \/ o.deleting)
        PROVE  <1>4!1 /\ <1>4!2
    <3>1. InstancesType'
      BY <1>1, <2>1, StoreInstanceType DEF InstanceWrite
    <3>2. QED
      BY <1>1, <2>1, <3>1 DEF InstanceWrite, StoreInstance, InstancesType
  <2>2. /\ pei[r] \in InstanceObjects
        /\ [pei[r] EXCEPT !.finalizer = TRUE] \in InstanceObjects
        /\ [pei[r] EXCEPT !.hash = TRUE] \in InstanceObjects
        /\ NoInstance \in InstanceObjects /\ ~NoInstance.exists
    BY <1>1, ObjectTypes DEF InstancesType, InstanceObjects, NoInstance
  <2>3. CASE InstanceFinalizer(r)
    BY <2>1, <2>2, <2>3 DEF InstanceFinalizer
  <2>4. CASE InstanceHash(r)
    BY <2>1, <2>2, <2>4 DEF InstanceHash
  <2>5. CASE InstanceRemoved(r)
    BY <2>1, <2>2, <2>5 DEF InstanceRemoved
  <2>6. CASE InstanceStatus(r)
    BY <1>1, <2>6 DEF InstanceStatus, InstancesType
  <2>7. QED
    BY <1>2, <2>3, <2>4, <2>5, <2>6
<1>5. EnvironmentsType' /\ CacheInv'
  BY <1>1, <1>3, CacheStays
<1>6. FaultsType' /\ WorldType' /\ WorkerType'
  BY <1>1, <1>3 DEF FaultsType, WorldType, WorkerType, faults
<1>7. CopyInv'
  BY <1>1, <1>3 DEF CopyInv, CopyIsCurrent, CopyGuarded, CopyKind, Guarded, environments
<1>8. ListInv'
  BY <1>1, <1>3, <1>4 DEF ListInv, WorkerType
<1>9. QED
  BY <1>4, <1>5, <1>6, <1>7, <1>8, TypeParts DEF EnvironmentInv

LEMMA SyncInv ==
  ASSUME EnvironmentInv, SyncStep
  PROVE  EnvironmentInv'
<1>1. /\ EnvironmentsType /\ InstancesType /\ WorkerType /\ WorldType /\ FaultsType
      /\ CacheInv /\ CopyInv /\ ListInv
  BY TypeParts DEF EnvironmentInv
<1>2. ASSUME NEW e \in Environments, EnvironmentSync(e)
      PROVE  EnvironmentInv'
  <2>1. /\ peCache' = [peCache EXCEPT ![e] = pe[e]] /\ peFresh' = [peFresh EXCEPT ![e] = TRUE]
        /\ queue' = queue \cup {e}
        /\ UNCHANGED <<pe, instances, uids, open, pc, key, obj, cur, detected, listed,
                       toDelete, faults>>
    BY <1>2 DEF EnvironmentSync, outside, worker, lists
  <2>2. EnvironmentsType' /\ CacheInv'
    BY <1>1, <2>1 DEF EnvironmentsType, CacheInv, FreshIsCurrent, CachedGuard, Guarded
  <2>3. InstancesType' /\ FaultsType' /\ WorldType' /\ WorkerType'
    BY <1>1, <2>1, InstancesStay DEF FaultsType, WorldType, WorkerType, faults
  <2>4. CopyIsCurrent' /\ CopyGuarded' /\ ListInv'
    BY <1>1, <2>1 DEF CopyInv, CopyIsCurrent, CopyGuarded, Guarded, ListInv, instances
  <2>5. CopyKind'
    <3>1. pc \in DeleteSteps /\ cur => peCache'[key].deleting
      <4> SUFFICES ASSUME pc \in DeleteSteps, cur PROVE peCache'[key].deleting
        OBVIOUS
      <4>1. key \in Environments /\ obj = pe[key] /\ obj.deleting /\ peCache[key].deleting
        BY <1>1, BusyKey DEF CopyInv, CopyIsCurrent, CopyKind, DeleteSteps
      <4>2. QED
        BY <1>1, <2>1, <4>1 DEF EnvironmentsType
    <3>2. QED
      BY <1>1, <2>1, <3>1 DEF CopyInv, CopyKind
  <2>6. QED
    BY <2>2, <2>3, <2>4, <2>5, TypeParts DEF EnvironmentInv, CopyInv
<1>3. ASSUME NEW e \in Environments, Resync(e)
      PROVE  EnvironmentInv'
  <2>1. /\ queue' = queue \cup {e}
        /\ UNCHANGED <<environments, instances, uids, open, pc, key, obj, cur, detected,
                       listed, toDelete, faults>>
    BY <1>3 DEF Resync, outside, worker, lists
  <2>2. EnvironmentsType' /\ CacheInv' /\ InstancesType'
    BY <1>1, <2>1, CacheStays, InstancesStay
  <2>3. FaultsType' /\ WorldType' /\ WorkerType'
    BY <1>1, <2>1 DEF FaultsType, WorldType, WorkerType, faults
  <2>4. CopyInv' /\ ListInv'
    BY <1>1, <2>1
       DEF CopyInv, CopyIsCurrent, CopyGuarded, CopyKind, Guarded, ListInv, instances,
           environments
  <2>5. QED
    BY <2>2, <2>3, <2>4, TypeParts DEF EnvironmentInv
<1>4. ASSUME NEW r \in Refs, InstanceSync(r)
      PROVE  EnvironmentInv'
  <2>1. /\ peiCache' = [peiCache EXCEPT ![r] = pei[r]]
        /\ peiFresh' = [peiFresh EXCEPT ![r] = TRUE]
        /\ UNCHANGED <<environments, pei, uids, open, queue, pc, key, obj, cur, detected,
                       listed, toDelete, faults>>
    BY <1>4 DEF InstanceSync, outside, worker, lists
  <2>2. EnvironmentsType' /\ CacheInv'
    BY <1>1, <2>1, CacheStays
  <2>3. InstancesType' /\ FaultsType' /\ WorldType' /\ WorkerType'
    BY <1>1, <2>1 DEF InstancesType, FaultsType, WorldType, WorkerType, faults
  <2>4. CopyInv' /\ ListInv'
    BY <1>1, <2>1
       DEF CopyInv, CopyIsCurrent, CopyGuarded, CopyKind, Guarded, ListInv, environments
  <2>5. QED
    BY <2>2, <2>3, <2>4, TypeParts DEF EnvironmentInv
<1>5. QED
  BY <1>2, <1>3, <1>4 DEF SyncStep

LEMMA CrashInv ==
  ASSUME EnvironmentInv, Crash
  PROVE  EnvironmentInv'
<1>1. /\ EnvironmentsType /\ InstancesType /\ WorkerType /\ WorldType /\ FaultsType
  BY TypeParts DEF EnvironmentInv
<1>2. WorkerType' /\ CopyInv' /\ ListInv'
  BY <1>1, DropInv DEF Crash
<1>3. EnvironmentsType' /\ InstancesType'
  BY <1>1 DEF Crash, EnvironmentsType, InstancesType
<1>4. WorldType' /\ FaultsType'
  BY <1>1, BoundsAssumption DEF Crash, WorldType, FaultsType, outside
<1>5. CacheInv'
  BY DEF Crash, CacheInv, FreshIsCurrent, CachedGuard, Guarded
<1>6. QED
  BY <1>2, <1>3, <1>4, <1>5, TypeParts DEF EnvironmentInv

LEMMA StutterInv ==
  ASSUME EnvironmentInv, UNCHANGED vars
  PROVE  EnvironmentInv'
<1>1. /\ EnvironmentsType /\ InstancesType /\ WorkerType /\ WorldType /\ FaultsType
      /\ CacheInv /\ CopyInv /\ ListInv
  BY TypeParts DEF EnvironmentInv
<1>2. UNCHANGED <<environments, instances, uids, open, queue, pc, key, obj, cur, detected,
                  listed, toDelete, faults>>
  BY DEF vars, outside, worker, lists
<1>3. EnvironmentsType' /\ CacheInv' /\ InstancesType'
  BY <1>1, <1>2, CacheStays, InstancesStay
<1>4. FaultsType' /\ WorldType' /\ WorkerType'
  BY <1>1, <1>2 DEF FaultsType, WorldType, WorkerType, faults
<1>5. CopyInv' /\ ListInv'
  BY <1>1, <1>2
     DEF CopyInv, CopyIsCurrent, CopyGuarded, CopyKind, Guarded, ListInv, instances,
         environments
<1>6. QED
  BY <1>3, <1>4, <1>5, TypeParts DEF EnvironmentInv

LEMMA NextInv ==
  ASSUME EnvironmentInv, [Next]_vars
  PROVE  EnvironmentInv'
<1>1. ASSUME NEW e \in Environments, Reconcile(e) PROVE EnvironmentInv'
  BY <1>1, ReconcileInv
<1>2. CASE Saving
  BY <1>2, AddFinalizerInv, DetectionInv, SavingInv DEF Saving
<1>3. CASE Deleting
  BY <1>3, ListInstancesInv, DeleteInstanceInv, RemoveFinalizerInv DEF Deleting
<1>4. CASE UserStep
  BY <1>4, UserInv
<1>5. CASE InstanceStep
  BY <1>5, InstanceInv
<1>6. CASE SyncStep
  BY <1>6, SyncInv
<1>7. CASE Crash
  BY <1>7, CrashInv
<1>8. CASE UNCHANGED vars
  BY <1>8, StutterInv
<1>9. QED
  BY <1>1, <1>2, <1>3, <1>4, <1>5, <1>6, <1>7, <1>8 DEF Next, WorkerStep

LEMMA EnvironmentInvariant == Spec => []EnvironmentInv
<1>1. Init => EnvironmentInv
  BY InitInv
<1>2. EnvironmentInv /\ [Next]_vars => EnvironmentInv'
  BY NextInv
<1>3. QED
  BY <1>1, <1>2, PTL DEF Spec

-----------------------------------------------------------------------------
(* The theorems *)

\* Type correctness of environments, instances, caches and worker, and that the
\* worker neither saves nor deletes with an empty list.
THEOREM EnvironmentTypes == Spec => []TypeOK
<1>1. EnvironmentInv => TypeOK
  BY DEF EnvironmentInv
<1>2. QED
  BY <1>1, EnvironmentInvariant, PTL

\* Only the worker creates instances, and only from a copy whose environment still
\* exists under the copy's uid with its finalizer.
LEMMA CreationStep ==
  ASSUME EnvironmentInv, [Next]_vars, NEW r \in Refs, ~pei[r].exists, pei'[r].exists
  PROVE  \E e \in Environments : /\ pe[e].exists /\ pe[e].finalizer
                                 /\ pe[e].uid = pei'[r].env
<1>1. /\ EnvironmentsType /\ InstancesType /\ WorkerType /\ CopyInv
  BY TypeParts DEF EnvironmentInv
<1>2. ASSUME NEW q \in Refs, NEW o, StoreInstance(q, o), q # r \/ ~o.exists
      PROVE  FALSE
  BY <1>1, <1>2 DEF StoreInstance, InstancesType
<1>3. ASSUME UNCHANGED instances \/ UNCHANGED pei
      PROVE  FALSE
  BY <1>3 DEF instances
<1>4. CASE CreateInstance(r)
  <2>1. pc = "save" /\ key \in Environments
    BY <1>1, <1>4, BusyKey DEF CreateInstance, SaveInstance
  <2>2. pei'[r].env = obj.uid
    <3>1. StoreInstance(r, [NoInstance EXCEPT !.exists = TRUE, !.env = obj.uid])
      BY <1>3, <1>4 DEF CreateInstance, SaveInstance
    <3>2. QED
      BY <1>1, <3>1 DEF StoreInstance, InstancesType, NoInstance
  <2>3. Guarded(key, obj.uid)
    BY <1>1, <2>1 DEF CopyInv, CopyGuarded, DetectSteps
  <2>4. QED
    BY <2>1, <2>2, <2>3 DEF Guarded
<1>5. ASSUME NEW q \in Refs, q # r, CreateInstance(q) PROVE FALSE
  BY <1>2, <1>3, <1>5 DEF CreateInstance, SaveInstance
<1>6. ASSUME NEW q \in Refs, UpdateInstance(q) PROVE FALSE
  <2>1. [pei[q] EXCEPT !.hash = FALSE].exists = pei[q].exists
    BY <1>1 DEF InstancesType, InstanceObjects
  <2>2. q # r \/ ~[pei[q] EXCEPT !.hash = FALSE].exists
    BY <2>1
  <2>3. QED
    BY <1>2, <1>3, <1>6, <2>2 DEF UpdateInstance, SaveInstance
<1>7. ASSUME NEW q \in Refs, DeleteInstance(q) PROVE FALSE
  <2>1. q # r \/ ~Deleted(q).exists
    BY <1>1 DEF Deleted, NoInstance, InstancesType, InstanceObjects
  <2>2. QED
    BY <1>2, <1>3, <1>7, <2>1 DEF DeleteInstance
<1>8. CASE InstanceStep
  BY <1>1, <1>2, <1>8
     DEF InstanceStep, InstanceFinalizer, InstanceHash, InstanceRemoved, InstanceStatus,
         InstanceWrite, StoreInstance, InstancesType, InstanceObjects, NoInstance
<1>9. CASE \/ \E e \in Environments : Reconcile(e)
           \/ AddFinalizer \/ DetectPullRequests \/ DetectBranches
           \/ ListInstances \/ RemoveFinalizer \/ UNCHANGED vars
  BY <1>3, <1>9 DEF Reconcile, AddFinalizer, DetectPullRequests, DetectBranches,
                    ListInstances, RemoveFinalizer, vars
<1>10. CASE UserStep
  BY <1>3, <1>10 DEF UserStep, PostEnvironment, DeleteEnvironment, PatchEnvironment,
                     OpenOrClose, OthersStore
<1>11. CASE SyncStep \/ Crash
  BY <1>3, <1>11 DEF SyncStep, EnvironmentSync, Resync, InstanceSync, Crash
<1>12. QED
  BY <1>4, <1>5, <1>6, <1>7, <1>8, <1>9, <1>10, <1>11
     DEF Next, WorkerStep, Saving, Deleting

\* An instance is only created for an environment that exists under the uid in
\* the instance's label and has its finalizer.
THEOREM InstancesAreCreatedGuarded == Spec => CreatedUnderFinalizer
<1>1. EnvironmentInv /\ [Next]_vars =>
        [\A r \in Refs :
           ~pei[r].exists /\ pei'[r].exists =>
             \E e \in Environments : /\ pe[e].exists /\ pe[e].finalizer
                                     /\ pe[e].uid = pei'[r].env]_vars
  BY CreationStep
<1>2. QED
  BY <1>1, EnvironmentInvariant, PTL DEF Spec, CreatedUnderFinalizer

\* An environment with its finalizer goes by RemoveFinalizer only.
LEMMA RemovalStep ==
  ASSUME EnvironmentInv, [Next]_vars,
         NEW e \in Environments, pe[e].finalizer, pe[e].exists, ~pe'[e].exists
  PROVE  RemoveFinalizer
<1>1. EnvironmentsType /\ WorkerType /\ CopyInv
  BY TypeParts DEF EnvironmentInv
<1>2. ASSUME UNCHANGED environments \/ UNCHANGED pe
      PROVE  FALSE
  BY <1>2 DEF environments
<1>3. ASSUME AddFinalizer PROVE FALSE
  <2> DEFINE new == [obj EXCEPT !.finalizer = TRUE]
  <2>1. new.exists
    BY <1>1, <1>3 DEF AddFinalizer, CopyInv, CopyKind, WorkerType, EnvironmentObjects
  <2>2. StoreEnvironment(key, new)
    BY <1>2, <1>3 DEF AddFinalizer, UpdateFails
  <2> HIDE DEF new
  <2>3. QED
    BY <1>1, <2>1, <2>2 DEF StoreEnvironment, EnvironmentsType
<1>4. ASSUME UserStep PROVE FALSE
  <2>1. ASSUME NEW d \in Environments, PostEnvironment(d) PROVE FALSE
    BY <1>1, <2>1 DEF PostEnvironment, OthersStore, StoreEnvironment, EnvironmentsType
  <2>2. ASSUME NEW d \in Environments, DeleteEnvironment(d) PROVE FALSE
    BY <1>1, <2>2 DEF DeleteEnvironment, OthersStore, StoreEnvironment, EnvironmentsType,
                      EnvironmentObjects
  <2>3. QED
    BY <1>2, <1>4, <2>1, <2>2 DEF UserStep, PatchEnvironment, OpenOrClose
<1>5. CASE \/ \E d \in Environments : Reconcile(d)
           \/ DetectPullRequests \/ DetectBranches
           \/ \E r \in Refs : UpdateInstance(r) \/ CreateInstance(r) \/ DeleteInstance(r)
           \/ ListInstances \/ InstanceStep \/ SyncStep \/ Crash \/ UNCHANGED vars
  BY <1>2, <1>5
     DEF Reconcile, DetectPullRequests, DetectBranches, UpdateInstance, CreateInstance,
         SaveInstance, DeleteInstance, ListInstances, InstanceStep, InstanceFinalizer,
         InstanceHash, InstanceRemoved, InstanceStatus, InstanceWrite, SyncStep,
         EnvironmentSync, Resync, InstanceSync, Crash, vars
<1>6. QED
  BY <1>3, <1>4, <1>5 DEF Next, WorkerStep, Saving, Deleting

\* An environment that has its finalizer only goes when every instance the worker
\* has listed is deleted.
THEOREM ListedInstancesGoFirst == Spec => ListedAreDeletedFirst
<1>1. ASSUME EnvironmentInv, [Next]_vars, NEW e \in Environments,
             pe[e].exists, pe[e].finalizer, ~pe'[e].exists
      PROVE  \A r \in listed : ~pei[r].exists \/ pei[r].deleting
  <2>1. pc = "removeFinalizer"
    BY <1>1, RemovalStep DEF RemoveFinalizer
  <2>2. toDelete = {}
    BY <1>1, <2>1 DEF EnvironmentInv, TypeOK
  <2>3. QED
    BY <1>1, <2>2 DEF EnvironmentInv, ListInv
<1>2. EnvironmentInv /\ [Next]_vars =>
        [\A e \in Environments :
           pe[e].exists /\ pe[e].finalizer /\ ~pe'[e].exists =>
             \A r \in listed : ~pei[r].exists \/ pei[r].deleting]_vars
  BY <1>1
<1>3. QED
  BY <1>2, EnvironmentInvariant, PTL DEF Spec, ListedAreDeletedFirst
=============================================================================
