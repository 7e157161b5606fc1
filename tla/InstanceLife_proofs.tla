-------------------------- MODULE InstanceLife_proofs --------------------------
(***************************************************************************)
(* The life of an instance, for every value of the constants of            *)
(* InstanceReconciler: ResourcesGuarded, DeletionNotUndone,                *)
(* RunningMeansDeployed, and that the controller implements InstanceLife.  *)
(*                                                                         *)
(* The worker decides from a cached object, which may be an older version  *)
(* or an earlier incarnation, whether to deploy or to delete.  GuardInv    *)
(* says why neither goes wrong: a cached live object is still guarded by   *)
(* its finalizer, a cached deleted one has not come back, and the removal  *)
(* of the finalizer comes last.  RunInv adds how far a deployment has come *)
(* when the instance is shown as running.                                  *)
(***************************************************************************)
EXTENDS InstanceImages_proofs

-----------------------------------------------------------------------------
(* The inductive invariant *)

\* An object the deletion of which has to come by the worker
Guarded(o) == o.exists /\ o.finalizer

\* ... and that is not being deleted yet
Live(o) == Guarded(o) /\ ~o.deleting

\* The informer's cache is late, but it never runs ahead.
CacheInv ==
  \A i \in Instances :
    /\ cache[i].deleting => Guarded(cache[i])
    /\ Live(cache[i]) => Guarded(pei[i])
    /\ cache[i].deleting /\ pei[i].exists => pei[i].deleting

\* Deploying is done to a guarded object, deleting to one that is not live.
DecisionInv ==
  /\ pc \in DeleteSteps => obj.deleting /\ ~Live(pei[key]) /\ ~Live(cache[key])
  /\ pc \notin {"idle", "addFinalizer"} \cup DeleteSteps => Guarded(pei[key])
  /\ pc \in {"redeploy"} \cup DeploySteps => obj.hash # NoCommit

\* How far a deployment of the auth proxy has come
AuthProgress ==
  /\ pc \in {"authService", "authIngress"} => res[key]["authDeployment"] # NoCommit
  /\ pc = "authIngress" => res[key]["authService"] # NoCommit

\* The auth proxy's resources are deployed and deleted in one order, so that a
\* NotFound for one means that the later ones are gone too, except in the
\* middle of a deletion.
AuthChain ==
  apiErrors = 0 /\ crashes = 0 =>
    \A i \in Instances :
      /\ ~(key = i /\ pc \in {"delAuthService", "delAuthIngress"}) =>
           (res[i]["authDeployment"] = NoCommit => res[i]["authService"] = NoCommit)
      /\ ~(key = i /\ pc = "delAuthIngress") =>
           (res[i]["authService"] = NoCommit => res[i]["authIngress"] = NoCommit)

\* How far a deletion has come
DeletionProgress ==
  /\ apiErrors = 0 =>
       /\ pc \in DeleteSteps \ {"delDeployment"} => res[key]["deployment"] = NoCommit
       /\ pc \in DeleteSteps \ {"delDeployment", "delService"} => res[key]["service"] = NoCommit
       /\ pc = "removeFinalizer" => res[key]["ingress"] = NoCommit
  /\ apiErrors = 0 /\ crashes = 0 =>
       /\ pc \in {"delAuthService", "delAuthIngress", "delIngress", "removeFinalizer"} =>
            res[key]["authDeployment"] = NoCommit
       /\ pc \in {"delAuthIngress", "delIngress", "removeFinalizer"} =>
            res[key]["authService"] = NoCommit
       /\ pc \in {"delIngress", "removeFinalizer"} => res[key]["authIngress"] = NoCommit

GuardInv ==
  CacheInv /\ DecisionInv /\ AuthProgress /\ AuthChain /\ DeletionProgress /\ ResourcesGuarded

-----------------------------------------------------------------------------
(* Lemmas *)

\* Errors and restarts are only counted upwards.
CountedUp == (apiErrors' = 0 => apiErrors = 0) /\ (crashes' = 0 => crashes = 0)

LEMMA ErrorsCounted ==
  ASSUME TypeOK, Succeeds \/ ApiError
  PROVE  apiErrors' = 0 => apiErrors = 0
BY BoundsAssumption DEF TypeOK, Succeeds, ApiError

\* A failing call ends every claim that needs that no call fails.
LEMMA ErrorCounted ==
  ASSUME TypeOK, ApiError
  PROVE  apiErrors' # 0
BY BoundsAssumption DEF TypeOK, ApiError

\* Steps at which the worker has found the object guarded and not deleted
LiveSteps == NextSteps \ (DeleteSteps \cup {"addFinalizer"})

\* What leads there from another such step keeps what is said of the resources.
LEMMA ResourcesKept ==
  ASSUME GuardInv, UNCHANGED res, CountedUp, pc \notin DeleteSteps,
         pc' \notin DeleteSteps \cup {"authService", "authIngress"}
  PROVE  AuthProgress' /\ AuthChain' /\ DeletionProgress'
<1>1. AuthProgress' /\ DeletionProgress'
  BY DEF AuthProgress, DeletionProgress, DeleteSteps
<1>2. AuthChain'
  BY DEF GuardInv, AuthChain, CountedUp, DeleteSteps
<1> QED
  BY <1>1, <1>2

LEMMA GuardedKept ==
  ASSUME GuardInv, UNCHANGED res, CountedUp,
         \A i \in Instances : Guarded(pei[i]) => Guarded(pei'[i])
  PROVE  ResourcesGuarded'
BY DEF GuardInv, ResourcesGuarded, CountedUp, Guarded

\* An API call that writes neither the object nor a resource
LEMMA GotoGuard ==
  ASSUME BaseInv, GuardInv, UNCHANGED <<store, res, crashes>>, Succeeds \/ ApiError,
         pc \notin {"idle", "addFinalizer"} \cup DeleteSteps,
         NEW step \in LiveSteps \ {"authService", "authIngress"}, NEW o, NEW c, Goto(step, o, c),
         step \in {"redeploy"} \cup DeploySteps => o.hash # NoCommit
  PROVE  GuardInv'
<1>1. CountedUp
  BY ErrorsCounted DEF CountedUp, BaseInv
<1>2. CacheInv' /\ ResourcesGuarded'
  BY <1>1, GuardedKept DEF GuardInv, CacheInv, Guarded, Live, store
<1>3. /\ pc' = "idle" \/ (pc' = step /\ obj' = o /\ key' = key)
      /\ pc' \notin DeleteSteps \cup {"authService", "authIngress"}
  BY DEF Goto, LiveSteps, NextSteps, DeleteSteps
<1>4. AuthProgress' /\ AuthChain' /\ DeletionProgress'
  BY <1>1, <1>3, ResourcesKept
<1>5. DecisionInv'
  BY <1>3 DEF GuardInv, DecisionInv, Guarded, store, LiveSteps, NextSteps, DeploySteps
<1> QED
  BY <1>2, <1>4, <1>5 DEF GuardInv

\* A write of the worker that leaves a guarded object behind
LEMMA PutGuard ==
  ASSUME BaseInv, GuardInv, UNCHANGED <<res, crashes>>,
         pc \notin {"idle"} \cup DeleteSteps, NEW o \in Objects, NEW new \in Objects,
         NEW ok \in LiveSteps \ {"authService", "authIngress"},
         NEW err \in {"requeue", "markFailed"}, err = "markFailed" => pc # "addFinalizer",
         Put(o, new, ok, err),
         cur => Guarded(new) /\ new.deleting = pei[key].deleting,
         cur /\ ok \in {"redeploy"} \cup DeploySteps => new.hash # NoCommit
  PROVE  GuardInv'
<1>1. CountedUp
  BY ErrorsCounted DEF CountedUp, BaseInv, Put
<1>2. key \in Instances
  BY BusyKey DEF BaseInv
<1>3. /\ pc' \in {"idle", ok, err} /\ (pc' # "idle" => key' = key)
      /\ pc' \notin DeleteSteps \cup {"authService", "authIngress"}
  BY DEF Put, Goto, LiveSteps, NextSteps, DeleteSteps
<1>4. AuthProgress' /\ AuthChain' /\ DeletionProgress'
  BY <1>1, <1>3, ResourcesKept
<1>5. ASSUME UNCHANGED store, NEW b, Goto(err, o, b)
      PROVE  GuardInv'
  <2>1. CacheInv' /\ ResourcesGuarded'
    BY <1>1, <1>5, GuardedKept DEF GuardInv, CacheInv, Guarded, Live, store
  <2>2. DecisionInv'
    BY <1>3, <1>5 DEF GuardInv, DecisionInv, Guarded, Goto, store, DeploySteps
  <2> QED
    BY <1>4, <2>1, <2>2 DEF GuardInv
<1>6. ASSUME cur, Write(key, new), pc' \in {"redeploy"} \cup DeploySteps => obj'.hash # NoCommit
      PROVE  GuardInv'
  <2>1. /\ \A i \in Instances \ {key} : pei'[i] = pei[i]
        /\ pei'[key] = new /\ cache' = cache
    BY <1>2, <1>6 DEF Write, BaseInv, TypeOK
  <2>2. Guarded(pei'[key]) /\ pei'[key].deleting = pei[key].deleting /\ pei[key].exists
    BY <1>6, <2>1 DEF BaseInv, CopyAgrees
  <2>3. CacheInv'
    BY <2>1, <2>2 DEF GuardInv, CacheInv, Guarded, Live
  <2>4. ResourcesGuarded'
    BY <1>1, <2>1, <2>2, GuardedKept
  <2>5. DecisionInv'
    BY <1>3, <1>6, <2>2 DEF DecisionInv, Guarded
  <2> QED
    BY <1>4, <2>3, <2>4, <2>5 DEF GuardInv
<1>7. Goto(ok, new, TRUE) /\ cur => (pc' \in {"redeploy"} \cup DeploySteps => obj'.hash # NoCommit)
  BY DEF Goto, DeploySteps
<1>8. ASSUME NEW b, Goto(err, o, b)
      PROVE  pc' \notin {"redeploy"} \cup DeploySteps
  BY <1>8 DEF Goto, DeploySteps
<1> QED
  BY <1>5, <1>6, <1>7, <1>8 DEF Put

\* A status update leaves everything else as it is stored.
LEMMA StatusGuard ==
  ASSUME BaseInv, GuardInv, UNCHANGED <<res, crashes>>,
         pc \notin {"idle", "addFinalizer", "updateHash"} \cup DeleteSteps, NEW o \in Objects,
         NEW ok \in LiveSteps \ {"authService", "authIngress"},
         NEW err \in {"requeue", "markFailed"},
         StatusUpdate(o, ok, err),
         ok \in {"redeploy"} \cup DeploySteps => obj.hash # NoCommit
  PROVE  GuardInv'
<1> DEFINE new == [pei[key] EXCEPT !.status = o.status]
<1>1. key \in Instances /\ pei[key] \in Objects
  BY BusyKey DEF BaseInv, TypeOK
<1>2. /\ new \in Objects /\ new.exists = pei[key].exists /\ new.finalizer = pei[key].finalizer
      /\ new.deleting = pei[key].deleting /\ new.hash = pei[key].hash
  BY <1>1 DEF Objects
<1>3. Guarded(new)
  BY <1>2 DEF GuardInv, DecisionInv, Guarded
<1>4. cur => new.hash = obj.hash
  BY <1>2 DEF BaseInv, CopyAgrees
<1>5. Put(o, new, ok, err)
  BY DEF StatusUpdate
<1> HIDE DEF new
<1> QED
  BY <1>2, <1>3, <1>4, <1>5, PutGuard

\* One resource is deployed: the object it belongs to is guarded.
LEMMA ApplyGuard ==
  ASSUME BaseInv, GuardInv, pc \in DeploySteps, NEW kind \in Kinds,
         NEW ok \in LiveSteps, NEW err \in LiveSteps \ {"authService", "authIngress"},
         Apply(kind, ok, err), ok # "redeploy", err # "redeploy",
         ok = "authService" => kind = "authDeployment",
         ok = "authIngress" => kind = "authService" /\ pc = "authService",
         kind = "authService" => pc = "authService",
         kind = "authIngress" => pc = "authIngress"
  PROVE  GuardInv'
<1>1. CountedUp
  BY ErrorsCounted DEF CountedUp, BaseInv, Apply
<1>2. pc # "idle" /\ key \in Instances
  BY BusyKey DEF BaseInv, DeploySteps
<1>3. Guarded(pei[key]) /\ obj.hash # NoCommit /\ pc \notin DeleteSteps
  BY DEF GuardInv, DecisionInv, DeploySteps, DeleteSteps
<1> DEFINE applied == [res EXCEPT ![key][kind] = obj.hash]
<1>4. /\ \/ res' = applied /\ Goto(ok, obj, cur) /\ Succeeds
         \/ res' \in {res, applied} /\ Goto(err, obj, cur) /\ ApiError
      /\ UNCHANGED <<store, crashes>>
  BY DEF Apply
<1> HIDE DEF applied
<1>5. (res' = applied /\ Goto(ok, obj, cur)) \/ Goto(err, obj, cur)
  BY <1>4
<1>6. /\ pc' = "idle" \/ (pc' \in {ok, err} /\ obj' = obj /\ key' = key)
      /\ pc' \notin DeleteSteps /\ pc' # "redeploy"
      /\ pc' \in {"authService", "authIngress"} => res' = applied /\ pc' = ok
  BY <1>5 DEF Goto, LiveSteps, NextSteps, DeleteSteps
<1>7. \A i \in Instances, k \in Kinds :
        res'[i][k] = IF res' = applied /\ i = key /\ k = kind THEN obj.hash ELSE res[i][k]
  BY <1>2, <1>4 DEF BaseInv, TypeOK, applied
<1>8. CacheInv'
  BY <1>4 DEF GuardInv, CacheInv, Guarded, Live, store
<1>9. ResourcesGuarded'
  BY <1>1, <1>3, <1>4, <1>7 DEF GuardInv, ResourcesGuarded, Guarded, CountedUp, store
<1>10. DecisionInv'
  BY <1>3, <1>4, <1>6 DEF DecisionInv, Guarded, store, DeploySteps
<1>11. AuthProgress'
  BY <1>2, <1>3, <1>6, <1>7 DEF GuardInv, AuthProgress, Kinds, AuthKinds
<1>12. AuthChain'
  <2>1. \A i \in Instances :
          apiErrors' = 0 /\ crashes' = 0 =>
            /\ res'[i]["authDeployment"] = NoCommit => res'[i]["authService"] = NoCommit
            /\ res'[i]["authService"] = NoCommit => res'[i]["authIngress"] = NoCommit
    BY <1>1, <1>3, <1>7 DEF GuardInv, AuthChain, AuthProgress, CountedUp, DeleteSteps, Kinds, AuthKinds
  <2> QED
    BY <2>1 DEF AuthChain
<1>13. DeletionProgress'
  BY <1>6 DEF DeletionProgress, DeleteSteps
<1> QED
  BY <1>8, <1>9, <1>10, <1>11, <1>12, <1>13 DEF GuardInv

\* One resource is deleted, and its deletion is found to have succeeded.
LEMMA DeleteResourceGuard ==
  ASSUME BaseInv, GuardInv, pc \in DeleteSteps, NEW kind \in Kinds,
         NEW ok \in DeleteSteps, NEW err \in DeleteSteps, DeleteResource(kind, ok, err)
  PROVE  /\ CacheInv' /\ DecisionInv' /\ AuthProgress' /\ ResourcesGuarded' /\ CountedUp
         /\ key \in Instances /\ key' = key /\ pc' \in {ok, err}
         /\ apiErrors' = 0 =>
              /\ pc' = IF res[key][kind] = NoCommit THEN err ELSE ok
              /\ \A i \in Instances, k \in Kinds :
                   res'[i][k] = IF i = key /\ k = kind THEN NoCommit ELSE res[i][k]
<1>1. CountedUp
  BY ErrorsCounted DEF CountedUp, BaseInv, DeleteResource
<1>2. key \in Instances
  BY BusyKey DEF BaseInv, DeleteSteps
<1> DEFINE deleted == [res EXCEPT ![key][kind] = NoCommit]
           step == IF res[key][kind] = NoCommit THEN err ELSE ok
<1>3. /\ \/ Succeeds /\ res' = deleted /\ Goto(step, obj, cur)
         \/ ApiError /\ res' \in {res, deleted} /\ Goto(err, obj, cur)
      /\ UNCHANGED <<store, crashes>>
  BY DEF DeleteResource
<1>4. /\ pc' \in {ok, err} /\ key' = key /\ obj' = obj
      /\ Goto(step, obj, cur) => pc' = step
  BY <1>3 DEF Goto, DeleteSteps
<1>5. \A i \in Instances, k \in Kinds :
        /\ res' = deleted => res'[i][k] = IF i = key /\ k = kind THEN NoCommit ELSE res[i][k]
        /\ res'[i][k] \in {res[i][k], NoCommit}
  BY <1>2, <1>3 DEF BaseInv, TypeOK
<1>6. apiErrors' = 0 => Succeeds /\ res' = deleted /\ pc' = step
  BY <1>3, <1>4, ErrorCounted DEF BaseInv
<1> HIDE DEF deleted
<1>7. CacheInv' /\ DecisionInv'
  BY <1>3, <1>4 DEF GuardInv, CacheInv, DecisionInv, Guarded, Live, store, DeleteSteps, DeploySteps
<1>8. AuthProgress'
  BY <1>4 DEF AuthProgress, DeleteSteps
<1>9. ResourcesGuarded'
  BY <1>1, <1>3, <1>5 DEF GuardInv, ResourcesGuarded, CountedUp, store
<1> QED
  BY <1>1, <1>2, <1>4, <1>5, <1>6, <1>7, <1>8, <1>9

LEMMA GuardDeleting ==
  ASSUME BaseInv, GuardInv, Deleting
  PROVE  GuardInv'
<1> USE DEF DeleteSteps, Kinds, MainKinds, AuthKinds
<1>1. CASE DeleteKubernetesDeployment
  <2>1. pc = "delDeployment" /\ DeleteResource("deployment", "delService", "delService")
    BY <1>1 DEF DeleteKubernetesDeployment
  <2>2. /\ CacheInv' /\ DecisionInv' /\ AuthProgress' /\ ResourcesGuarded' /\ CountedUp
        /\ key \in Instances /\ key' = key /\ pc' \in {"delService", "delService"}
        /\ apiErrors' = 0 =>
             /\ pc' = IF res[key]["deployment"] = NoCommit THEN "delService" ELSE "delService"
             /\ \A i \in Instances, k \in Kinds :
                  res'[i][k] = IF i = key /\ k = "deployment" THEN NoCommit ELSE res[i][k]
    BY <2>1, DeleteResourceGuard
  <2>3. AuthChain' /\ DeletionProgress'
    BY <2>1, <2>2 DEF GuardInv, AuthChain, DeletionProgress, CountedUp
  <2> QED
    BY <2>2, <2>3 DEF GuardInv
<1>2. CASE DeleteKubernetesService
  <2>1. pc = "delService" /\ DeleteResource("service", "delAuthDeployment", "delAuthDeployment")
    BY <1>2 DEF DeleteKubernetesService
  <2>2. /\ CacheInv' /\ DecisionInv' /\ AuthProgress' /\ ResourcesGuarded' /\ CountedUp
        /\ key \in Instances /\ key' = key /\ pc' \in {"delAuthDeployment", "delAuthDeployment"}
        /\ apiErrors' = 0 =>
             /\ pc' = IF res[key]["service"] = NoCommit THEN "delAuthDeployment" ELSE "delAuthDeployment"
             /\ \A i \in Instances, k \in Kinds :
                  res'[i][k] = IF i = key /\ k = "service" THEN NoCommit ELSE res[i][k]
    BY <2>1, DeleteResourceGuard
  <2>3. AuthChain' /\ DeletionProgress'
    BY <2>1, <2>2 DEF GuardInv, AuthChain, DeletionProgress, CountedUp
  <2> QED
    BY <2>2, <2>3 DEF GuardInv
<1>3. CASE DeleteAuthProxyDeployment
  <2>1. pc = "delAuthDeployment" /\ DeleteResource("authDeployment", "delAuthService", "delIngress")
    BY <1>3 DEF DeleteAuthProxyDeployment
  <2>2. /\ CacheInv' /\ DecisionInv' /\ AuthProgress' /\ ResourcesGuarded' /\ CountedUp
        /\ key \in Instances /\ key' = key /\ pc' \in {"delAuthService", "delIngress"}
        /\ apiErrors' = 0 =>
             /\ pc' = IF res[key]["authDeployment"] = NoCommit THEN "delIngress" ELSE "delAuthService"
             /\ \A i \in Instances, k \in Kinds :
                  res'[i][k] = IF i = key /\ k = "authDeployment" THEN NoCommit ELSE res[i][k]
    BY <2>1, DeleteResourceGuard
  <2>3. AuthChain' /\ DeletionProgress'
    BY <2>1, <2>2 DEF GuardInv, AuthChain, DeletionProgress, CountedUp
  <2> QED
    BY <2>2, <2>3 DEF GuardInv
<1>4. CASE DeleteAuthProxyService
  <2>1. pc = "delAuthService" /\ DeleteResource("authService", "delAuthIngress", "delIngress")
    BY <1>4 DEF DeleteAuthProxyService
  <2>2. /\ CacheInv' /\ DecisionInv' /\ AuthProgress' /\ ResourcesGuarded' /\ CountedUp
        /\ key \in Instances /\ key' = key /\ pc' \in {"delAuthIngress", "delIngress"}
        /\ apiErrors' = 0 =>
             /\ pc' = IF res[key]["authService"] = NoCommit THEN "delIngress" ELSE "delAuthIngress"
             /\ \A i \in Instances, k \in Kinds :
                  res'[i][k] = IF i = key /\ k = "authService" THEN NoCommit ELSE res[i][k]
    BY <2>1, DeleteResourceGuard
  <2>3. AuthChain' /\ DeletionProgress'
    BY <2>1, <2>2 DEF GuardInv, AuthChain, DeletionProgress, CountedUp
  <2> QED
    BY <2>2, <2>3 DEF GuardInv
<1>5. CASE DeleteAuthProxyIngress
  <2>1. pc = "delAuthIngress" /\ DeleteResource("authIngress", "delIngress", "delIngress")
    BY <1>5 DEF DeleteAuthProxyIngress
  <2>2. /\ CacheInv' /\ DecisionInv' /\ AuthProgress' /\ ResourcesGuarded' /\ CountedUp
        /\ key \in Instances /\ key' = key /\ pc' \in {"delIngress", "delIngress"}
        /\ apiErrors' = 0 =>
             /\ pc' = IF res[key]["authIngress"] = NoCommit THEN "delIngress" ELSE "delIngress"
             /\ \A i \in Instances, k \in Kinds :
                  res'[i][k] = IF i = key /\ k = "authIngress" THEN NoCommit ELSE res[i][k]
    BY <2>1, DeleteResourceGuard
  <2>3. AuthChain' /\ DeletionProgress'
    BY <2>1, <2>2 DEF GuardInv, AuthChain, DeletionProgress, CountedUp
  <2> QED
    BY <2>2, <2>3 DEF GuardInv
<1>6. CASE DeleteKubernetesIngress
  <2>1. pc = "delIngress" /\ DeleteResource("ingress", "removeFinalizer", "removeFinalizer")
    BY <1>6 DEF DeleteKubernetesIngress
  <2>2. /\ CacheInv' /\ DecisionInv' /\ AuthProgress' /\ ResourcesGuarded' /\ CountedUp
        /\ key \in Instances /\ key' = key /\ pc' \in {"removeFinalizer", "removeFinalizer"}
        /\ apiErrors' = 0 =>
             /\ pc' = IF res[key]["ingress"] = NoCommit THEN "removeFinalizer" ELSE "removeFinalizer"
             /\ \A i \in Instances, k \in Kinds :
                  res'[i][k] = IF i = key /\ k = "ingress" THEN NoCommit ELSE res[i][k]
    BY <2>1, DeleteResourceGuard
  <2>3. AuthChain' /\ DeletionProgress'
    BY <2>1, <2>2 DEF GuardInv, AuthChain, DeletionProgress, CountedUp
  <2> QED
    BY <2>2, <2>3 DEF GuardInv
<1>7. CASE RemoveFinalizer
  <2>1. /\ pc = "removeFinalizer" /\ UNCHANGED <<res, crashes>> /\ obj \in Objects
        /\ Update([obj EXCEPT !.finalizer = FALSE], "done", "requeue")
    BY <1>7 DEF RemoveFinalizer, cluster, BaseInv, TypeOK
  <2>2. obj.deleting /\ ~Live(pei[key]) /\ ~Live(cache[key]) /\ key \in Instances
    BY <2>1, BusyKey DEF GuardInv, DecisionInv, BaseInv
  <2>3. \E o : Put(o, Absent, "done", "requeue")
    <3>1. [obj EXCEPT !.finalizer = FALSE].deleting /\ ~[obj EXCEPT !.finalizer = FALSE].finalizer
      BY <2>1, <2>2 DEF Objects
    <3> QED
      BY <2>1, <3>1 DEF Update
  <2>4. pc' = "idle" /\ CountedUp
    BY <2>1, <2>3, ErrorsCounted DEF Put, Goto, CountedUp, BaseInv
  <2>5. AuthProgress' /\ DeletionProgress' /\ DecisionInv'
    BY <2>4 DEF AuthProgress, DeletionProgress, DecisionInv, DeploySteps
  <2>6. AuthChain'
    BY <2>1, <2>4 DEF GuardInv, AuthChain, CountedUp
  <2>7. CASE UNCHANGED store
    BY <2>1, <2>4, <2>5, <2>6, <2>7, GuardedKept DEF GuardInv, CacheInv, Guarded, Live, store
  <2>8. CASE Write(key, Absent)
    <3>1. /\ \A i \in Instances \ {key} : pei'[i] = pei[i]
          /\ pei'[key] = Absent /\ ~Absent.exists /\ cache' = cache
      BY <2>2, <2>8 DEF Write, BaseInv, TypeOK, Absent
    <3>2. CacheInv'
      BY <2>2, <3>1 DEF GuardInv, CacheInv, Guarded, Live
    <3>3. ResourcesGuarded'
      <4>1. \A k \in Kinds : apiErrors = 0 /\ (k \in AuthKinds => crashes = 0) => res[key][k] = NoCommit
        BY <2>1 DEF GuardInv, DeletionProgress
      <4> QED
        BY <2>1, <2>4, <3>1, <4>1 DEF GuardInv, ResourcesGuarded, CountedUp
    <3> QED
      BY <2>5, <2>6, <3>2, <3>3 DEF GuardInv
  <2> QED
    BY <2>3, <2>7, <2>8 DEF Put
<1> QED
  BY <1>1, <1>2, <1>3, <1>4, <1>5, <1>6, <1>7 DEF Deleting

LEMMA GuardDispatching ==
  ASSUME BaseInv, GuardInv, Dispatching
  PROVE  GuardInv'
<1> USE DEF LiveSteps, NextSteps, Steps, OtherSteps, DeleteSteps, DeploySteps
<1>1. CASE AddFinalizer
  <2> DEFINE o == [obj EXCEPT !.finalizer = TRUE]
             new == [o EXCEPT !.status = pei[key].status]
  <2>1. pc = "addFinalizer" /\ UNCHANGED <<res, crashes>>
    BY <1>1 DEF AddFinalizer, cluster
  <2>2. key \in Instances /\ obj \in Objects /\ pei[key] \in Objects
    BY <2>1, BusyKey DEF BaseInv, TypeOK
  <2>3. /\ o \in Objects /\ new \in Objects /\ o.finalizer /\ new.finalizer
        /\ new.exists = obj.exists /\ new.deleting = obj.deleting
    BY <2>2 DEF Objects
  <2>4. Put(o, new, "load", "requeue")
    BY <1>1, <2>3 DEF AddFinalizer, Update
  <2>5. cur => Guarded(new) /\ new.deleting = pei[key].deleting
    BY <2>3 DEF BaseInv, CopyAgrees, Guarded
  <2> HIDE DEF o, new
  <2> QED
    BY <2>1, <2>3, <2>4, <2>5, PutGuard
<1>2. ASSUME NEW found \in Lookups, LoadPreviewEnvironment(found)
      PROVE  GuardInv'
  <2>1. /\ pc = "load" /\ UNCHANGED <<store, res, crashes>> /\ Succeeds
        /\ \E step \in {"requeue", "markDeploying", "markBuilding", "comment", "redeploy", "latest"} :
             Goto(step, obj, cur) /\ (step = "redeploy" => obj.hash # NoCommit)
    BY <1>2 DEF LoadPreviewEnvironment, RebuildInstance, RedeployInstance, cluster, faults, Succeeds
  <2> QED
    BY <2>1, GotoGuard DEF BuildSteps
<1>3. CASE LatestCommitHash
  <2>1. /\ pc = "latest" /\ UNCHANGED <<store, res, crashes>> /\ (Succeeds \/ ApiError)
        /\ \E step \in {"requeue", "done", "updateHash"}, o \in {obj, [obj EXCEPT !.hash = head[key]]} :
             Goto(step, o, cur)
    BY <1>3 DEF LatestCommitHash, cluster
  <2> QED
    BY <2>1, GotoGuard
<1>4. CASE UpdateHash
  <2> DEFINE new == [obj EXCEPT !.status = pei[key].status]
  <2>1. pc = "updateHash" /\ UNCHANGED <<res, crashes>> /\ Update(obj, "markPending", "requeue")
    BY <1>4 DEF UpdateHash, cluster
  <2>2. /\ key \in Instances /\ obj \in Objects /\ pei[key] \in Objects
        /\ Guarded(pei[key])
    BY <2>1, BusyKey DEF BaseInv, TypeOK, GuardInv, DecisionInv
  <2>3. cur => obj.exists = pei[key].exists /\ obj.deleting = pei[key].deleting /\ obj.finalizer
    BY <2>2 DEF BaseInv, CopyAgrees, Guarded, Objects
  <2>4. /\ new \in Objects /\ new.exists = obj.exists /\ new.deleting = obj.deleting
        /\ new.finalizer = obj.finalizer
    BY <2>2 DEF Objects
  <2>5. \E v \in {Absent, new} : Put(obj, v, "markPending", "requeue") /\ (obj.finalizer => v = new)
    BY <2>1 DEF Update
  <2> HIDE DEF new
  <2> QED
    BY <2>1, <2>2, <2>3, <2>4, <2>5, AbsentType, PutGuard DEF Guarded
<1>5. CASE MarkPending
  BY <1>5, InPhaseType, StatusGuard DEF MarkPending, Phases, cluster, BaseInv, TypeOK
<1>6. CASE MarkFailed
  BY <1>6, InPhaseType, StatusGuard DEF MarkFailed, Phases, cluster, BaseInv, TypeOK
<1> QED
  BY <1>1, <1>2, <1>3, <1>4, <1>5, <1>6 DEF Dispatching

LEMMA GuardBuilding ==
  ASSUME BaseInv, GuardInv, Building
  PROVE  GuardInv'
<1> USE DEF LiveSteps, NextSteps, Steps, OtherSteps, BuildSteps, DeleteSteps, DeploySteps
<1>1. CASE MarkBuilding
  BY <1>1, InPhaseType, StatusGuard DEF MarkBuilding, Phases, cluster, BaseInv, TypeOK
<1>2. CASE CleanJob \/ CreateJob \/ WaitJob
  <2>1. /\ pc \in {"cleanJob", "createJob", "waitJob"} /\ UNCHANGED <<store, res, crashes>>
        /\ Succeeds \/ ApiError
        /\ \E o : \E step \in {"createJob", "waitJob", "markFailed", "markDeploying"} : Goto(step, o, cur)
    BY <1>2 DEF CleanJob, CreateJob, WaitJob, cluster
  <2> QED
    BY <2>1, GotoGuard
<1>3. CASE MarkDeploying
  BY <1>3, InPhaseType, StatusGuard DEF MarkDeploying, Phases, cluster, BaseInv, TypeOK
<1> QED
  BY <1>1, <1>2, <1>3 DEF Building

LEMMA GuardDeploying ==
  ASSUME BaseInv, GuardInv, Deploying
  PROVE  GuardInv'
<1> USE DEF LiveSteps, NextSteps, Steps, OtherSteps, DeleteSteps, DeploySteps
<1> USE DEF Kinds, MainKinds, AuthKinds
<1>1. CASE MarkRedeploying
  <2>1. pc = "redeploy" /\ obj.hash # NoCommit
    BY <1>1 DEF MarkRedeploying, GuardInv, DecisionInv
  <2> QED
    BY <1>1, <2>1, InPhaseType, StatusGuard DEF MarkRedeploying, Phases, cluster, BaseInv, TypeOK
<1>2. CASE SetupAuthentication
  <2>1. /\ pc = "auth" /\ UNCHANGED <<store, res, crashes>> /\ (Succeeds \/ ApiError)
        /\ obj.hash # NoCommit
        /\ \E step \in {"deployment", "markFailed", "requeue"} : Goto(step, obj, cur)
    BY <1>2 DEF SetupAuthentication, cluster, GuardInv, DecisionInv
  <2> QED
    BY <2>1, GotoGuard
<1>3. CASE DeployKubernetesDeployment
  BY <1>3, ApplyGuard DEF DeployKubernetesDeployment
<1>4. CASE DeployKubernetesService
  BY <1>4, ApplyGuard DEF DeployKubernetesService
<1>5. CASE DeployAuthProxyDeployment
  BY <1>5, ApplyGuard DEF DeployAuthProxyDeployment
<1>6. CASE DeployAuthProxyService
  BY <1>6, ApplyGuard DEF DeployAuthProxyService
<1>7. CASE DeployAuthProxyIngress
  BY <1>7, ApplyGuard DEF DeployAuthProxyIngress
<1>8. CASE DeployKubernetesIngress
  BY <1>8, ApplyGuard DEF DeployKubernetesIngress
<1>9. CASE SetPublicFacingUrl
  <2> DEFINE o == [obj EXCEPT !.status.url = obj.hash]
  <2>1. /\ pc = "setUrl" /\ StatusUpdate(o, "comment", "markFailed") /\ UNCHANGED <<res, crashes>>
        /\ o \in Objects
    BY <1>9 DEF SetPublicFacingUrl, cluster, BaseInv, TypeOK, Objects, Statuses
  <2> HIDE DEF o
  <2> QED
    BY <2>1, StatusGuard
<1>10. CASE PullRequestAlreadyHasMessage \/ PostMessageToPr
  <2>1. /\ pc \in {"comment", "post"} /\ UNCHANGED <<store, res, crashes>>
        /\ Succeeds \/ ApiError
        /\ \E step \in {"markRunning", "post", "markFailed"} : Goto(step, obj, cur)
    BY <1>10 DEF PullRequestAlreadyHasMessage, PostMessageToPr, cluster
  <2> QED
    BY <2>1, GotoGuard
<1>11. CASE MarkRunning
  BY <1>11, InPhaseType, StatusGuard DEF MarkRunning, Phases, cluster, BaseInv, TypeOK
<1> QED
  BY <1>1, <1>2, <1>3, <1>4, <1>5, <1>6, <1>7, <1>8, <1>9, <1>10, <1>11 DEF Deploying

LEMMA GuardReconcile ==
  ASSUME BaseInv, GuardInv, NEW i \in Instances, Reconcile(i)
  PROVE  GuardInv'
<1>1. /\ pc = "idle" /\ UNCHANGED <<store, res, faults>>
  BY DEF Reconcile, cluster
<1>2. CacheInv' /\ ResourcesGuarded'
  BY <1>1 DEF GuardInv, CacheInv, ResourcesGuarded, Guarded, Live, store, faults
<1>3. \/ pc' = "idle"
      \/ /\ key' = i /\ obj' = cache[i] /\ cache[i].exists
         /\ \/ pc' = "delDeployment" /\ cache[i].deleting
            \/ pc' = "load" /\ Live(cache[i])
            \/ pc' = "addFinalizer"
  BY <1>1 DEF Reconcile, worker, Live, Guarded
<1>4. AuthProgress' /\ AuthChain' /\ DeletionProgress'
  BY <1>1, <1>3 DEF GuardInv, AuthProgress, AuthChain, DeletionProgress, DeleteSteps, faults
<1>5. DecisionInv'
  BY <1>1, <1>3 DEF GuardInv, CacheInv, DecisionInv, Guarded, Live, store, DeleteSteps, DeploySteps
<1> QED
  BY <1>2, <1>4, <1>5 DEF GuardInv

\* Another client's write that neither guards nor unguards the object, nor revives it
LEMMA OtherWritesGuard ==
  ASSUME BaseInv, GuardInv, NEW i \in Instances, NEW o, OtherWrites(i, o),
         Guarded(pei[i]) => Guarded(o), Live(o) => Live(pei[i]),
         cache[i].deleting /\ o.exists => o.deleting
  PROVE  GuardInv'
<1>1. /\ \A l \in Instances : pei'[l] = IF l = i THEN o ELSE pei[l]
      /\ UNCHANGED <<cache, pc, key, obj, res, faults>>
  BY DEF OtherWrites, Write, cluster, BaseInv, TypeOK
<1>2. CacheInv'
  BY <1>1 DEF GuardInv, CacheInv, Guarded, Live
<1>3. DecisionInv'
  <2>1. pc # "idle" => key \in Instances
    BY BusyKey DEF BaseInv
  <2> QED
    BY <1>1, <2>1 DEF GuardInv, DecisionInv, Guarded, Live, DeleteSteps
<1>4. AuthProgress' /\ AuthChain' /\ DeletionProgress' /\ ResourcesGuarded'
  BY <1>1 DEF GuardInv, AuthProgress, AuthChain, DeletionProgress, ResourcesGuarded, Guarded, faults
<1> QED
  BY <1>2, <1>3, <1>4 DEF GuardInv

LEMMA GuardUserStep ==
  ASSUME BaseInv, GuardInv, UserStep
  PROVE  GuardInv'
<1>1. PICK i \in Instances : \/ CreateInstance(i) \/ ResetInstance(i) \/ DeleteInstance(i)
                             \/ \E c \in Commits : Push(i, c)
  BY DEF UserStep
<1>2. pei[i] \in Objects /\ ~Absent.exists /\ ~NewInstance.finalizer
  BY DEF BaseInv, TypeOK, Absent, NewInstance
<1>3. CASE CreateInstance(i)
  BY <1>2, <1>3, OtherWritesGuard DEF CreateInstance, Guarded, Live, GuardInv, CacheInv
<1>4. CASE ResetInstance(i)
  <2> DEFINE o == [pei[i] EXCEPT !.hash = NoCommit]
  <2>1. o.exists = pei[i].exists /\ o.finalizer = pei[i].finalizer /\ o.deleting = pei[i].deleting
    BY <1>2 DEF Objects
  <2>2. OtherWrites(i, o)
    BY <1>4 DEF ResetInstance
  <2> HIDE DEF o
  <2> QED
    BY <2>1, <2>2, OtherWritesGuard DEF Guarded, Live, GuardInv, CacheInv
<1>5. CASE DeleteInstance(i)
  <2> DEFINE o == [pei[i] EXCEPT !.deleting = TRUE]
  <2>1. o.exists = pei[i].exists /\ o.finalizer = pei[i].finalizer /\ o.deleting
    BY <1>2 DEF Objects
  <2>2. OtherWrites(i, o) \/ (~pei[i].finalizer /\ OtherWrites(i, Absent))
    BY <1>5 DEF DeleteInstance
  <2> HIDE DEF o
  <2> QED
    BY <1>2, <2>1, <2>2, OtherWritesGuard DEF Guarded, Live
<1>6. CASE \E c \in Commits : Push(i, c)
  BY <1>6 DEF Push, GuardInv, CacheInv, DecisionInv, AuthProgress, AuthChain, DeletionProgress,
              ResourcesGuarded, Guarded, Live, store, worker, cluster, faults
<1> QED
  BY <1>1, <1>3, <1>4, <1>5, <1>6

LEMMA GuardClusterStep ==
  ASSUME BaseInv, GuardInv, ClusterStep
  PROVE  GuardInv'
<1>1. PICK i \in Instances : \/ CacheSync(i) \/ Resync(i)
                             \/ JobSucceeds(i) \/ JobFails(i) \/ JobExpires(i)
  BY DEF ClusterStep
<1>2. /\ UNCHANGED <<pei, worker, res, faults>>
      /\ \A l \in Instances : cache'[l] \in {cache[l], pei[l]}
  BY <1>1 DEF CacheSync, Resync, JobSucceeds, JobFails, JobExpires, cluster, store, BaseInv, TypeOK
<1>3. CacheInv'
  BY <1>2 DEF GuardInv, CacheInv, Guarded, Live, BaseInv, StoreInv, GoneWhenUnguarded
<1>4. DecisionInv'
  <2>1. pc # "idle" => key \in Instances
    BY BusyKey DEF BaseInv
  <2> QED
    BY <1>2, <2>1 DEF GuardInv, DecisionInv, Guarded, Live, worker, DeleteSteps
<1>5. AuthProgress' /\ AuthChain' /\ DeletionProgress' /\ ResourcesGuarded'
  BY <1>2 DEF GuardInv, AuthProgress, AuthChain, DeletionProgress, ResourcesGuarded, worker, faults
<1> QED
  BY <1>3, <1>4, <1>5 DEF GuardInv

LEMMA GuardCrash ==
  ASSUME BaseInv, GuardInv, Crash
  PROVE  GuardInv'
<1>1. pc' = "idle" /\ cache' = pei /\ UNCHANGED <<pei, res, apiErrors>> /\ crashes' # 0
  BY DEF Crash, cluster, BaseInv, TypeOK
<1>2. CacheInv'
  BY <1>1 DEF CacheInv, Guarded, Live, BaseInv, StoreInv, GoneWhenUnguarded
<1> QED
  BY <1>1, <1>2 DEF GuardInv, DecisionInv, AuthProgress, AuthChain, DeletionProgress,
                    ResourcesGuarded, DeleteSteps, DeploySteps

LEMMA GuardInit == Init => GuardInv
<1> SUFFICES ASSUME Init
             PROVE  GuardInv
  OBVIOUS
<1>1. /\ \A i \in Instances : cache[i] = Absent
      /\ \A i \in Instances, k \in Kinds : res[i][k] = NoCommit
      /\ ~Absent.exists /\ ~Absent.deleting /\ pc = "idle"
  BY DEF Init, Absent
<1> QED
  BY <1>1 DEF GuardInv, CacheInv, DecisionInv, AuthProgress, AuthChain, DeletionProgress,
              ResourcesGuarded, Guarded, Live, DeleteSteps, DeploySteps, Kinds, AuthKinds

LEMMA GuardNext == BaseInv /\ GuardInv /\ [Next]_vars => GuardInv'
<1> SUFFICES ASSUME BaseInv, GuardInv, [Next]_vars
             PROVE  GuardInv'
  OBVIOUS
<1>1. CASE UNCHANGED vars
  BY <1>1 DEF vars, store, worker, cluster, faults, GuardInv, CacheInv, DecisionInv, AuthProgress,
              AuthChain, DeletionProgress, ResourcesGuarded, Guarded, Live
<1> QED
  BY <1>1, GuardDeleting, GuardDispatching, GuardBuilding, GuardDeploying, GuardReconcile,
     GuardUserStep, GuardClusterStep, GuardCrash
     DEF Next, WorkerStep

\* As long as no API call fails, and for the auth proxy no restart happens, no
\* resource outlives the finalizer of the instance it belongs to, for any number
\* of instances and commits.
THEOREM ResourcesAreGuarded == Spec => []ResourcesGuarded
<1>1. GuardInv => ResourcesGuarded
  BY DEF GuardInv
<1> QED
  BY <1>1, BaseAlways, GuardInit, GuardNext, PTL DEF Spec

-----------------------------------------------------------------------------
(* No step revives an object that is being deleted *)

StaysDeleting == \A i \in Instances : pei[i].deleting /\ pei'[i].exists => pei'[i].deleting

LEMMA PutStaysDeleting ==
  ASSUME BaseInv, pc # "idle", NEW o, NEW new, NEW ok, NEW err, Put(o, new, ok, err),
         cur /\ pei[key].deleting /\ new.exists => new.deleting
  PROVE  StaysDeleting
<1>1. UNCHANGED pei \/ (cur /\ pei' = [pei EXCEPT ![key] = new])
  BY DEF Put, Write, store
<1> QED
  BY <1>1, BusyKey DEF StaysDeleting, BaseInv, TypeOK

\* client.Update sends the deletionTimestamp the copy was read with.
LEMMA UpdateStaysDeleting ==
  ASSUME BaseInv, pc # "idle", NEW o \in Objects, NEW ok, NEW err, Update(o, ok, err),
         o.deleting = obj.deleting
  PROVE  StaysDeleting
<1> DEFINE new == [o EXCEPT !.status = pei[key].status]
<1>1. new.deleting = obj.deleting /\ ~Absent.exists
  BY DEF Objects, Absent
<1>2. cur => obj.deleting = pei[key].deleting
  BY DEF BaseInv, CopyAgrees
<1>3. Put(o, new, ok, err) \/ Put(o, Absent, ok, err)
  BY DEF Update
<1> HIDE DEF new
<1> QED
  BY <1>1, <1>2, <1>3, PutStaysDeleting

LEMMA StatusStaysDeleting ==
  ASSUME BaseInv, pc # "idle", NEW o, NEW ok, NEW err, StatusUpdate(o, ok, err)
  PROVE  StaysDeleting
<1> DEFINE new == [pei[key] EXCEPT !.status = o.status]
<1>1. key \in Instances /\ pei[key] \in Objects
  BY BusyKey DEF BaseInv, TypeOK
<1>2. new.deleting = pei[key].deleting
  BY <1>1 DEF Objects
<1>3. Put(o, new, ok, err)
  BY DEF StatusUpdate
<1> HIDE DEF new
<1> QED
  BY <1>2, <1>3, PutStaysDeleting

LEMMA WorkerStaysDeleting ==
  ASSUME BaseInv, WorkerStep
  PROVE  StaysDeleting
<1>1. obj \in Objects
  BY DEF BaseInv, TypeOK
<1>2. CASE UNCHANGED store
  BY <1>2 DEF StaysDeleting, store
<1>3. CASE AddFinalizer
  BY <1>1, <1>3, UpdateStaysDeleting DEF AddFinalizer, Objects
<1>4. CASE RemoveFinalizer
  BY <1>1, <1>4, UpdateStaysDeleting DEF RemoveFinalizer, Objects
<1>5. CASE UpdateHash
  BY <1>1, <1>5, UpdateStaysDeleting DEF UpdateHash
<1>6. CASE \/ MarkPending \/ MarkFailed \/ MarkBuilding \/ MarkDeploying
           \/ MarkRedeploying \/ SetPublicFacingUrl \/ MarkRunning
  BY <1>6, StatusStaysDeleting
     DEF MarkPending, MarkFailed, MarkBuilding, MarkDeploying, MarkRedeploying,
         SetPublicFacingUrl, MarkRunning
<1>7. CASE Deleting
  BY <1>2, <1>4, <1>7
     DEF Deleting, DeleteResource, DeleteKubernetesDeployment, DeleteKubernetesService,
         DeleteAuthProxyDeployment, DeleteAuthProxyService, DeleteAuthProxyIngress,
         DeleteKubernetesIngress
<1>8. CASE Dispatching
  BY <1>2, <1>3, <1>5, <1>6, <1>8, Zenon DEF Dispatching, LoadPreviewEnvironment, LatestCommitHash
<1>9. CASE Building
  BY <1>2, <1>6, <1>9 DEF Building, CleanJob, CreateJob, WaitJob
<1>10. CASE Deploying
  BY <1>2, <1>6, <1>10
     DEF Deploying, Apply, SetupAuthentication, DeployKubernetesDeployment,
         DeployKubernetesService, DeployAuthProxyDeployment, DeployAuthProxyService,
         DeployAuthProxyIngress, DeployKubernetesIngress, PullRequestAlreadyHasMessage,
         PostMessageToPr
<1> QED
  BY <1>7, <1>8, <1>9, <1>10 DEF WorkerStep

LEMMA UserStaysDeleting ==
  ASSUME BaseInv, UserStep
  PROVE  StaysDeleting
<1>1. PICK i \in Instances : \/ CreateInstance(i) \/ ResetInstance(i) \/ DeleteInstance(i)
                             \/ \E c \in Commits : Push(i, c)
  BY DEF UserStep
<1>2. /\ pei[i] \in Objects /\ ~Absent.exists /\ (pei[i].deleting => pei[i].exists)
      /\ [pei[i] EXCEPT !.hash = NoCommit].deleting = pei[i].deleting
      /\ [pei[i] EXCEPT !.deleting = TRUE].deleting
  BY DEF BaseInv, TypeOK, Objects, Absent, StoreInv, GoneWhenUnguarded
<1> DEFINE Wrote(o) == /\ pei' = [pei EXCEPT ![i] = o]
                       /\ pei[i].deleting /\ o.exists => o.deleting
<1>3. UNCHANGED pei \/ \E o : Wrote(o)
  BY <1>1, <1>2 DEF CreateInstance, ResetInstance, DeleteInstance, Push, OtherWrites, Write, store
<1>4. CASE UNCHANGED pei
  BY <1>4 DEF StaysDeleting
<1>5. ASSUME NEW o, Wrote(o)
      PROVE  StaysDeleting
  <2>1. \A l \in Instances : pei'[l] = IF l = i THEN o ELSE pei[l]
    BY <1>5 DEF BaseInv, TypeOK
  <2> QED
    BY <1>5, <2>1 DEF StaysDeleting
<1> HIDE DEF Wrote
<1> QED
  BY <1>3, <1>4, <1>5

LEMMA StepStaysDeleting == BaseInv /\ [Next]_vars => StaysDeleting
<1> SUFFICES ASSUME BaseInv, [Next]_vars
             PROVE  StaysDeleting
  OBVIOUS
<1>1. CASE UNCHANGED pei
  BY <1>1 DEF StaysDeleting
<1>2. CASE \E i \in Instances : Reconcile(i)
  BY <1>1, <1>2 DEF Reconcile, store
<1>3. CASE ClusterStep \/ Crash \/ UNCHANGED vars
  BY <1>1, <1>3 DEF ClusterStep, CacheSync, Resync, JobSucceeds, JobFails, JobExpires, Crash,
                    store, vars
<1> QED
  BY <1>2, <1>3, WorkerStaysDeleting, UserStaysDeleting DEF Next

\* The optimistic locking never lets a worker or the other controller write an
\* object it read before the deletion over the deleted one.
THEOREM DeletionStays == Spec => DeletionNotUndone
<1>1. BaseInv /\ [Next]_vars =>
        [\A i \in Instances : pei[i].deleting /\ pei'[i].exists => pei'[i].deleting]_vars
  BY StepStaysDeleting DEF StaysDeleting
<1> QED
  BY <1>1, BaseAlways, PTL DEF Spec, DeletionNotUndone

-----------------------------------------------------------------------------
(* What phase running means *)

\* Version o of an instance tells its user that its commit is running.
ShowsRunning(o) == o.status.phase = "running" /\ o.hash # NoCommit /\ ~o.deleting

\* The resources that are applied before step p of a deployment
AppliedBefore(p) ==
  {k \in Kinds :
     \/ p \in {"setUrl", "comment", "post", "markRunning"}
     \/ k = "deployment" /\ p \in DeploySteps \ {"auth", "deployment"}
     \/ k = "service" /\ p \in {"authDeployment", "authService", "authIngress", "ingress"}
     \/ k = "authDeployment" /\ p \in {"authService", "authIngress", "ingress"}
     \/ k = "authService" /\ p \in {"authIngress", "ingress"}
     \/ k = "authIngress" /\ p = "ingress"}

\* What the worker has applied is of its copy's commit, unless a call has failed.
DeployProgress ==
  apiErrors = 0 /\ obj.hash # NoCommit =>
    \A k \in AppliedBefore(pc) : res[key][k] = obj.hash

\* While resources change, the instance is not shown as running: nobody else changes
\* the phase that was stored before the first of them.
NotRunningYet == pc \in DeploySteps => pei[key].status.phase # "running"

\* Only a guarded instance is given a phase.
PhaseNeedsGuard == \A i \in Instances : ~Guarded(pei[i]) => pei[i].status.phase = ""

\* The new hash is stored with phase running until MarkPending.  When that is refused,
\* the instance was reset or deleted in between.
PendingRefused ==
  pc = "markPending" /\ ~cur => pei[key].hash = NoCommit \/ pei[key].deleting

RunInv ==
  RunningMeansDeployed /\ DeployProgress /\ NotRunningYet /\ PhaseNeedsGuard /\ PendingRefused

NoFaults == apiErrors = 0 /\ crashes = 0

\* An API call that writes neither the object nor a resource
LEMMA GotoRun ==
  ASSUME BaseInv, RunInv, UNCHANGED <<store, res, crashes>>, Succeeds \/ ApiError,
         pc \notin {"idle", "markPending"},
         NEW step \in NextSteps \ {"markPending"}, NEW o, NEW c, Goto(step, o, c),
         step \in DeploySteps => pc \in DeploySteps,
         apiErrors = 0 /\ o.hash # NoCommit =>
           \A k \in AppliedBefore(step) : res[key][k] = o.hash
  PROVE  RunInv'
<1>1. CountedUp
  BY ErrorsCounted DEF CountedUp, BaseInv
<1>2. \/ pc' = "idle"
      \/ pc' = step /\ obj' = o /\ key' = key /\ step \notin {"done", "requeue"}
  BY DEF Goto
<1>3. RunningMeansDeployed' /\ PhaseNeedsGuard'
  BY <1>1 DEF RunInv, RunningMeansDeployed, PhaseNeedsGuard, Guarded, CountedUp, store
<1>4. DeployProgress'
  BY <1>1, <1>2 DEF DeployProgress, AppliedBefore, CountedUp, DeploySteps
<1>5. NotRunningYet' /\ PendingRefused'
  BY <1>2 DEF RunInv, NotRunningYet, PendingRefused, DeploySteps, store
<1> QED
  BY <1>3, <1>4, <1>5 DEF RunInv

\* A write of the worker, successful or not
LEMMA PutRun ==
  ASSUME BaseInv, RunInv, UNCHANGED <<res, crashes>>, pc # "idle",
         NEW o \in Objects, NEW new \in Objects,
         NEW ok \in NextSteps, NEW err \in {"requeue", "markFailed"}, Put(o, new, ok, err),
         cur /\ ~Guarded(new) => new.status.phase = "",
         cur /\ NoFaults /\ ShowsRunning(new) /\ ok # "markPending" =>
           \A k \in Kinds : res[key][k] = new.hash,
         cur /\ apiErrors = 0 /\ new.hash # NoCommit =>
           \A k \in AppliedBefore(ok) : res[key][k] = new.hash,
         cur /\ ok \in DeploySteps => new.status.phase # "running"
  PROVE  RunInv'
<1>1. key \in Instances /\ CountedUp
  BY BusyKey, ErrorsCounted DEF BaseInv, CountedUp, Put
<1>2. ASSUME cur, Write(key, new)
      PROVE  /\ \A i \in Instances : pei'[i] = IF i = key THEN new ELSE pei[i]
             /\ PhaseNeedsGuard'
  <2>1. \A i \in Instances : pei'[i] = IF i = key THEN new ELSE pei[i]
    BY <1>1, <1>2 DEF Write, BaseInv, TypeOK
  <2> QED
    BY <1>2, <2>1 DEF RunInv, PhaseNeedsGuard, Guarded
<1>3. ASSUME NEW b, Goto(err, o, b)
      PROVE  /\ pc' \in {"idle", "markFailed"}
             /\ DeployProgress' /\ NotRunningYet' /\ PendingRefused'
  <2>1. pc' \in {"idle", "markFailed"}
    BY <1>3 DEF Goto
  <2> QED
    BY <2>1 DEF DeployProgress, AppliedBefore, NotRunningYet, PendingRefused, DeploySteps
<1>4. CASE cur /\ Succeeds /\ Write(key, new) /\ Goto(ok, new, TRUE)
  <2>1. /\ pc' = "idle" \/ (pc' = ok /\ obj' = new /\ key' = key /\ cur')
        /\ pc' = "idle" <=> ok \in {"done", "requeue"}
    BY <1>4 DEF Goto, NextSteps
  <2>2. RunningMeansDeployed'
    BY <1>1, <1>2, <1>4, <2>1 DEF RunInv, RunningMeansDeployed, ShowsRunning, NoFaults, CountedUp
  <2>3. DeployProgress'
    BY <1>1, <1>4, <2>1 DEF DeployProgress, AppliedBefore, CountedUp, DeploySteps
  <2>4. NotRunningYet' /\ PendingRefused'
    BY <1>1, <1>2, <1>4, <2>1 DEF NotRunningYet, PendingRefused, DeploySteps
  <2> QED
    BY <1>2, <1>4, <2>2, <2>3, <2>4 DEF RunInv
<1>5. CASE ~cur /\ Succeeds /\ Goto(err, o, FALSE) /\ UNCHANGED store
  <2>1. pei' = pei /\ PhaseNeedsGuard'
    BY <1>5 DEF RunInv, PhaseNeedsGuard, Guarded, store
  <2>2. RunningMeansDeployed'
    BY <1>1, <1>5, <2>1 DEF RunInv, RunningMeansDeployed, PendingRefused, CountedUp
  <2> QED
    BY <1>3, <1>5, <2>1, <2>2 DEF RunInv
<1>6. CASE /\ ApiError
           /\ UNCHANGED store \/ (cur /\ Write(key, new))
           /\ Goto(err, o, cur) \/ Goto(err, o, new = pei[key])
  <2>1. RunningMeansDeployed'
    BY <1>6, ErrorCounted DEF RunningMeansDeployed, BaseInv
  <2>2. PhaseNeedsGuard'
    BY <1>2, <1>6 DEF RunInv, PhaseNeedsGuard, Guarded, store
  <2> QED
    BY <1>3, <1>6, <2>1, <2>2 DEF RunInv
<1> QED
  BY <1>4, <1>5, <1>6 DEF Put

\* A status update: the stored object keeps its guard and its hash.
LEMMA StatusRun ==
  ASSUME BaseInv, GuardInv, RunInv, UNCHANGED <<res, crashes>>,
         pc \notin {"idle", "addFinalizer", "updateHash"} \cup DeleteSteps, NEW o \in Objects,
         NEW ok \in NextSteps, NEW err \in {"requeue", "markFailed"}, StatusUpdate(o, ok, err),
         apiErrors = 0 /\ obj.hash # NoCommit =>
           /\ o.status.phase = "running" => \A k \in Kinds : res[key][k] = obj.hash
           /\ \A k \in AppliedBefore(ok) : res[key][k] = obj.hash,
         ok \in DeploySteps => o.status.phase # "running"
  PROVE  RunInv'
<1> DEFINE new == [pei[key] EXCEPT !.status = o.status]
<1>1. key \in Instances /\ pei[key] \in Objects
  BY BusyKey DEF BaseInv, TypeOK
<1>2. /\ new \in Objects /\ new.status = o.status /\ new.hash = pei[key].hash
      /\ new.exists = pei[key].exists /\ new.finalizer = pei[key].finalizer
  BY <1>1 DEF Objects
<1>3. Guarded(new)
  BY <1>2 DEF GuardInv, DecisionInv, Guarded
<1>4. cur => new.hash = obj.hash
  BY <1>2 DEF BaseInv, CopyAgrees
<1>5. Put(o, new, ok, err)
  BY DEF StatusUpdate
<1> HIDE DEF new
<1> QED
  BY <1>2, <1>3, <1>4, <1>5, PutRun DEF ShowsRunning, NoFaults

\* A status update of the copy with a phase that is not running
LEMMA PhaseRun ==
  ASSUME BaseInv, GuardInv, RunInv, UNCHANGED <<res, crashes>>,
         pc \notin {"idle", "addFinalizer", "updateHash"} \cup DeleteSteps,
         NEW p \in Phases \ {"running"}, NEW ok \in {"done", "requeue", "cleanJob", "auth"},
         NEW err \in {"requeue", "markFailed"}, StatusUpdate(InPhase(p), ok, err)
  PROVE  RunInv'
<1>1. InPhase(p) \in Objects /\ InPhase(p).status.phase = p
  BY InPhaseType DEF InPhase, BaseInv, TypeOK, Objects, Statuses
<1>2. ok \in NextSteps /\ AppliedBefore(ok) = {}
  BY DEF NextSteps, Steps, BuildSteps, DeploySteps, AppliedBefore
<1> QED
  BY <1>1, <1>2, StatusRun

\* One resource is applied.
LEMMA ApplyRun ==
  ASSUME BaseInv, RunInv, pc \in DeploySteps, NEW kind \in Kinds,
         NEW ok \in DeploySteps, NEW err \in DeploySteps \cup {"markFailed"},
         Apply(kind, ok, err), AppliedBefore(ok) \subseteq AppliedBefore(pc) \cup {kind}
  PROVE  RunInv'
<1> DEFINE applied == [res EXCEPT ![key][kind] = obj.hash]
<1>1. key \in Instances /\ CountedUp
  BY BusyKey, ErrorsCounted DEF BaseInv, CountedUp, Apply, DeploySteps
<1>2. /\ \/ Succeeds /\ res' = applied /\ Goto(ok, obj, cur)
         \/ ApiError /\ res' \in {res, applied} /\ Goto(err, obj, cur)
      /\ UNCHANGED <<store, crashes>>
  BY DEF Apply
<1>3. \A i \in Instances, k \in Kinds :
        /\ res' = applied => res'[i][k] = IF i = key /\ k = kind THEN obj.hash ELSE res[i][k]
        /\ i # key => res'[i][k] = res[i][k]
  BY <1>1, <1>2 DEF BaseInv, TypeOK
<1>4. apiErrors' = 0 => res' = applied /\ pc' = ok
  BY <1>2, ErrorCounted DEF BaseInv, Goto, DeploySteps
<1>5. pc' \in DeploySteps \cup {"markFailed"} /\ obj' = obj /\ key' = key
  BY <1>2 DEF Goto, DeploySteps
<1> HIDE DEF applied
<1>6. RunningMeansDeployed'
  BY <1>1, <1>2, <1>3 DEF RunInv, NotRunningYet, RunningMeansDeployed, CountedUp, store, DeploySteps
<1>7. DeployProgress'
  <2>1. ASSUME apiErrors' = 0, obj.hash # NoCommit, NEW k \in AppliedBefore(ok)
        PROVE  res'[key][k] = obj.hash
    <3>1. k \in Kinds
      BY DEF AppliedBefore
    <3> QED
      BY <1>1, <1>3, <1>4, <2>1, <3>1 DEF RunInv, DeployProgress, CountedUp
  <2> QED
    BY <1>4, <1>5, <2>1 DEF DeployProgress, AppliedBefore
<1>8. NotRunningYet' /\ PhaseNeedsGuard' /\ PendingRefused'
  BY <1>2, <1>5 DEF RunInv, NotRunningYet, PhaseNeedsGuard, PendingRefused, Guarded, store, DeploySteps
<1> QED
  BY <1>6, <1>7, <1>8 DEF RunInv

LEMMA RunDeleting ==
  ASSUME BaseInv, GuardInv, RunInv, Deleting
  PROVE  RunInv'
<1> USE DEF DeleteSteps
<1>1. CASE RemoveFinalizer
  <2>1. /\ pc = "removeFinalizer" /\ UNCHANGED <<res, crashes>> /\ obj \in Objects
        /\ Update([obj EXCEPT !.finalizer = FALSE], "done", "requeue")
    BY <1>1 DEF RemoveFinalizer, cluster, BaseInv, TypeOK
  <2>2. PICK o \in Objects : Put(o, Absent, "done", "requeue")
    <3>1. /\ [obj EXCEPT !.finalizer = FALSE].deleting /\ ~[obj EXCEPT !.finalizer = FALSE].finalizer
          /\ [obj EXCEPT !.finalizer = FALSE] \in Objects
      BY <2>1 DEF Objects, GuardInv, DecisionInv
    <3> QED
      BY <2>1, <3>1 DEF Update
  <2>3. Absent \in Objects /\ Absent.status.phase = "" /\ AppliedBefore("done") = {}
    BY AbsentType DEF Absent, AppliedBefore, DeploySteps
  <2> QED
    BY <2>1, <2>2, <2>3, PutRun DEF ShowsRunning, NextSteps, DeploySteps
<1>2. CASE ~RemoveFinalizer
  <2>1. PICK kind \in Kinds, ok \in DeleteSteps, err \in DeleteSteps :
          pc \in DeleteSteps /\ DeleteResource(kind, ok, err)
    BY <1>2 DEF Deleting, DeleteKubernetesDeployment, DeleteKubernetesService,
       DeleteAuthProxyDeployment, DeleteAuthProxyService, DeleteAuthProxyIngress,
       DeleteKubernetesIngress, Kinds, MainKinds, AuthKinds
  <2>2. CountedUp /\ key \in Instances /\ key' = key /\ pc' \in {ok, err} /\ UNCHANGED store
    BY <2>1, DeleteResourceGuard DEF DeleteResource
  <2>3. \A i \in Instances \ {key} : res'[i] = res[i]
    BY <2>1 DEF DeleteResource, BaseInv, TypeOK
  <2>4. ~ShowsRunning(pei[key])
    BY <2>1, <2>2 DEF GuardInv, DecisionInv, Live, RunInv, PhaseNeedsGuard, ShowsRunning
  <2>5. RunningMeansDeployed'
    BY <2>1, <2>2, <2>3, <2>4 DEF RunInv, RunningMeansDeployed, ShowsRunning, CountedUp, store
  <2>6. DeployProgress' /\ NotRunningYet' /\ PhaseNeedsGuard' /\ PendingRefused'
    BY <2>2 DEF RunInv, DeployProgress, AppliedBefore, NotRunningYet, PhaseNeedsGuard,
                PendingRefused, Guarded, store, DeploySteps
  <2> QED
    BY <2>5, <2>6 DEF RunInv
<1> QED
  BY <1>1, <1>2

LEMMA RunDispatching ==
  ASSUME BaseInv, GuardInv, RunInv, Dispatching
  PROVE  RunInv'
<1> USE DEF NextSteps, Steps, OtherSteps, DeleteSteps, DeploySteps, BuildSteps
<1>1. CASE AddFinalizer
  <2> DEFINE o == [obj EXCEPT !.finalizer = TRUE]
             new == [o EXCEPT !.status = pei[key].status]
  <2>1. pc = "addFinalizer" /\ UNCHANGED <<res, crashes>>
    BY <1>1 DEF AddFinalizer, cluster
  <2>2. key \in Instances /\ obj \in Objects /\ pei[key] \in Objects
    BY <2>1, BusyKey DEF BaseInv, TypeOK
  <2>3. /\ o \in Objects /\ new \in Objects /\ o.finalizer /\ new.finalizer
        /\ new.exists = obj.exists /\ new.deleting = obj.deleting /\ new.hash = obj.hash
        /\ new.status = pei[key].status
    BY <2>2 DEF Objects
  <2>4. Put(o, new, "load", "requeue")
    BY <1>1, <2>3 DEF AddFinalizer, Update
  <2>5. cur => Guarded(new) /\ new.deleting = pei[key].deleting /\ new.hash = pei[key].hash
    BY <2>1, <2>3 DEF BaseInv, CopyAgrees, Guarded
  <2>6. NoFaults /\ ShowsRunning(pei[key]) => \A k \in Kinds : res[key][k] = pei[key].hash
    BY <2>1, <2>2 DEF RunInv, RunningMeansDeployed, ShowsRunning, NoFaults
  <2>7. AppliedBefore("load") = {}
    BY DEF AppliedBefore
  <2> HIDE DEF o, new
  <2> QED
    BY <2>1, <2>3, <2>4, <2>5, <2>6, <2>7, PutRun DEF ShowsRunning
<1>2. ASSUME NEW found \in Lookups, LoadPreviewEnvironment(found)
      PROVE  RunInv'
  <2>1. /\ pc = "load" /\ UNCHANGED <<store, res, crashes>> /\ Succeeds
        /\ \E step \in {"requeue", "markDeploying", "markBuilding", "comment", "redeploy", "latest"} :
             Goto(step, obj, cur) /\ (step = "comment" => obj.hash = NoCommit)
    BY <1>2 DEF LoadPreviewEnvironment, RebuildInstance, RedeployInstance, cluster, faults, Succeeds
  <2>2. \A step \in {"requeue", "markDeploying", "markBuilding", "redeploy", "latest"} :
          AppliedBefore(step) = {}
    BY DEF AppliedBefore
  <2> QED
    BY <2>1, <2>2, GotoRun
<1>3. CASE LatestCommitHash
  <2>1. /\ pc = "latest" /\ UNCHANGED <<store, res, crashes>> /\ (Succeeds \/ ApiError)
        /\ \E step \in {"requeue", "done", "updateHash"}, o \in {obj, [obj EXCEPT !.hash = head[key]]} :
             Goto(step, o, cur)
    BY <1>3 DEF LatestCommitHash, cluster
  <2>2. \A step \in {"requeue", "done", "updateHash"} : AppliedBefore(step) = {}
    BY DEF AppliedBefore
  <2> QED
    BY <2>1, <2>2, GotoRun
<1>4. CASE UpdateHash
  <2> DEFINE new == [obj EXCEPT !.status = pei[key].status]
  <2>1. pc = "updateHash" /\ UNCHANGED <<res, crashes>> /\ Update(obj, "markPending", "requeue")
    BY <1>4 DEF UpdateHash, cluster
  <2>2. /\ key \in Instances /\ obj \in Objects /\ pei[key] \in Objects
        /\ Guarded(pei[key])
    BY <2>1, BusyKey DEF BaseInv, TypeOK, GuardInv, DecisionInv
  <2>3. cur => obj.exists /\ obj.finalizer
    BY <2>2 DEF BaseInv, CopyAgrees, Guarded, Objects
  <2>4. /\ new \in Objects /\ new.exists = obj.exists /\ new.finalizer = obj.finalizer
    BY <2>2 DEF Objects
  <2>5. \E v \in {Absent, new} : Put(obj, v, "markPending", "requeue") /\ (obj.finalizer => v = new)
    BY <2>1 DEF Update
  <2>6. AppliedBefore("markPending") = {}
    BY DEF AppliedBefore
  <2> HIDE DEF new
  <2> QED
    BY <2>1, <2>2, <2>3, <2>4, <2>5, <2>6, AbsentType, PutRun DEF Guarded
<1>5. CASE MarkPending
  BY <1>5, PhaseRun DEF MarkPending, Phases, cluster
<1>6. CASE MarkFailed
  BY <1>6, PhaseRun DEF MarkFailed, Phases, cluster
<1> QED
  BY <1>1, <1>2, <1>3, <1>4, <1>5, <1>6 DEF Dispatching

LEMMA RunBuilding ==
  ASSUME BaseInv, GuardInv, RunInv, Building
  PROVE  RunInv'
<1> USE DEF NextSteps, Steps, OtherSteps, DeleteSteps, DeploySteps, BuildSteps
<1>1. CASE MarkBuilding
  BY <1>1, PhaseRun DEF MarkBuilding, Phases, cluster
<1>2. CASE CleanJob \/ CreateJob \/ WaitJob
  <2>1. /\ pc \in {"cleanJob", "createJob", "waitJob"} /\ UNCHANGED <<store, res, crashes>>
        /\ Succeeds \/ ApiError
        /\ \E o : \E step \in {"createJob", "waitJob", "markFailed", "markDeploying"} : Goto(step, o, cur)
    BY <1>2 DEF CleanJob, CreateJob, WaitJob, cluster
  <2>2. \A step \in {"createJob", "waitJob", "markFailed", "markDeploying"} : AppliedBefore(step) = {}
    BY DEF AppliedBefore
  <2> QED
    BY <2>1, <2>2, GotoRun
<1>3. CASE MarkDeploying
  BY <1>3, PhaseRun DEF MarkDeploying, Phases, cluster
<1> QED
  BY <1>1, <1>2, <1>3 DEF Building

LEMMA RunDeploying ==
  ASSUME BaseInv, GuardInv, RunInv, Deploying
  PROVE  RunInv'
<1> USE DEF NextSteps, Steps, OtherSteps, DeleteSteps, DeploySteps
<1> USE DEF Kinds, MainKinds, AuthKinds
<1>1. CASE MarkRedeploying
  BY <1>1, PhaseRun DEF MarkRedeploying, Phases, cluster
<1>2. CASE SetupAuthentication
  <2>1. /\ pc = "auth" /\ UNCHANGED <<store, res, crashes>> /\ (Succeeds \/ ApiError)
        /\ \E step \in {"deployment", "markFailed", "requeue"} : Goto(step, obj, cur)
    BY <1>2 DEF SetupAuthentication, cluster
  <2>2. \A step \in {"deployment", "markFailed", "requeue"} : AppliedBefore(step) = {}
    BY DEF AppliedBefore
  <2> QED
    BY <2>1, <2>2, GotoRun
<1>3. CASE DeployKubernetesDeployment
  BY <1>3, ApplyRun DEF DeployKubernetesDeployment, AppliedBefore
<1>4. CASE DeployKubernetesService
  BY <1>4, ApplyRun DEF DeployKubernetesService, AppliedBefore
<1>5. CASE DeployAuthProxyDeployment
  BY <1>5, ApplyRun DEF DeployAuthProxyDeployment, AppliedBefore
<1>6. CASE DeployAuthProxyService
  BY <1>6, ApplyRun DEF DeployAuthProxyService, AppliedBefore
<1>7. CASE DeployAuthProxyIngress
  BY <1>7, ApplyRun DEF DeployAuthProxyIngress, AppliedBefore
<1>8. CASE DeployKubernetesIngress
  BY <1>8, ApplyRun DEF DeployKubernetesIngress, AppliedBefore
<1>9. ASSUME pc \in {"setUrl", "comment", "post", "markRunning"}
      PROVE  /\ AppliedBefore(pc) = Kinds
             /\ apiErrors = 0 /\ obj.hash # NoCommit => \A k \in Kinds : res[key][k] = obj.hash
  <2>1. AppliedBefore(pc) = Kinds
    BY <1>9 DEF AppliedBefore
  <2> QED
    BY <2>1 DEF RunInv, DeployProgress
<1>10. \A p : AppliedBefore(p) \subseteq Kinds
  BY DEF AppliedBefore
<1>11. CASE SetPublicFacingUrl
  <2> DEFINE o == [obj EXCEPT !.status.url = obj.hash]
  <2>1. /\ pc = "setUrl" /\ StatusUpdate(o, "comment", "markFailed") /\ UNCHANGED <<res, crashes>>
        /\ o \in Objects
    BY <1>11 DEF SetPublicFacingUrl, cluster, BaseInv, TypeOK, Objects, Statuses
  <2> HIDE DEF o
  <2> QED
    BY <1>9, <1>10, <2>1, StatusRun
<1>12. CASE PullRequestAlreadyHasMessage \/ PostMessageToPr
  <2>1. /\ pc \in {"comment", "post"} /\ UNCHANGED <<store, res, crashes>>
        /\ Succeeds \/ ApiError
        /\ \E step \in {"markRunning", "post", "markFailed"} : Goto(step, obj, cur)
    BY <1>12 DEF PullRequestAlreadyHasMessage, PostMessageToPr, cluster
  <2> QED
    BY <1>9, <1>10, <2>1, GotoRun
<1>13. CASE MarkRunning
  <2>1. /\ pc = "markRunning" /\ StatusUpdate(InPhase("running"), "done", "requeue")
        /\ UNCHANGED <<res, crashes>> /\ InPhase("running") \in Objects
    BY <1>13, InPhaseType DEF MarkRunning, cluster, Phases, BaseInv, TypeOK
  <2> QED
    BY <1>9, <1>10, <2>1, StatusRun
<1> QED
  BY <1>1, <1>2, <1>3, <1>4, <1>5, <1>6, <1>7, <1>8, <1>11, <1>12, <1>13 DEF Deploying

\* Another client's write resets or deletes the instance, or creates it.
LEMMA OtherWritesRun ==
  ASSUME BaseInv, RunInv, NEW i \in Instances, NEW o, OtherWrites(i, o),
         ~Guarded(o) => o.status.phase = "", ~ShowsRunning(o),
         o.status.phase \in {"", pei[i].status.phase}, o.hash = NoCommit \/ o.deleting
  PROVE  RunInv'
<1>1. /\ \A l \in Instances : pei'[l] = IF l = i THEN o ELSE pei[l]
      /\ UNCHANGED <<pc, key, obj, res, faults>>
      /\ cur' = (cur /\ (key # i \/ o = pei[i]))
  BY DEF OtherWrites, Write, cluster, BaseInv, TypeOK
<1>2. pc # "idle" => key \in Instances
  BY BusyKey DEF BaseInv
<1>3. RunningMeansDeployed'
  BY <1>1 DEF RunInv, RunningMeansDeployed, ShowsRunning, faults
<1>4. DeployProgress' /\ PhaseNeedsGuard'
  BY <1>1 DEF RunInv, DeployProgress, PhaseNeedsGuard, Guarded, faults, AppliedBefore
<1>5. pc # "idle" => pei'[key] = IF key = i THEN o ELSE pei[key]
  BY <1>1, <1>2
<1>6. NotRunningYet'
  BY <1>1, <1>5 DEF RunInv, NotRunningYet, DeploySteps
<1>7. PendingRefused'
  BY <1>1, <1>5 DEF RunInv, PendingRefused
<1> QED
  BY <1>3, <1>4, <1>6, <1>7 DEF RunInv

LEMMA RunUserStep ==
  ASSUME BaseInv, GuardInv, RunInv, UserStep
  PROVE  RunInv'
<1>1. PICK i \in Instances : \/ CreateInstance(i) \/ ResetInstance(i) \/ DeleteInstance(i)
                             \/ \E c \in Commits : Push(i, c)
  BY DEF UserStep
<1>2. /\ pei[i] \in Objects
      /\ Absent.status.phase = "" /\ NewInstance.status.phase = ""
      /\ Absent.hash = NoCommit /\ NewInstance.hash = NoCommit
  BY DEF BaseInv, TypeOK, Absent, NewInstance
<1>3. CASE CreateInstance(i)
  BY <1>2, <1>3, OtherWritesRun DEF CreateInstance, ShowsRunning
<1>4. CASE ResetInstance(i)
  <2> DEFINE o == [pei[i] EXCEPT !.hash = NoCommit]
  <2>1. /\ o.exists = pei[i].exists /\ o.finalizer = pei[i].finalizer
        /\ o.status = pei[i].status /\ o.hash = NoCommit
    BY <1>2 DEF Objects
  <2>2. OtherWrites(i, o)
    BY <1>4 DEF ResetInstance
  <2> HIDE DEF o
  <2> QED
    BY <2>1, <2>2, OtherWritesRun DEF ShowsRunning, Guarded, RunInv, PhaseNeedsGuard
<1>5. CASE DeleteInstance(i)
  <2> DEFINE o == [pei[i] EXCEPT !.deleting = TRUE]
  <2>1. /\ o.exists = pei[i].exists /\ o.finalizer = pei[i].finalizer
        /\ o.status = pei[i].status /\ o.deleting
    BY <1>2 DEF Objects
  <2>2. OtherWrites(i, o) \/ OtherWrites(i, Absent)
    BY <1>5 DEF DeleteInstance
  <2> HIDE DEF o
  <2> QED
    BY <1>2, <2>1, <2>2, OtherWritesRun DEF ShowsRunning, Guarded, RunInv, PhaseNeedsGuard
<1>6. CASE \E c \in Commits : Push(i, c)
  <2>1. UNCHANGED <<pei, pc, key, obj, cur, res, apiErrors, crashes>>
    BY <1>6 DEF Push, store, worker, cluster, faults
  <2> QED
    BY <2>1 DEF RunInv, RunningMeansDeployed, DeployProgress, NotRunningYet, PhaseNeedsGuard,
                PendingRefused, AppliedBefore, Guarded
<1> QED
  BY <1>1, <1>3, <1>4, <1>5, <1>6

LEMMA RunNext == BaseInv /\ GuardInv /\ RunInv /\ [Next]_vars => RunInv'
<1> SUFFICES ASSUME BaseInv, GuardInv, RunInv, [Next]_vars
             PROVE  RunInv'
  OBVIOUS
<1>1. CASE \/ ClusterStep \/ UNCHANGED vars
  <2>1. UNCHANGED <<pei, worker, res, faults>>
    BY <1>1 DEF ClusterStep, CacheSync, Resync, JobSucceeds, JobFails, JobExpires, vars, store, cluster
  <2> QED
    BY <2>1 DEF RunInv, RunningMeansDeployed, DeployProgress, NotRunningYet, PhaseNeedsGuard,
                PendingRefused, AppliedBefore, Guarded, worker, faults
<1>2. ASSUME NEW i \in Instances, Reconcile(i)
      PROVE  RunInv'
  <2>1. /\ pc = "idle" /\ UNCHANGED <<pei, res, faults>>
        /\ pc' \in {"idle", "delDeployment", "load", "addFinalizer"}
    BY <1>2 DEF Reconcile, store, cluster, worker
  <2> QED
    BY <2>1 DEF RunInv, RunningMeansDeployed, DeployProgress, NotRunningYet, PhaseNeedsGuard,
                PendingRefused, AppliedBefore, Guarded, faults, DeploySteps
<1>3. CASE Crash
  <2>1. pc' = "idle" /\ UNCHANGED <<pei, res>> /\ crashes' # 0
    BY <1>3 DEF Crash, cluster, BaseInv, TypeOK
  <2> QED
    BY <2>1 DEF RunInv, RunningMeansDeployed, DeployProgress, NotRunningYet, PhaseNeedsGuard,
                PendingRefused, AppliedBefore, Guarded, DeploySteps
<1> QED
  BY <1>1, <1>2, <1>3, RunDeleting, RunDispatching, RunBuilding, RunDeploying, RunUserStep
     DEF Next, WorkerStep

LEMMA RunInit == Init => RunInv
<1> SUFFICES ASSUME Init
             PROVE  RunInv
  OBVIOUS
<1>1. /\ \A i \in Instances : pei[i] = Absent
      /\ Absent.status.phase = "" /\ pc = "idle"
  BY DEF Init, Absent
<1> QED
  BY <1>1 DEF RunInv, RunningMeansDeployed, DeployProgress, NotRunningYet, PhaseNeedsGuard,
              PendingRefused, AppliedBefore, DeploySteps

\* As long as nothing fails, an instance that shows a commit as running has it running
\* in all its resources, however stale the copies were that the worker deployed and
\* updated it from, and whoever reset or deleted it meanwhile.
THEOREM RunningIsDeployed == Spec => []RunningMeansDeployed
<1>1. RunInv => RunningMeansDeployed
  BY DEF RunInv
<1> QED
  BY <1>1, BaseAlways, GuardInit, GuardNext, RunInit, RunNext, PTL DEF Spec

-----------------------------------------------------------------------------
(* The refinement of InstanceLife *)

\* What the mapping of Life makes of the state
LifeOf(o) == IF ~o.exists THEN "absent" ELSE IF o.deleting THEN "terminating" ELSE "live"
LifeNow == [i \in Instances |-> LifeOf(pei[i])]
BuiltNow == [i \in Instances |-> {c \in Commits : registry[i][c] # NoCommit}]
DeployedNow == [i \in Instances |-> [k \in MainKinds |-> res[i][k]]]

NoFailure == apiErrors = 0 /\ apiErrors' = 0

\* A step of the life cycle, or one that it does not see
LifeStep == Life!Next \/ UNCHANGED <<LifeNow, BuiltNow, DeployedNow>>

\* An object is stored.  That it comes only when nothing is left of its predecessor,
\* and goes only when nothing of it is left, is ResourcesGuarded before and after.
LEMMA StoreLife ==
  ASSUME BaseInv, ResourcesGuarded, ResourcesGuarded', NoFailure, StaysDeleting,
         UNCHANGED <<registry, res>>, NEW i \in Instances, NEW o,
         pei' = [pei EXCEPT ![i] = o], pei[i].exists \/ ~o.deleting
  PROVE  LifeStep
<1>1. pei'[i] = o /\ LifeNow' = [LifeNow EXCEPT ![i] = LifeOf(o)]
  BY DEF BaseInv, TypeOK, LifeNow
<1>2. UNCHANGED <<BuiltNow, DeployedNow>> /\ LifeNow[i] = LifeOf(pei[i])
  BY DEF BuiltNow, DeployedNow, LifeNow
<1>3. pei[i].deleting /\ o.exists => o.deleting
  BY <1>1 DEF StaysDeleting
<1>4. ~pei[i].exists \/ ~o.exists => DeployedNow[i] = Life!Nothing
  BY <1>1 DEF ResourcesGuarded, NoFailure, DeployedNow, Life!Nothing, Kinds, MainKinds, AuthKinds
<1>5. CASE LifeOf(o) = LifeOf(pei[i])
  BY <1>1, <1>2, <1>5 DEF LifeStep, LifeNow
<1>6. CASE ~pei[i].exists /\ o.exists
  <2>1. Life!Create(i)
    BY <1>1, <1>2, <1>4, <1>6 DEF Life!Create, LifeOf, LifeNow, BuiltNow, DeployedNow
  <2> QED
    BY <2>1 DEF LifeStep, Life!Next
<1>7. CASE pei[i].exists /\ ~o.exists
  <2>1. Life!Remove(i)
    BY <1>1, <1>2, <1>4, <1>7 DEF Life!Remove, LifeOf, LifeNow, BuiltNow, DeployedNow
  <2> QED
    BY <2>1 DEF LifeStep, Life!Next
<1>8. CASE pei[i].exists /\ o.exists /\ ~pei[i].deleting /\ o.deleting
  <2>1. Life!Terminate(i)
    BY <1>1, <1>2, <1>8 DEF Life!Terminate, LifeOf, LifeNow, BuiltNow, DeployedNow
  <2> QED
    BY <2>1 DEF LifeStep, Life!Next
<1> QED
  BY <1>3, <1>5, <1>6, <1>7, <1>8 DEF LifeOf

\* A deployment goes on only for an instance that exists, with a commit that was built.
LEMMA ApplyLife ==
  ASSUME BaseInv, ImageInv, GuardInv, NoFailure, pc \in DeploySteps, NEW kind \in Kinds,
         NEW ok, NEW err, Apply(kind, ok, err)
  PROVE  LifeStep
<1> DEFINE c == obj.hash
<1>1. key \in Instances /\ pc # "idle" /\ Guarded(pei[key])
  BY BusyKey DEF BaseInv, DeploySteps, GuardInv, DecisionInv, DeleteSteps
<1>2. c \in Commits /\ Built(key, c)
  BY <1>1 DEF BaseInv, TypeOK, Objects, Revisions, GuardInv, DecisionInv, ImageInv, CopyImages,
              CopyClaims, HashBuilt
<1>3. UNCHANGED <<pei, registry>> /\ res' = [res EXCEPT ![key][kind] = c]
  BY ErrorCounted DEF Apply, store, BaseInv, NoFailure
<1>4. UNCHANGED <<LifeNow, BuiltNow>>
  BY <1>3 DEF LifeNow, BuiltNow
<1> HIDE DEF c
<1>5. CASE kind \in MainKinds
  <2>1. DeployedNow' = [DeployedNow EXCEPT ![key][kind] = c]
    BY <1>1, <1>3, <1>5 DEF DeployedNow, BaseInv, TypeOK, Kinds
  <2>2. LifeNow[key] # "absent" /\ c \in BuiltNow[key]
    BY <1>1, <1>2 DEF LifeNow, LifeOf, BuiltNow, Built, Guarded
  <2>3. PICK i \in Instances, d \in Commits : i = key /\ d = c
    BY <1>1, <1>2
  <2>4. Life!Deploy(i, kind, d)
    BY <1>4, <2>1, <2>2, <2>3 DEF Life!Deploy, LifeNow, LifeOf, BuiltNow, DeployedNow
  <2> QED
    BY <1>5, <2>4 DEF LifeStep, Life!Next
<1>6. CASE kind \notin MainKinds
  <2>1. \A i \in Instances, k \in MainKinds : res'[i][k] = res[i][k]
    BY <1>1, <1>3, <1>6 DEF BaseInv, TypeOK, Kinds
  <2>2. UNCHANGED DeployedNow
    BY <2>1 DEF DeployedNow
  <2> QED
    BY <1>4, <2>2 DEF LifeStep
<1> QED
  BY <1>5, <1>6

\* A resource is deleted from an instance that is being deleted.  When the worker's
\* copy is so old that the instance is gone, nothing is left to delete.
LEMMA DeleteResourceLife ==
  ASSUME BaseInv, GuardInv, NoFailure, pc \in DeleteSteps, NEW kind \in Kinds,
         NEW ok, NEW err, DeleteResource(kind, ok, err)
  PROVE  LifeStep
<1>1. key \in Instances /\ pei[key] \in Objects
  BY BusyKey DEF BaseInv, TypeOK, DeleteSteps
<1>2. UNCHANGED <<pei, registry>> /\ res' = [res EXCEPT ![key][kind] = NoCommit]
  BY ErrorCounted DEF DeleteResource, store, BaseInv, NoFailure
<1>3. UNCHANGED <<LifeNow, BuiltNow>>
  BY <1>2 DEF LifeNow, BuiltNow
<1>4. CASE kind \in MainKinds /\ Guarded(pei[key])
  <2>1. DeployedNow' = [DeployedNow EXCEPT ![key][kind] = NoCommit]
    BY <1>1, <1>2, <1>4 DEF DeployedNow, BaseInv, TypeOK, Kinds
  <2>2. LifeNow[key] = "terminating"
    BY <1>1, <1>4 DEF LifeNow, LifeOf, Guarded, Live, GuardInv, DecisionInv
  <2>3. PICK i \in Instances : i = key
    BY <1>1
  <2>4. Life!Undeploy(i, kind)
    BY <1>3, <2>1, <2>2, <2>3 DEF Life!Undeploy, LifeNow, LifeOf, BuiltNow, DeployedNow
  <2> QED
    BY <1>4, <2>4 DEF LifeStep, Life!Next
<1>5. CASE kind \in MainKinds /\ ~Guarded(pei[key])
  <2>1. res[key][kind] = NoCommit
    BY <1>1, <1>5 DEF GuardInv, ResourcesGuarded, Guarded, NoFailure, Kinds, MainKinds, AuthKinds
  <2>2. \A i \in Instances, k \in MainKinds : res'[i][k] = res[i][k]
    BY <1>1, <1>2, <2>1 DEF BaseInv, TypeOK, Kinds
  <2>3. UNCHANGED DeployedNow
    BY <2>2 DEF DeployedNow
  <2> QED
    BY <1>3, <2>3 DEF LifeStep
<1>6. CASE kind \notin MainKinds
  <2>1. \A i \in Instances, k \in MainKinds : res'[i][k] = res[i][k]
    BY <1>1, <1>2, <1>6 DEF BaseInv, TypeOK, Kinds
  <2>2. UNCHANGED DeployedNow
    BY <2>1 DEF DeployedNow
  <2> QED
    BY <1>3, <2>2 DEF LifeStep
<1> QED
  BY <1>4, <1>5, <1>6

LEMMA WorkerLife ==
  ASSUME BaseInv, ImageInv, GuardInv, ResourcesGuarded', NoFailure, WorkerStep
  PROVE  LifeStep
<1>1. CASE UNCHANGED <<store, registry, res>>
  BY <1>1 DEF LifeStep, LifeNow, BuiltNow, DeployedNow, store
<1>2. CASE pc \in DeploySteps /\ \E kind \in Kinds : \E ok, err : Apply(kind, ok, err)
  BY <1>2, ApplyLife
<1>3. CASE pc \in DeleteSteps /\ \E kind \in Kinds : \E ok, err : DeleteResource(kind, ok, err)
  BY <1>3, DeleteResourceLife
<1>4. ASSUME pc # "idle", UNCHANGED cluster, NEW o, NEW new, NEW ok, NEW err, Put(o, new, ok, err)
      PROVE  LifeStep
  <2>1. UNCHANGED store \/ (cur /\ pei' = [pei EXCEPT ![key] = new])
    BY <1>4, PutWrites DEF Write
  <2>2. CASE cur /\ pei' = [pei EXCEPT ![key] = new]
    <3>1. PICK i \in Instances : i = key
      BY <1>4, BusyKey DEF BaseInv
    <3>2. pei[i].exists /\ pei' = [pei EXCEPT ![i] = new]
      BY <2>2, <3>1 DEF BaseInv, CopyAgrees
    <3> QED
      BY <1>4, <3>2, StoreLife, WorkerStaysDeleting DEF GuardInv, cluster
  <2> QED
    BY <1>1, <1>4, <2>1, <2>2 DEF cluster
<1>5. CASE \/ AddFinalizer \/ UpdateHash \/ RemoveFinalizer \/ MarkPending \/ MarkFailed
           \/ MarkBuilding \/ MarkDeploying \/ MarkRedeploying \/ SetPublicFacingUrl \/ MarkRunning
  <2>1. /\ pc # "idle" /\ UNCHANGED cluster
        /\ \E o, ok, err : Update(o, ok, err) \/ StatusUpdate(o, ok, err)
    BY <1>5 DEF AddFinalizer, UpdateHash, RemoveFinalizer, MarkPending, MarkFailed, MarkBuilding,
                MarkDeploying, MarkRedeploying, SetPublicFacingUrl, MarkRunning
  <2>2. \E o, new, ok, err : Put(o, new, ok, err)
    BY <2>1, Zenon DEF Update, StatusUpdate
  <2> QED
    BY <1>4, <2>1, <2>2
<1>6. CASE Deleting
  BY <1>3, <1>5, <1>6
     DEF Deleting, DeleteSteps, Kinds, MainKinds, AuthKinds, DeleteKubernetesDeployment,
         DeleteKubernetesService, DeleteAuthProxyDeployment, DeleteAuthProxyService,
         DeleteAuthProxyIngress, DeleteKubernetesIngress
<1>7. CASE Dispatching
  BY <1>1, <1>5, <1>7, Zenon DEF Dispatching, LoadPreviewEnvironment, LatestCommitHash, cluster
<1>8. CASE Building
  BY <1>1, <1>5, <1>8 DEF Building, CleanJob, CreateJob, WaitJob, cluster
<1>9. CASE Deploying
  BY <1>1, <1>2, <1>5, <1>9
     DEF Deploying, DeploySteps, Kinds, MainKinds, AuthKinds, SetupAuthentication,
         DeployKubernetesDeployment, DeployKubernetesService, DeployAuthProxyDeployment,
         DeployAuthProxyService, DeployAuthProxyIngress, DeployKubernetesIngress,
         PullRequestAlreadyHasMessage, PostMessageToPr, cluster
<1> QED
  BY <1>6, <1>7, <1>8, <1>9 DEF WorkerStep

LEMMA UserLife ==
  ASSUME BaseInv, GuardInv, ResourcesGuarded', NoFailure, UserStep
  PROVE  LifeStep
<1>1. PICK i \in Instances : \/ CreateInstance(i) \/ ResetInstance(i) \/ DeleteInstance(i)
                             \/ \E c \in Commits : Push(i, c)
  BY DEF UserStep
<1>2. CASE \E c \in Commits : Push(i, c)
  BY <1>2 DEF Push, LifeStep, LifeNow, BuiltNow, DeployedNow, store, cluster
<1>3. CASE CreateInstance(i) \/ ResetInstance(i) \/ DeleteInstance(i)
  <2>1. PICK o : OtherWrites(i, o) /\ (pei[i].exists \/ ~o.deleting)
    <3>1. ~NewInstance.deleting
      BY DEF NewInstance, Absent
    <3>2. ResetInstance(i) => pei[i].exists
      BY DEF ResetInstance, BaseInv, StoreInv, FreshIsCurrent
    <3> QED
      BY <1>3, <3>1, <3>2 DEF CreateInstance, ResetInstance, DeleteInstance
  <2>2. UNCHANGED <<registry, res>> /\ pei' = [pei EXCEPT ![i] = o]
    BY <2>1 DEF OtherWrites, Write, cluster
  <2> QED
    BY <2>1, <2>2, StoreLife, UserStaysDeleting DEF GuardInv
<1> QED
  BY <1>1, <1>2, <1>3

LEMMA ClusterLife ==
  ASSUME BaseInv, ImageInv, ClusterStep
  PROVE  LifeStep
<1>1. CASE UNCHANGED <<pei, registry, res>>
  BY <1>1 DEF LifeStep, LifeNow, BuiltNow, DeployedNow
<1>2. ASSUME NEW i \in Instances, JobSucceeds(i)
      PROVE  LifeStep
  <2>1. PICK c \in Commits : c = job[i].tag
    BY <1>2 DEF JobSucceeds, ImageInv, JobImages
  <2>2. UNCHANGED <<pei, res>> /\ registry' = [registry EXCEPT ![i][c] = head[i]]
    BY <1>2, <2>1 DEF JobSucceeds, store
  <2>3. head[i] # NoCommit
    BY NoCommitAssumption DEF BaseInv, TypeOK
  <2>4. \A l \in Instances, d \in Commits :
          registry'[l][d] = IF l = i /\ d = c THEN head[i] ELSE registry[l][d]
    BY <2>2 DEF BaseInv, TypeOK
  <2>5. BuiltNow' = [BuiltNow EXCEPT ![i] = BuiltNow[i] \cup {c}]
    <3>1. \A l \in Instances : BuiltNow'[l] = IF l = i THEN BuiltNow[i] \cup {c} ELSE BuiltNow[l]
      BY <2>3, <2>4 DEF BuiltNow
    <3> QED
      BY <3>1 DEF BuiltNow
  <2>6. Life!Build(i, c)
    BY <2>2, <2>5 DEF Life!Build, LifeNow, LifeOf, BuiltNow, DeployedNow
  <2> QED
    BY <2>6 DEF LifeStep, Life!Next
<1> QED
  BY <1>1, <1>2 DEF ClusterStep, CacheSync, Resync, JobFails, JobExpires, store, cluster

LEMMA StepLife ==
  BaseInv /\ ImageInv /\ GuardInv /\ ResourcesGuarded' /\ NoFailure /\ [Next]_vars => LifeStep
<1> SUFFICES ASSUME BaseInv, ImageInv, GuardInv, ResourcesGuarded', NoFailure, [Next]_vars
             PROVE  LifeStep
  OBVIOUS
<1>1. CASE UNCHANGED <<pei, registry, res>>
  BY <1>1 DEF LifeStep, LifeNow, BuiltNow, DeployedNow
<1>2. CASE \/ \E i \in Instances : Reconcile(i)
           \/ Crash \/ UNCHANGED vars
  BY <1>1, <1>2 DEF Reconcile, Crash, vars, store, cluster
<1> QED
  BY <1>2, WorkerLife, UserLife, ClusterLife DEF Next

LEMMA InitLife == Init => Life!Init
<1> SUFFICES ASSUME Init
             PROVE  Life!Init
  OBVIOUS
<1>1. \A i \in Instances : /\ ~pei[i].exists
                           /\ \A c \in Commits : registry[i][c] = NoCommit
                           /\ \A k \in MainKinds : res[i][k] = NoCommit
  BY DEF Init, Absent, Kinds
<1> QED
  BY <1>1 DEF Life!Init, Life!Nothing

\* Unless a call fails, every step of the controller, the cluster and the users is a
\* step of the life cycle or none, with any caches, old copies, resets and restarts.
\* A failing Delete of a resource is only logged, and the instance goes before it.
THEOREM ControllerImplementsLife == Spec /\ [](apiErrors = 0) => ImplementsLife
<1>1. LifeStep => [Life!Next]_(Life!lifeVars)
  BY DEF LifeStep, LifeNow, LifeOf, BuiltNow, DeployedNow, Life!lifeVars
<1>2. BaseInv /\ ImageInv /\ GuardInv /\ GuardInv' /\ apiErrors = 0 /\ (apiErrors = 0)' /\ [Next]_vars
        => [Life!Next]_(Life!lifeVars)
  <2>1. GuardInv' => ResourcesGuarded'
    BY DEF GuardInv
  <2> QED
    BY <1>1, <2>1, StepLife DEF NoFailure
<1> QED
  BY <1>2, BaseAlways, ImagesInit, ImagesNext, GuardInit, GuardNext, InitLife, PTL
     DEF Spec, ImplementsLife, Life!Spec

=============================================================================
