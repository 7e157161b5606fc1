------------------------ MODULE EnvironmentReconciler ------------------------
(***************************************************************************)
(* The controller that owns PreviewEnvironment objects (PEs).  For each    *)
(* open pull request, and on request each branch, of an environment's      *)
(* repository it saves a PreviewEnvironmentInstance (PEI); when the        *)
(* environment is deleted, it deletes instances.                           *)
(*                                                                         *)
(* Source: internal/controller/previewenvironment_controller.go, and the   *)
(* HTTP requests on environments of internal/server/previewenvironment.go. *)
(*                                                                         *)
(* As in InstanceReconciler there is one worker, every API call is an      *)
(* action, reads of both kinds of objects go to informer caches that lag   *)
(* behind the API server, writes carry the resourceVersion that was read,  *)
(* and a call may fail with or without having taken effect.  The other     *)
(* controller appears by its writes to the instances.                      *)
(***************************************************************************)
EXTENDS Naturals, FiniteSets

CONSTANTS
  Environments,   \* names of PreviewEnvironments, one per repository
  Refs,           \* pull requests and branches, and the instances named after them
  PullRequests,   \* those that are pull requests; the rest are branches
  RepoOf,         \* RepoOf[r]: the environment of r's repository
  Position,       \* Position[r]: where r stands in the lists GitHub returns
  PageSize,       \* GitHub returns one page of a list (30 by default)
  AllBranches,    \* environments with BuildAllBranches
  Refused,        \* refs whose label the API server does not accept ("a/b")
  NoKey,          \* the worker is not processing any request
  MaxApiErrors,   \* bound on failing API calls
  MaxCrashes      \* bound on restarts of the manager

ASSUME RefsAssumption ==
  /\ PullRequests \subseteq Refs /\ Refused \subseteq Refs
  /\ AllBranches \subseteq Environments
  /\ RepoOf \in [Refs -> Environments]
ASSUME PositionAssumption ==
  Position \in [Refs -> Nat] /\ \A r, q \in Refs : Position[r] = Position[q] => r = q
ASSUME NoKeyAssumption  == NoKey \notin Environments
ASSUME BoundsAssumption == /\ PageSize \in Nat \ {0}
                           /\ MaxApiErrors \in Nat /\ MaxCrashes \in Nat

VARIABLES
  pe,         \* the environments as the API server holds them
  peCache,    \* the environments as the informer's cache holds them
  peFresh,    \* peFresh[e]: peCache[e] has the current resourceVersion
  uids,       \* environments created so far; the latest has this uid
  pei,        \* the instances as the API server holds them
  peiCache,   \* the instances as the informer's cache holds them
  peiFresh,   \* peiFresh[r]: peiCache[r] has the current resourceVersion
  open,       \* open pull requests and existing branches on GitHub
  queue,      \* the controller's work queue
  pc,         \* the API call the worker makes next
  key,        \* the request the worker processes
  obj,        \* the worker's in-memory copy of the environment
  cur,        \* obj still carries the current resourceVersion
  detected,   \* what the worker has detected and not yet saved
  listed,     \* the instances the worker listed in order to delete them
  toDelete,   \* those it has not deleted yet
  apiErrors,  \* API calls that have failed so far
  crashes     \* restarts so far

environments == <<pe, peCache, peFresh>>
instances    == <<pei, peiCache, peiFresh>>
lists        == <<detected, listed, toDelete>>
worker       == <<pc, key, obj, cur, lists>>
outside      == <<uids, open>>
faults       == <<apiErrors, crashes>>
vars         == <<environments, instances, outside, queue, worker, faults>>

-----------------------------------------------------------------------------
(* Objects and their initial values *)

DeleteSteps == {"listInstances", "deleteInstances", "removeFinalizer"}
DetectSteps == {"listPullRequests", "listBranches", "save"}
Steps       == DeleteSteps \cup DetectSteps \cup {"idle", "addFinalizer"}

EnvironmentObjects ==
  [exists : BOOLEAN, deleting : BOOLEAN, finalizer : BOOLEAN, uid : Nat]

NoEnvironment ==
  [exists |-> FALSE, deleting |-> FALSE, finalizer |-> FALSE, uid |-> 0]

\* env is the label "previewenvironment", the uid of the environment that
\* created the instance; hash says that the commit hash is not empty.
InstanceObjects ==
  [exists : BOOLEAN, deleting : BOOLEAN, finalizer : BOOLEAN,
   hash : BOOLEAN, env : Nat]

NoInstance ==
  [exists |-> FALSE, deleting |-> FALSE, finalizer |-> FALSE,
   hash |-> FALSE, env |-> 0]

Idle ==
  /\ pc = "idle" /\ key = NoKey /\ obj = NoEnvironment /\ cur = FALSE
  /\ detected = {} /\ listed = {} /\ toDelete = {}

Init ==
  /\ pe = [e \in Environments |-> NoEnvironment]
  /\ peCache = pe /\ peFresh = [e \in Environments |-> TRUE]
  /\ uids = 0
  /\ pei = [r \in Refs |-> NoInstance]
  /\ peiCache = pei /\ peiFresh = [r \in Refs |-> TRUE]
  /\ open \in SUBSET Refs
  /\ queue = {} /\ Idle
  /\ apiErrors = 0 /\ crashes = 0

-----------------------------------------------------------------------------
(* What the API server and the work queue do for the controller *)

\* An identical version changes nothing, not even the resourceVersion.
StoreEnvironment(e, o) ==
  /\ pe' = [pe EXCEPT ![e] = o]
  /\ peFresh' = [peFresh EXCEPT ![e] = peFresh[e] /\ o = pe[e]]
  /\ UNCHANGED peCache

StoreInstance(r, o) ==
  /\ pei' = [pei EXCEPT ![r] = o]
  /\ peiFresh' = [peiFresh EXCEPT ![r] = peiFresh[r] /\ o = pei[r]]
  /\ UNCHANGED peiCache

\* Deletion of an instance: it goes at once, unless a finalizer holds it.
Deleted(r) ==
  IF pei[r].finalizer THEN [pei[r] EXCEPT !.deleting = TRUE] ELSE NoInstance

Succeeds == UNCHANGED apiErrors

ApiError == apiErrors < MaxApiErrors /\ apiErrors' = apiErrors + 1

\* Reconcile goes on with its next API call ...
Goto(step, o) == pc' = step /\ obj' = o /\ UNCHANGED <<key, cur, queue>>

\* ... or returns.  An error and a RequeueAfter put the request back.
Drop ==
  /\ pc' = "idle" /\ key' = NoKey /\ obj' = NoEnvironment /\ cur' = FALSE
  /\ detected' = {} /\ listed' = {} /\ toDelete' = {}

Return  == Drop /\ UNCHANGED queue
Requeue == Drop /\ queue' = queue \cup {key}

\* An Update of the worker's copy that does not return success: the copy is
\* out of date, or the call fails, in which case the new version may be stored.
UpdateFails(new) ==
  /\ \/ ~cur /\ Succeeds /\ UNCHANGED environments
     \/ ApiError /\ UNCHANGED environments
     \/ cur /\ ApiError /\ StoreEnvironment(key, new)
  /\ Requeue

-----------------------------------------------------------------------------
(* Reconcile: load, finalizer *)

\* Mutant: the finalizer is never added
ReconcileWithoutFinalizer(e) ==
  LET o == peCache[e] IN
  /\ pc = "idle" /\ e \in queue
  /\ queue' = queue \ {e}
  /\ IF o.exists /\ (o.deleting => o.finalizer)
       THEN /\ key' = e /\ obj' = o /\ cur' = peFresh[e]
            /\ pc' = IF o.deleting THEN "listInstances" ELSE "listPullRequests"
            /\ UNCHANGED lists
       ELSE UNCHANGED worker
  /\ UNCHANGED <<environments, instances, outside, faults>>

\* Mutant: an environment that has its finalizer needs no more work
ReconcileOnce(e) ==
  LET o == peCache[e] IN
  /\ pc = "idle" /\ e \in queue
  /\ queue' = queue \ {e}
  /\ IF o.exists /\ (o.deleting <=> o.finalizer)
       THEN /\ key' = e /\ obj' = o /\ cur' = peFresh[e]
            /\ pc' = IF o.deleting THEN "listInstances" ELSE "addFinalizer"
            /\ UNCHANGED lists
       ELSE UNCHANGED worker
  /\ UNCHANGED <<environments, instances, outside, faults>>

\* Mutant: a deleted environment is treated like any other
ReconcileIgnoringDeletion(e) ==
  LET o == peCache[e] IN
  /\ pc = "idle" /\ e \in queue
  /\ queue' = queue \ {e}
  /\ IF o.exists
       THEN /\ key' = e /\ obj' = o /\ cur' = peFresh[e]
            /\ pc' = IF o.finalizer THEN "listPullRequests" ELSE "addFinalizer"
            /\ UNCHANGED lists
       ELSE UNCHANGED worker
  /\ UNCHANGED <<environments, instances, outside, faults>>

\* Reconcile up to its first API call: the object is read from the cache.
Reconcile(e) ==
  LET o == peCache[e] IN
  /\ pc = "idle" /\ e \in queue
  /\ queue' = queue \ {e}
  /\ IF o.exists /\ (o.deleting => o.finalizer)
       THEN /\ key' = e /\ obj' = o /\ cur' = peFresh[e]
            /\ pc' = IF o.deleting THEN "listInstances"
                     ELSE IF o.finalizer THEN "listPullRequests" ELSE "addFinalizer"
            /\ UNCHANGED lists
       ELSE UNCHANGED worker
  /\ UNCHANGED <<environments, instances, outside, faults>>

\* Mutant: a conflict while the finalizer is added is not an error
AddFinalizerAnyway ==
  LET new == [obj EXCEPT !.finalizer = TRUE] IN
  /\ pc = "addFinalizer"
  /\ \/ /\ cur /\ Succeeds /\ StoreEnvironment(key, new)
        /\ Goto("listPullRequests", new) /\ UNCHANGED lists
     \/ /\ ~cur /\ Succeeds /\ UNCHANGED environments
        /\ Goto("listPullRequests", new) /\ UNCHANGED lists
     \/ UpdateFails(new)
  /\ UNCHANGED <<instances, outside, crashes>>

AddFinalizer ==
  LET new == [obj EXCEPT !.finalizer = TRUE] IN
  /\ pc = "addFinalizer"
  /\ \/ /\ cur /\ Succeeds /\ StoreEnvironment(key, new)
        /\ Goto("listPullRequests", new) /\ UNCHANGED lists
     \/ UpdateFails(new)
  /\ UNCHANGED <<instances, outside, crashes>>

-----------------------------------------------------------------------------
(* Reconcile: detectInstancesThatShouldBeCreated *)

Page(S) == {r \in S : Cardinality({q \in S : Position[q] < Position[r]}) < PageSize}

\* PullRequestsOfRepository asks for one page; BuildAllPullRequests is not read.
OpenPullRequests(e) == Page({r \in open \cap PullRequests : RepoOf[r] = e})

\* BranchesOfRepository asks for one page, and only with BuildAllBranches: the
\* filter by BranchWildcard comes behind a return that is always taken.
OpenBranches(e) ==
  IF e \in AllBranches
    THEN Page({r \in open \ PullRequests : RepoOf[r] = e})
    ELSE {}

\* A detection step has found refs and was the last one, or goes on.
Detect(refs, next) ==
  /\ Succeeds
  /\ IF next = "save" /\ refs = {}
       THEN Return
       ELSE Goto(next, obj) /\ detected' = refs /\ UNCHANGED <<listed, toDelete>>

DetectionFails == ApiError /\ Requeue

DetectPullRequests ==
  /\ pc = "listPullRequests"
  /\ \/ Detect(OpenPullRequests(key),
               IF key \in AllBranches THEN "listBranches" ELSE "save")
     \/ DetectionFails
  /\ UNCHANGED <<environments, instances, outside, crashes>>

DetectBranches ==
  /\ pc = "listBranches"
  /\ Detect(detected \cup OpenBranches(key), "save") \/ DetectionFails
  /\ UNCHANGED <<environments, instances, outside, crashes>>

-----------------------------------------------------------------------------
(* Reconcile: savePreviewEnvironmentInstances *)

\* Pull requests come before branches, each in the order of GitHub's list.
Before(q, r) ==
  \/ q \in PullRequests /\ r \notin PullRequests
  \/ (q \in PullRequests <=> r \in PullRequests) /\ Position[q] < Position[r]

SavedNext(r) == r \in detected /\ \A q \in detected : ~Before(q, r)

\* Mutant: the loop does not end with the last instance
SavedEndlessly(r) ==
  Goto("save", obj) /\ detected' = detected \ {r} /\ UNCHANGED <<listed, toDelete>>

Saved(r) ==
  IF detected = {r}
    THEN Return
    ELSE Goto("save", obj) /\ detected' = detected \ {r} /\ UNCHANGED <<listed, toDelete>>

\* The instance r is stored as new if the API server accepts it; otherwise, or
\* if the call fails, the rest of the list is not saved either.
SaveInstance(r, accepted, new) ==
  /\ pc = "save" /\ SavedNext(r)
  /\ \/ accepted /\ Succeeds /\ StoreInstance(r, new) /\ Saved(r)
     \/ ~accepted /\ Succeeds /\ UNCHANGED instances /\ Requeue
     \/ ApiError /\ UNCHANGED instances /\ Requeue
     \/ accepted /\ ApiError /\ StoreInstance(r, new) /\ Requeue
  /\ UNCHANGED <<environments, outside, crashes>>

\* Mutant: the resourceVersion is not sent along
UpdateInstanceAnyway(r) ==
  /\ peiCache[r].exists
  /\ SaveInstance(r, pei[r].exists, [pei[r] EXCEPT !.hash = FALSE])

\* An instance found in the cache keeps its metadata, its label included, and
\* gets a new spec, with an empty commit hash.
UpdateInstance(r) ==
  /\ peiCache[r].exists
  /\ SaveInstance(r, peiFresh[r], [pei[r] EXCEPT !.hash = FALSE])

CreateInstance(r) ==
  /\ ~peiCache[r].exists
  /\ SaveInstance(r, ~pei[r].exists /\ r \notin Refused,
                  [NoInstance EXCEPT !.exists = TRUE, !.env = obj.uid])

-----------------------------------------------------------------------------
(* Reconcile: deletePreviewEnvironmentInstancesForPreviewEnvironment *)

\* The list comes from the cache and holds the whole namespace.
ListInstances ==
  LET found == {r \in Refs : peiCache[r].exists} IN
  /\ pc = "listInstances"
  /\ listed' = found /\ toDelete' = found
  /\ Goto(IF found = {} THEN "removeFinalizer" ELSE "deleteInstances", obj)
  /\ UNCHANGED <<environments, instances, outside, detected, faults>>

\* Mutant: the loop is left behind the first instance
DeletedOne(r) ==
  /\ toDelete' = {}
  /\ Goto("removeFinalizer", obj) /\ UNCHANGED <<detected, listed>>

DeletedNext(r) ==
  /\ toDelete' = toDelete \ {r}
  /\ Goto(IF toDelete = {r} THEN "removeFinalizer" ELSE "deleteInstances", obj)
  /\ UNCHANGED <<detected, listed>>

\* Mutant: an error is logged, and the next instance is deleted
DeleteInstanceAnyway(r) ==
  /\ pc = "deleteInstances" /\ r \in toDelete
  /\ \/ Succeeds /\ StoreInstance(r, Deleted(r))
     \/ ApiError /\ UNCHANGED instances
  /\ DeletedNext(r)
  /\ UNCHANGED <<environments, outside, crashes>>

\* The items of a cached list come in no particular order.
DeleteInstance(r) ==
  /\ pc = "deleteInstances" /\ r \in toDelete
  /\ \/ pei[r].exists /\ Succeeds /\ StoreInstance(r, Deleted(r)) /\ DeletedNext(r)
     \/ ~pei[r].exists /\ Succeeds /\ UNCHANGED instances /\ Requeue
     \/ ApiError /\ UNCHANGED instances /\ Requeue
     \/ pei[r].exists /\ ApiError /\ StoreInstance(r, Deleted(r)) /\ Requeue
  /\ UNCHANGED <<environments, outside, crashes>>

\* With its only finalizer the deleted environment goes.
RemoveFinalizer ==
  /\ pc = "removeFinalizer"
  /\ \/ cur /\ Succeeds /\ StoreEnvironment(key, NoEnvironment) /\ Return
     \/ UpdateFails(NoEnvironment)
  /\ UNCHANGED <<instances, outside, crashes>>

-----------------------------------------------------------------------------
(* Users: HTTP requests on environments, and GitHub *)

\* Someone other than the worker writes: the worker's copy may become stale.
OthersStore(e, o) ==
  /\ StoreEnvironment(e, o)
  /\ cur' = (cur /\ (key # e \/ o = pe[e]))
  /\ UNCHANGED <<instances, open, queue, pc, key, obj, lists, faults>>

PostEnvironment(e) ==
  /\ ~pe[e].exists
  /\ uids' = uids + 1
  /\ OthersStore(e, [NoEnvironment EXCEPT !.exists = TRUE, !.uid = uids + 1])

DeleteEnvironment(e) ==
  /\ pe[e].exists
  /\ OthersStore(e, IF pe[e].finalizer THEN [pe[e] EXCEPT !.deleting = TRUE]
                                       ELSE NoEnvironment)
  /\ UNCHANGED uids

\* A user is added to or removed from the access list: only the version changes.
PatchEnvironment(e) ==
  /\ pe[e].exists
  /\ peFresh' = [peFresh EXCEPT ![e] = FALSE]
  /\ cur' = (cur /\ key # e)
  /\ UNCHANGED <<pe, peCache, instances, outside, queue, pc, key, obj, lists, faults>>

\* A pull request is opened or closed, a branch is created or deleted.
OpenOrClose(r) ==
  /\ open' = IF r \in open THEN open \ {r} ELSE open \cup {r}
  /\ UNCHANGED <<environments, instances, uids, queue, worker, faults>>

-----------------------------------------------------------------------------
(* The other controller's writes to an instance, from InstanceReconciler *)

InstanceWrite(r, o) ==
  /\ StoreInstance(r, o)
  /\ UNCHANGED <<environments, outside, queue, worker, faults>>

InstanceFinalizer(r) ==
  /\ pei[r].exists /\ ~pei[r].deleting /\ ~pei[r].finalizer
  /\ InstanceWrite(r, [pei[r] EXCEPT !.finalizer = TRUE])

\* It needs the number of a pull request, and the environment the label names,
\* which it has looked up in the cache some calls before.
InstanceHash(r) ==
  /\ r \in PullRequests /\ pei[r].exists /\ ~pei[r].deleting /\ pei[r].finalizer /\ ~pei[r].hash
  /\ InstanceWrite(r, [pei[r] EXCEPT !.hash = TRUE])

\* Its status updates, and a new commit hash in place of another, only change the
\* version of the object.
InstanceStatus(r) ==
  /\ pei[r].exists
  /\ peiFresh' = [peiFresh EXCEPT ![r] = FALSE]
  /\ UNCHANGED <<pei, peiCache, environments, outside, queue, worker, faults>>

InstanceRemoved(r) ==
  /\ pei[r].deleting
  /\ InstanceWrite(r, NoInstance)

-----------------------------------------------------------------------------
(* The informers, and restarts *)

EnvironmentSync(e) ==
  /\ ~peFresh[e]
  /\ peCache' = [peCache EXCEPT ![e] = pe[e]]
  /\ peFresh' = [peFresh EXCEPT ![e] = TRUE]
  /\ queue' = queue \cup {e}
  /\ UNCHANGED <<pe, instances, outside, worker, faults>>

\* The controller does not watch instances: it learns nothing of the event.
InstanceSync(r) ==
  /\ ~peiFresh[r]
  /\ peiCache' = [peiCache EXCEPT ![r] = pei[r]]
  /\ peiFresh' = [peiFresh EXCEPT ![r] = TRUE]
  /\ UNCHANGED <<environments, pei, outside, queue, worker, faults>>

\* The informer's periodic resync enqueues every cached environment.
Resync(e) ==
  /\ peCache[e].exists
  /\ queue' = queue \cup {e}
  /\ UNCHANGED <<environments, instances, outside, worker, faults>>

Crash ==
  /\ crashes < MaxCrashes /\ crashes' = crashes + 1
  /\ Drop
  /\ peCache' = pe /\ peFresh' = [e \in Environments |-> TRUE]
  /\ peiCache' = pei /\ peiFresh' = [r \in Refs |-> TRUE]
  /\ queue' = {e \in Environments : pe[e].exists}
  /\ UNCHANGED <<pe, pei, outside, apiErrors>>

-----------------------------------------------------------------------------
Deleting == ListInstances \/ (\E r \in Refs : DeleteInstance(r)) \/ RemoveFinalizer

Saving ==
  \/ AddFinalizer \/ DetectPullRequests \/ DetectBranches
  \/ \E r \in Refs : UpdateInstance(r) \/ CreateInstance(r)

WorkerStep == Saving \/ Deleting

UserStep ==
  \/ \E e \in Environments : \/ PostEnvironment(e) \/ DeleteEnvironment(e)
                             \/ PatchEnvironment(e)
  \/ \E r \in Refs : OpenOrClose(r)

InstanceStep ==
  \E r \in Refs : \/ InstanceFinalizer(r) \/ InstanceHash(r) \/ InstanceRemoved(r)
                 \/ InstanceStatus(r)

\* What the other controller does for r sooner or later.  It gets to the hash only
\* if it finds the environment of r.
InstanceProgress(r) ==
  \/ InstanceFinalizer(r)
  \/ /\ \E e \in Environments : peCache[e].exists /\ peCache[e].uid = pei[r].env
     /\ InstanceHash(r)
  \/ InstanceRemoved(r)

SyncStep ==
  \/ \E e \in Environments : EnvironmentSync(e) \/ Resync(e)
  \/ \E r \in Refs : InstanceSync(r)

Next ==
  \/ \E e \in Environments : Reconcile(e)
  \/ WorkerStep \/ UserStep \/ InstanceStep \/ SyncStep \/ Crash

Spec == Init /\ [][Next]_vars

\* The worker's goroutine runs, watch events arrive, the resync timer fires, and
\* a queued request is not overtaken for ever.  The other controller adds its
\* finalizer, starts what it can and ends every deletion (DeletionCompletes of
\* InstanceReconciler).
Fairness ==
  /\ WF_vars(WorkerStep)
  /\ \A e \in Environments : /\ SF_vars(Reconcile(e))
                             /\ WF_vars(EnvironmentSync(e))
                             /\ WF_vars(Resync(e))
  /\ \A r \in Refs : /\ WF_vars(InstanceSync(r))
                     /\ WF_vars(InstanceProgress(r))

FairSpec == Spec /\ Fairness

-----------------------------------------------------------------------------
(* Properties *)

\* Type correctness of objects, caches and worker; a worker that saves has
\* something to save, and one that deletes has something to delete.
TypeOK ==
  /\ pe \in [Environments -> EnvironmentObjects]
  /\ peCache \in [Environments -> EnvironmentObjects]
  /\ peFresh \in [Environments -> BOOLEAN] /\ uids \in Nat
  /\ pei \in [Refs -> InstanceObjects] /\ peiCache \in [Refs -> InstanceObjects]
  /\ peiFresh \in [Refs -> BOOLEAN]
  /\ open \subseteq Refs /\ queue \subseteq Environments
  /\ pc \in Steps /\ key \in Environments \cup {NoKey}
  /\ obj \in EnvironmentObjects /\ cur \in BOOLEAN
  /\ detected \subseteq Refs /\ listed \subseteq Refs /\ toDelete \subseteq listed
  /\ apiErrors \in 0..MaxApiErrors /\ crashes \in 0..MaxCrashes
  /\ pc = "idle" <=> key = NoKey
  /\ pc = "save" => detected # {}
  /\ pc = "deleteInstances" <=> toDelete # {}

\* An instance is only created for an environment that exists under the uid the
\* instance is labelled with and carries its finalizer, so that the environment's
\* deletion will come by here: whatever stale version the worker started from,
\* and whoever deleted and created the environment again since.
CreatedUnderFinalizer ==
  [][\A r \in Refs :
       ~pei[r].exists /\ pei'[r].exists =>
         \E e \in Environments : /\ pe[e].exists /\ pe[e].finalizer
                                 /\ pe[e].uid = pei'[r].env]_vars

\* An environment that has its finalizer goes only after every instance in the
\* worker's list has been deleted: errors in the middle of the list, restarts and
\* repetitions skip none.
ListedAreDeletedFirst ==
  [][\A e \in Environments :
       pe[e].exists /\ pe[e].finalizer /\ ~pe'[e].exists =>
         \A r \in listed : ~pei[r].exists \/ pei[r].deleting]_vars

Live(e) == pe[e].exists /\ ~pe[e].deleting

Detected(e) == OpenPullRequests(e) \cup OpenBranches(e)

\* No instance that the API server refuses keeps r from being saved.
Wanted(r) ==
  /\ Live(RepoOf[r])
  /\ r \in Detected(RepoOf[r])
  /\ \A q \in Detected(RepoOf[r]) \cap Refused : Before(r, q)

Has(r) == pei[r].exists /\ ~pei[r].deleting

UsersRest == <>[][~UserStep]_vars

\* When users leave the environments alone, every ref that GitHub lists, and that
\* no refused one precedes, has an instance in the end, in spite of deletions of
\* this and other environments, failing calls and restarts before.
InstancesAppear == UsersRest => \A r \in Refs : <>[](Wanted(r) => Has(r))

\* A deletion that nobody interferes with completes, although the first instance
\* that is already gone aborts it every time.
EnvironmentDeletionCompletes ==
  UsersRest => \A e \in Environments : pe[e].deleting ~> ~pe[e].exists
-----------------------------------------------------------------------------
(* What the repository says of the program and the code does not do *)

\* The deletion of an environment deletes the instances "for" that environment.
\* The list is that of the namespace.
OnlyOwnInstancesDeleted ==
  [][\A r \in Refs :
       Has(r) /\ (pei'[r].deleting \/ ~pei'[r].exists) => pei[r].env = obj.uid]_vars
=============================================================================
