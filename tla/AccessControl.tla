----------------------------- MODULE AccessControl -----------------------------
(***************************************************************************)
(* From the access list of an environment to the Keycloak groups that the  *)
(* authentication proxies of its instances let in.                         *)
(*                                                                         *)
(* Source: previewenvironmentinstance_authentication.go in                 *)
(* internal/controller, and internal/keycloak/keycloak_groups.go.  The     *)
(* access lists are those of AccessLists.                                  *)
(*                                                                         *)
(* Each deployment of an instance sets its group up: it is the only time   *)
(* that members join, and none ever leaves.  The instance controller has   *)
(* one worker, which reads the environment from the informer's cache, once *)
(* per deployment; every call to Keycloak is an action.                    *)
(*                                                                         *)
(* A group has the name of its instance.  Keycloak (external) finds every  *)
(* group whose name contains the one searched for, but all these names     *)
(* have 49 characters: an owner's id alone has 36, and what is longer than *)
(* 45 is cut to its last 45.  Most of the owner is cut away with it, so    *)
(* the group of a former environment of that name is taken over.           *)
(***************************************************************************)
EXTENDS Naturals, AccessLists

CONSTANTS
  Instances,    \* names of instances, which are names of groups
  EnvOf,        \* the name of the environment an instance belongs to
  NoInstance,   \* the worker deploys none
  MaxApiErrors  \* bound on failing calls to Keycloak

ASSUME EnvOfAssumption == EnvOf \in [Instances -> Environments]
ASSUME NoInstanceAssumption == NoInstance \notin Instances
ASSUME ErrorsAssumption == MaxApiErrors \in Nat

VARIABLES
  cached,    \* the environments as the informer's cache holds them
  groups,    \* names of the groups that exist
  members,   \* members[g]: users in group g
  step,      \* the worker's next call to Keycloak
  inst,      \* the instance whose group it sets up
  todo,      \* the users it has still to add
  apiErrors, \* calls that have failed so far
  listed     \* (history) listed[e]: users who were owner of e or on its list

groupVars == <<groups, members>>
setupVars == <<step, inst, todo>>
vars == <<access, cached, groupVars, setupVars, apiErrors, listed>>

Accesses == [exists : BOOLEAN, owner : Callers \cup {NoUser}, users : Seq(Users)]

Listed(o) == Range(o.users) \cup IF o.exists THEN {o.owner} ELSE {}

Init ==
  /\ ListInit
  /\ cached = access
  /\ groups = {} /\ members = [i \in Instances |-> {}]
  /\ step = "idle" /\ inst = NoInstance /\ todo = <<>>
  /\ apiErrors = 0
  /\ listed = [e \in Environments |-> {}]

-----------------------------------------------------------------------------
(* setupAuthenticationForInstance *)

\* Setup goes on with the next call, or ends.
Goto(s, us) ==
  /\ step' = s /\ todo' = us
  /\ inst' = IF s = "idle" THEN NoInstance ELSE inst

Succeeds == UNCHANGED apiErrors

ApiError == apiErrors < MaxApiErrors /\ apiErrors' = apiErrors + 1

\* An error ends the setup, and the deployment with it.
Fails == ApiError /\ Goto("idle", <<>>)

\* A deployment of i, with the environment that the worker has found in the cache
SetupAuthentication(i) ==
  LET o == cached[EnvOf[i]] IN
  /\ step = "idle" /\ o.exists
  /\ step' = "find" /\ inst' = i /\ todo' = <<o.owner>> \o o.users
  /\ UNCHANGED <<access, cached, groupVars, apiErrors, listed>>

\* Mutant: a group that is there is taken to be complete
GroupExistsMeansDone ==
  /\ step = "find"
  /\ \/ Succeeds /\ IF inst \in groups THEN Goto("idle", <<>>) ELSE Goto("create", todo)
     \/ Fails
  /\ UNCHANGED <<access, cached, groupVars, listed>>

GroupByName ==
  /\ step = "find"
  /\ \/ Succeeds /\ Goto(IF inst \in groups THEN "add" ELSE "create", todo)
     \/ Fails
  /\ UNCHANGED <<access, cached, groupVars, listed>>

CreateGroup ==
  /\ step = "create"
  /\ \/ Succeeds /\ groups' = groups \cup {inst} /\ Goto("add", todo)
     \/ Fails /\ groups' \in {groups, groups \cup {inst}}
  /\ UNCHANGED <<access, cached, members, listed>>

\* Mutant: the loop returns after the first user
AfterOnlyOne == Goto("idle", Tail(todo))

AfterFirst == Goto(IF Tail(todo) = <<>> THEN "idle" ELSE "add", Tail(todo))

\* Mutant: the search is not restricted to the name
AddUserToAnyGroup ==
  /\ step = "add" /\ Succeeds /\ AfterFirst
  /\ \E g \in groups : members' = [members EXCEPT ![g] = @ \cup {Head(todo)}]
  /\ UNCHANGED <<access, cached, groups, listed>>

\* The group is searched for again, for every user; nobody removes groups.
AddUserToGroup ==
  LET joined == [members EXCEPT ![inst] = @ \cup {Head(todo)}] IN
  /\ step = "add"
  /\ \/ Succeeds /\ members' = joined /\ AfterFirst
     \/ Fails /\ members' \in {members, joined}
  /\ UNCHANGED <<access, cached, groups, listed>>

SetupStep == GroupByName \/ CreateGroup \/ AddUserToGroup

-----------------------------------------------------------------------------
RequestStep ==
  /\ ListNext
  /\ listed' = [e \in Environments |-> listed[e] \cup Listed(access'[e])]
  /\ UNCHANGED <<cached, groupVars, setupVars, apiErrors>>

\* Watch events of an environment reach the cache.
EnvironmentSync(e) ==
  /\ cached[e] # access[e]
  /\ cached' = [cached EXCEPT ![e] = access[e]]
  /\ UNCHANGED <<access, groupVars, setupVars, apiErrors, listed>>

\* The process restarts: the setup is lost.
Crash ==
  /\ cached' = access /\ Goto("idle", <<>>)
  /\ UNCHANGED <<access, groupVars, apiErrors, listed>>

Next ==
  \/ RequestStep \/ SetupStep \/ Crash
  \/ \E i \in Instances : SetupAuthentication(i)
  \/ \E e \in Environments : EnvironmentSync(e)

Spec == Init /\ [][Next]_vars

\* The worker runs and watch events arrive.  Deployments come from pushes, and
\* requests from users.
FairSpec ==
  Spec /\ WF_vars(SetupStep) /\ \A e \in Environments : WF_vars(EnvironmentSync(e))

-----------------------------------------------------------------------------
(* Properties *)

\* Type correctness of lists, cache, groups and setup.
TypeOK ==
  /\ {access, cached} \subseteq [Environments -> Accesses]
  /\ groups \subseteq Instances
  /\ members \in [Instances -> SUBSET (Callers \cup Users)]
  /\ step \in {"idle", "find", "create", "add"}
  /\ inst \in Instances \cup {NoInstance} /\ (step = "idle" <=> inst = NoInstance)
  /\ todo \in Seq(Callers \cup Users) /\ (step = "idle" <=> todo = <<>>)
  /\ apiErrors \in 0..MaxApiErrors
  /\ listed \in [Environments -> SUBSET (Callers \cup Users)]

\* Whom a group lets in was once owner of its instance's environment or on its
\* list: no late, lost or repeated step of a setup lets a stranger in, and no
\* member is there before the group.
MembersWereListed ==
  \A i \in Instances :
    /\ members[i] \subseteq listed[EnvOf[i]]
    /\ members[i] # {} => i \in groups

\* Who stays on the list, or the owner, joins the group of an instance that is
\* deployed again and again, even if calls fail, the cache lags, the list goes on
\* changing and the process has restarted.
ListedUsersJoin ==
  (<>[][~Crash]_vars) =>
    \A i \in Instances, u \in Callers \cup Users :
      ([]<><<SetupAuthentication(i)>>_vars /\ <>[](u \in Listed(access[EnvOf[i]])))
        => <>(u \in members[i])
=============================================================================
