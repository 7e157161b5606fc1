---------------------------- MODULE EnvironmentApi ----------------------------
(***************************************************************************)
(* The HTTP requests on PreviewEnvironments: create, delete, add a user to *)
(* the access list, remove one.                                            *)
(*                                                                         *)
(* Source: internal/server/previewenvironment.go and internal/kubeclient.  *)
(*                                                                         *)
(* Requests run concurrently.  Each reads the caller's environments from   *)
(* the API server (this client has no cache), decides on what it has read, *)
(* and then makes its write, which is a step of its own.  An update        *)
(* carries the resourceVersion that was read; a deletion goes by name.     *)
(* The environment controller appears by its finalizer.  With OwnersDecide *)
(* and AccessLists this says which lists the other components can see.     *)
(***************************************************************************)
EXTENDS Naturals, Sequences, SequencesExt

CONSTANTS
  Environments,  \* names of environments: organization and repository
  Callers,       \* authenticated users who make requests
  Users,         \* users who are given access
  NoUser,        \* a request that names none
  Requests,      \* requests that may be in progress at the same time
  PostedLists,   \* access lists a new environment may come with
  MaxUids,       \* bound on environments created
  MaxApiErrors   \* bound on failing API calls

ASSUME PostedListsAssumption == PostedLists \subseteq Seq(Users)
ASSUME NoUserAssumption == NoUser \notin Callers \cup Users
ASSUME ApiBoundsAssumption == MaxUids \in Nat /\ MaxApiErrors \in Nat

VARIABLES
  env,       \* the environments as the API server holds them
  uids,      \* environments created so far; the latest has this uid
  request,   \* requests in progress, each with what it has read
  apiErrors  \* API calls that have failed so far

apiVars == <<env, uids, request, apiErrors>>

-----------------------------------------------------------------------------
NoEnvironment ==
  [exists |-> FALSE, deleting |-> FALSE, finalizer |-> FALSE, uid |-> 0,
   owner |-> NoUser, users |-> <<>>]

\* name, caller and user are what the caller sent; copy is what was read, and cur
\* says that it still has the current resourceVersion.
NoRequest ==
  [step |-> "idle", caller |-> NoUser, name |-> NoUser, user |-> NoUser,
   copy |-> NoEnvironment, cur |-> FALSE]

ApiInit ==
  /\ env = [e \in Environments |-> NoEnvironment]
  /\ uids = 0
  /\ request = [q \in Requests |-> NoRequest]
  /\ apiErrors = 0

EnvironmentObjects ==
  [exists : BOOLEAN, deleting : BOOLEAN, finalizer : BOOLEAN, uid : Nat,
   owner : Callers \cup {NoUser}, users : Seq(Users)]

RequestRecords ==
  [step : {"idle", "add", "remove", "delete"}, caller : Callers \cup {NoUser},
   name : Environments \cup {NoUser}, user : Users \cup {NoUser},
   copy : EnvironmentObjects, cur : BOOLEAN]

Succeeds == UNCHANGED apiErrors

ApiError == apiErrors < MaxApiErrors /\ apiErrors' = apiErrors + 1

\* Version o of e is stored, and the copies of it that requests hold are old.
Stored(e, o) ==
  [q \in Requests |->
     [request[q] EXCEPT !.cur = @ /\ (request[q].name # e \/ o = env[e])]]

\* Mutant: the write leaves the resourceVersion as it is
EndsWithSameVersion(q, e, o) ==
  /\ env' = [env EXCEPT ![e] = o]
  /\ request' = [request EXCEPT ![q] = NoRequest]

\* Request q ends with the write of version o of e ...
EndsWith(q, e, o) ==
  /\ env' = [env EXCEPT ![e] = o]
  /\ request' = [Stored(e, o) EXCEPT ![q] = NoRequest]

\* ... or without a write.
Ends(q) == request' = [request EXCEPT ![q] = NoRequest] /\ UNCHANGED env

\* Deletion of an object: it goes at once, unless a finalizer holds it.
Deleted(o) == IF o.finalizer THEN [o EXCEPT !.deleting = TRUE] ELSE NoEnvironment

-----------------------------------------------------------------------------
(* The requests.  One that finds nothing to do is answered, and changes nothing. *)

\* Mutant: the list is not restricted to the caller's environments
ReadsOfAnyone(q, step, c, e, u) ==
  /\ request[q] = NoRequest /\ env[e].exists
  /\ request' = [request EXCEPT ![q] =
       [step |-> step, caller |-> c, name |-> e, user |-> u, copy |-> env[e], cur |-> TRUE]]
  /\ UNCHANGED <<env, uids, apiErrors>>

\* PreviewEnvironmentById: the caller's environments are listed, and the one with
\* the uid that the request names is taken.
Reads(q, step, c, e, u) ==
  /\ request[q] = NoRequest /\ env[e].exists /\ env[e].owner = c
  /\ request' = [request EXCEPT ![q] =
       [step |-> step, caller |-> c, name |-> e, user |-> u, copy |-> env[e], cur |-> TRUE]]
  /\ UNCHANGED <<env, uids, apiErrors>>

AddUser(q, c, e, u) == u \notin Range(env[e].users) /\ Reads(q, "add", c, e, u)

RemoveUser(q, c, e, u) == Reads(q, "remove", c, e, u)

DeleteEnvironment(q, c, e) == Reads(q, "delete", c, e, NoUser)

\* The list that the request makes of its copy; only the first entry is removed.
AccessList(r) ==
  IF r.step = "add" THEN Append(r.copy.users, r.user)
                    ELSE RemoveFirst(r.copy.users, r.user)

\* Mutant: the resourceVersion is not sent along
UpdateUnconditionally(q) ==
  LET r == request[q] IN
  /\ r.step \in {"add", "remove"} /\ env[r.name].exists /\ Succeeds
  /\ EndsWith(q, r.name, [env[r.name] EXCEPT !.users = AccessList(r)])
  /\ UNCHANGED uids

\* client.Update; a failing call may still have taken effect.
UpdatePreviewEnvironment(q) ==
  LET r == request[q]
      new == [r.copy EXCEPT !.users = AccessList(r)] IN
  /\ r.step \in {"add", "remove"}
  /\ \/ r.cur /\ Succeeds /\ EndsWith(q, r.name, new)
     \/ ~r.cur /\ Succeeds /\ Ends(q)
     \/ ApiError /\ Ends(q)
     \/ r.cur /\ ApiError /\ EndsWith(q, r.name, new)
  /\ UNCHANGED uids

\* client.Delete; of what was read, it takes the name alone along.
DeletePreviewEnvironment(q) ==
  LET e == request[q].name IN
  /\ request[q].step = "delete"
  /\ \/ Succeeds /\ env[e].exists /\ EndsWith(q, e, Deleted(env[e]))
     \/ Succeeds /\ ~env[e].exists /\ Ends(q)
     \/ ApiError /\ Ends(q)
     \/ ApiError /\ env[e].exists /\ EndsWith(q, e, Deleted(env[e]))
  /\ UNCHANGED uids

\* One call creates the environment, and what follows only shapes the answer: an
\* error after it, or of it, leaves the environment there.
PostEnvironment(c, e, list) ==
  /\ ~env[e].exists /\ uids < MaxUids /\ uids' = uids + 1
  /\ env' = [env EXCEPT ![e] = [NoEnvironment EXCEPT !.exists = TRUE, !.uid = uids + 1,
                                                      !.owner = c, !.users = list]]
  /\ request' = Stored(e, env'[e])
  /\ UNCHANGED apiErrors

Request(q) ==
  \/ \E c \in Callers, e \in Environments :
       \/ DeleteEnvironment(q, c, e)
       \/ \E u \in Users : AddUser(q, c, e, u) \/ RemoveUser(q, c, e, u)
  \/ UpdatePreviewEnvironment(q) \/ DeletePreviewEnvironment(q)

-----------------------------------------------------------------------------
(* The environment controller, and the process *)

AddFinalizer(e) ==
  /\ env[e].exists /\ ~env[e].deleting /\ ~env[e].finalizer
  /\ env' = [env EXCEPT ![e].finalizer = TRUE]
  /\ request' = Stored(e, env'[e])
  /\ UNCHANGED <<uids, apiErrors>>

RemoveFinalizer(e) ==
  /\ env[e].deleting
  /\ env' = [env EXCEPT ![e] = NoEnvironment]
  /\ request' = Stored(e, env'[e])
  /\ UNCHANGED <<uids, apiErrors>>

\* A restart of the process ends the requests between their read and their write.
RequestsLost ==
  /\ request' = [q \in Requests |-> NoRequest]
  /\ UNCHANGED <<env, uids, apiErrors>>

ApiStep ==
  \/ \E q \in Requests : Request(q)
  \/ \E c \in Callers, e \in Environments, list \in PostedLists : PostEnvironment(c, e, list)
  \/ \E e \in Environments : AddFinalizer(e) \/ RemoveFinalizer(e)

ApiNext == ApiStep \/ RequestsLost

ApiSpec == ApiInit /\ [][ApiNext]_apiVars

-----------------------------------------------------------------------------
(* Properties *)

\* Type correctness; a copy that is current is what the API server holds.
ApiTypeOK ==
  /\ env \in [Environments -> EnvironmentObjects] /\ uids \in 0..MaxUids
  /\ request \in [Requests -> RequestRecords]
  /\ apiErrors \in 0..MaxApiErrors
  /\ \A q \in Requests : request[q].cur => request[q].copy = env[request[q].name]

\* Owner and list of each environment
Lists == INSTANCE AccessLists WITH
  access <- [e \in Environments |-> [exists |-> env[e].exists, owner |-> env[e].owner,
                                     users |-> env[e].users]]

\* However requests interleave, fail and are lost, lists and owners change by one
\* whole request at a time: none brings back what another has removed, loses what
\* another has added, or adds a user who is there.
ImplementsAccessLists == Lists!ListSpec

\* A list is changed only for the owner, by a request that has seen this
\* environment and not a former one of its name.
OwnersDecide ==
  [][\A e \in Environments :
       (env[e].exists /\ env'[e].exists /\ env'[e].users # env[e].users) =>
         \E q \in Requests :
           /\ request[q].name = e /\ request'[q] = NoRequest
           /\ request[q].caller = env[e].owner /\ request[q].copy.uid = env[e].uid]_apiVars
=============================================================================
