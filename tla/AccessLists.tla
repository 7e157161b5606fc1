------------------------------ MODULE AccessLists ------------------------------
(***************************************************************************)
(* What the requests on PreviewEnvironments promise of owner and access    *)
(* list: an environment keeps its owner for as long as it exists, and its  *)
(* list changes by one whole request at a time.                            *)
(*                                                                         *)
(* EnvironmentApi implements this with concurrent requests that read and   *)
(* then write; AccessControl builds on it.                                 *)
(***************************************************************************)
EXTENDS Sequences, SequencesExt

CONSTANTS
  Environments,  \* names of environments: organization and repository
  Callers,       \* authenticated users who make requests
  Users,         \* users who are given access
  NoUser,        \* the owner of no environment
  PostedLists    \* access lists a new environment may come with

ASSUME PostedListsAssumption == PostedLists \subseteq Seq(Users)
ASSUME NoUserAssumption == NoUser \notin Callers \cup Users

VARIABLE access  \* owner and list of each environment

NoAccess == [exists |-> FALSE, owner |-> NoUser, users |-> <<>>]

ListInit == access = [e \in Environments |-> NoAccess]

Create(e, c, list) ==
  /\ ~access[e].exists
  /\ access' = [access EXCEPT ![e] = [exists |-> TRUE, owner |-> c, users |-> list]]

Grant(e, u) ==
  /\ access[e].exists /\ u \notin Range(access[e].users)
  /\ access' = [access EXCEPT ![e].users = Append(@, u)]

\* Only the first entry of the user goes.
Withdraw(e, u) ==
  /\ access[e].exists
  /\ access' = [access EXCEPT ![e].users = RemoveFirst(@, u)]

Delete(e) == access' = [access EXCEPT ![e] = NoAccess]

ListNext ==
  \E e \in Environments :
    \/ \E c \in Callers, list \in PostedLists : Create(e, c, list)
    \/ \E u \in Users : Grant(e, u) \/ Withdraw(e, u)
    \/ Delete(e)

ListSpec == ListInit /\ [][ListNext]_access
=============================================================================
