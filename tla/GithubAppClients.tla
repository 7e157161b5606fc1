--------------------------- MODULE GithubAppClients ---------------------------
(***************************************************************************)
(* The GitHub app's clients and tokens, one of each per installation, and  *)
(* the requests that look them up, replace them and list a user's          *)
(* repositories with them; the requests that link an installation to the   *)
(* Keycloak user it belongs to.                                            *)
(*                                                                         *)
(* Source: internal/git/github_app.go, internal/keycloak/keycloak.go and   *)
(* internal/server/github.go.                                              *)
(*                                                                         *)
(* Every request has a goroutine.  The two maps are used without a lock,   *)
(* so that each access is an action; what the race may do beyond that is   *)
(* to end the process, which then starts with empty maps.                  *)
(***************************************************************************)
EXTENDS Naturals, FiniteSets

CONSTANTS
  Users,          \* users with a GitHub account linked to their Keycloak user
  Installations,  \* installations of the app
  AccountOf,      \* the account an installation belongs to
  NoUser,         \* the account of an organization, which is nobody's
  Requests,       \* requests that may be in progress at the same time
  Serials,        \* numbers that tell tokens of an installation apart
  None,           \* no token, client, or installation
  MaxApiErrors    \* bound on failing calls to GitHub and Keycloak

ASSUME AccountOfAssumption == AccountOf \in [Installations -> Users \cup {NoUser}]
ASSUME NoUserAssumption == NoUser \notin Users
ASSUME SerialsAssumption == Serials \subseteq Nat
ASSUME NoneAssumption == None \notin Installations \cup (Installations \X Serials)
ASSUME ErrorsAssumption == MaxApiErrors \in Nat

VARIABLES
  clients,     \* userAppClients: the token the client of an installation carries
  tokens,      \* userAppTokens
  expired,     \* tokens whose time is over
  attribute,   \* attribute[u]: githubInstallationId of the Keycloak user u
  installed,   \* installations that have not been removed
  request,     \* requests in progress, each with what it has read
  overlapped,  \* (history) installations that two requests looked up at once
  apiErrors    \* calls that have failed so far

caches == <<clients, tokens>>
vars == <<caches, expired, attribute, installed, request, overlapped, apiErrors>>

Tokens == Installations \X Serials

\* A request that has read neither client nor token
At(pc, u, i) == [pc |-> pc, user |-> u, inst |-> i, client |-> None, token |-> None]

NoRequest == At("idle", NoUser, None)

Init ==
  /\ clients = [i \in Installations |-> None] /\ tokens = clients
  /\ expired = {}
  /\ attribute = [u \in Users |-> None]
  /\ installed = Installations
  /\ request = [r \in Requests |-> NoRequest]
  /\ overlapped = {} /\ apiErrors = 0

Succeeds == UNCHANGED apiErrors

ApiError == apiErrors < MaxApiErrors /\ apiErrors' = apiErrors + 1

\* Request r goes on at step pc with the client c and the token t that it has read.
Goto(r, pc, c, t) ==
  request' = [request EXCEPT ![r] =
    [pc |-> pc, user |-> @.user, inst |-> @.inst, client |-> c, token |-> t]]

\* Mutant: what an ended request has read is left to the next one
EndsUncleanly(r) == request' = [request EXCEPT ![r].pc = "idle"]

\* The request is answered, with repositories, an error or, after a panic, a 500.
Ends(r) == request' = [request EXCEPT ![r] = NoRequest]

CacheSteps == {"client", "token", "deleteClient", "deleteToken", "create", "storeClient",
               "storeToken"}

\* Request r is between the lookup and the return of apiClientForInstallation.
InCache(r, i) == request[r].inst = i /\ request[r].pc \in CacheSteps

-----------------------------------------------------------------------------
(* GetGithubRepositories, ListReposOfUser, apiClientForInstallation *)

\* GithubInstallationIdForUser: a user without the attribute is answered at once.
GetGithubRepositories(r, u) ==
  LET i == attribute[u] IN
  /\ request[r] = NoRequest /\ i # None
  /\ request' = [request EXCEPT ![r] = At("client", u, i)]
  /\ overlapped' = IF \E q \in Requests : InCache(q, i) THEN overlapped \cup {i} ELSE overlapped
  /\ UNCHANGED <<caches, expired, attribute, installed, apiErrors>>

LookupClient(r) ==
  /\ request[r].pc = "client"
  /\ Goto(r, "token", clients[request[r].inst], None)
  /\ UNCHANGED <<caches, expired, attribute, installed, overlapped, apiErrors>>

\* A client whose token is valid is replaced, and one whose token has expired is
\* returned.  A client without a token is a nil dereference: the request panics.
LookupToken(r) ==
  LET c == request[r].client
      t == tokens[request[r].inst] IN
  /\ request[r].pc = "token"
  /\ \/ c = None /\ Goto(r, "create", None, None)
     \/ c # None /\ t = None /\ Ends(r)
     \/ c # None /\ t # None /\ t \notin expired /\ Goto(r, "deleteClient", None, None)
     \/ c # None /\ t \in expired /\ Goto(r, "list", c, None)
  /\ UNCHANGED <<caches, expired, attribute, installed, overlapped, apiErrors>>

\* Mutant: the client is looked up again without having been deleted
KeepClient(r) ==
  /\ request[r].pc = "deleteClient"
  /\ Goto(r, "client", None, None)
  /\ UNCHANGED <<caches, expired, attribute, installed, overlapped, apiErrors>>

DeleteClient(r) ==
  /\ request[r].pc = "deleteClient"
  /\ clients' = [clients EXCEPT ![request[r].inst] = None]
  /\ Goto(r, "deleteToken", None, None)
  /\ UNCHANGED <<tokens, expired, attribute, installed, overlapped, apiErrors>>

\* Mutant: the token is left in its map
KeepToken(r) ==
  /\ request[r].pc = "deleteToken"
  /\ Goto(r, "client", None, None)
  /\ UNCHANGED <<caches, expired, attribute, installed, overlapped, apiErrors>>

\* ... and the function calls itself.
DeleteToken(r) ==
  /\ request[r].pc = "deleteToken"
  /\ tokens' = [tokens EXCEPT ![request[r].inst] = None]
  /\ Goto(r, "client", None, None)
  /\ UNCHANGED <<clients, expired, attribute, installed, overlapped, apiErrors>>

InUse(t) ==
  \/ \E i \in Installations : t \in {clients[i], tokens[i]}
  \/ \E r \in Requests : t \in {request[r].client, request[r].token}

\* GitHub issues a new token, of the lowest serial that no one knows any more.
Issued(t) == ~InUse(t) /\ \A n \in Serials : n < t[2] => InUse(<<t[1], n>>)

\* CreateInstallationToken fails if the installation has been removed.
CreateInstallationToken(r) ==
  LET i == request[r].inst IN
  /\ request[r].pc = "create"
  /\ \/ /\ i \in installed /\ Succeeds
        /\ \E n \in Serials : /\ Issued(<<i, n>>)
                              /\ Goto(r, "storeClient", None, <<i, n>>)
                              /\ expired' = {t \in expired : InUse(t)}
     \/ i \notin installed /\ Succeeds /\ Ends(r) /\ UNCHANGED expired
     \/ ApiError /\ Ends(r) /\ UNCHANGED expired
  /\ UNCHANGED <<caches, attribute, installed, overlapped>>

StoreClient(r) ==
  /\ request[r].pc = "storeClient"
  /\ clients' = [clients EXCEPT ![request[r].inst] = request[r].token]
  /\ Goto(r, "storeToken", request[r].token, request[r].token)
  /\ UNCHANGED <<tokens, expired, attribute, installed, overlapped, apiErrors>>

StoreToken(r) ==
  /\ request[r].pc = "storeToken"
  /\ tokens' = [tokens EXCEPT ![request[r].inst] = request[r].token]
  /\ Goto(r, "list", request[r].client, None)
  /\ UNCHANGED <<clients, expired, attribute, installed, overlapped, apiErrors>>

\* ListRepos, with whatever answer
ListRepos(r) ==
  /\ request[r].pc = "list" /\ Ends(r)
  /\ UNCHANGED <<caches, expired, attribute, installed, overlapped, apiErrors>>

-----------------------------------------------------------------------------
(* ConfigureInstallationById, ConfigureInstallation *)

\* GetInstallation: a removed installation is answered at once.
ConfigureInstallation(r, i) ==
  /\ request[r] = NoRequest /\ i \in installed
  /\ request' = [request EXCEPT ![r] = At("find", NoUser, i)]
  /\ UNCHANGED <<caches, expired, attribute, installed, overlapped, apiErrors>>

\* Mutant: GetUsers answers with all users
AnyUser(r) ==
  /\ request[r].pc = "find" /\ Succeeds
  /\ \E u \in Users : request' = [request EXCEPT ![r] = At("update", u, @.inst)]
  /\ UNCHANGED <<caches, expired, attribute, installed, overlapped>>

\* The user whose account at the identity provider GitHub it is; there may be none.
UserByGithubId(r) ==
  LET u == AccountOf[request[r].inst] IN
  /\ request[r].pc = "find"
  /\ \/ /\ u \in Users /\ Succeeds
        /\ request' = [request EXCEPT ![r] = At("update", u, @.inst)]
     \/ u \notin Users /\ Succeeds /\ Ends(r)
     \/ ApiError /\ Ends(r)
  /\ UNCHANGED <<caches, expired, attribute, installed, overlapped>>

\* SetGithubInstallationIdForUser: the user is read and then written with the one
\* attribute replaced.  Its error is dropped: the answer is "ok" in any case.
SetInstallationIdForUser(r) ==
  LET set == [attribute EXCEPT ![request[r].user] = request[r].inst] IN
  /\ request[r].pc = "update" /\ Ends(r)
  /\ \/ Succeeds /\ attribute' = set
     \/ ApiError /\ attribute' \in {attribute, set}
  /\ UNCHANGED <<caches, expired, installed, overlapped>>

-----------------------------------------------------------------------------
\* The hour of a token passes.
Expire(t) ==
  /\ InUse(t) /\ t \notin expired
  /\ expired' = expired \cup {t}
  /\ UNCHANGED <<caches, attribute, installed, request, overlapped, apiErrors>>

\* A user removes the app from the account.
Uninstall(i) ==
  /\ i \in installed
  /\ installed' = installed \ {i}
  /\ UNCHANGED <<caches, expired, attribute, request, overlapped, apiErrors>>

\* The process restarts, on its own or because Go found two goroutines in a map.
Crash ==
  /\ clients' = [i \in Installations |-> None] /\ tokens' = clients'
  /\ request' = [r \in Requests |-> NoRequest]
  /\ expired' = {} /\ overlapped' = {}
  /\ UNCHANGED <<attribute, installed, apiErrors>>

Starts(r) ==
  \/ \E u \in Users : GetGithubRepositories(r, u)
  \/ \E i \in Installations : ConfigureInstallation(r, i)

Step(r) ==
  \/ LookupClient(r) \/ LookupToken(r) \/ DeleteClient(r) \/ DeleteToken(r)
  \/ CreateInstallationToken(r) \/ StoreClient(r) \/ StoreToken(r) \/ ListRepos(r)
  \/ UserByGithubId(r) \/ SetInstallationIdForUser(r)

Next ==
  \/ \E r \in Requests : Starts(r) \/ Step(r)
  \/ \E t \in Tokens : Expire(t)
  \/ \E i \in Installations : Uninstall(i)
  \/ Crash

Spec == Init /\ [][Next]_vars

\* Goroutines run.
FairSpec == Spec /\ \A r \in Requests : WF_vars(Step(r))

-----------------------------------------------------------------------------
(* Properties *)

\* Type correctness of maps, users and requests.
TypeOK ==
  /\ {clients, tokens} \subseteq [Installations -> Tokens \cup {None}]
  /\ expired \subseteq Tokens /\ installed \subseteq Installations
  /\ attribute \in [Users -> Installations \cup {None}]
  /\ request \in [Requests ->
       [pc : CacheSteps \cup {"idle", "list", "find", "update"},
        user : Users \cup {NoUser}, inst : Installations \cup {None},
        client : Tokens \cup {None}, token : Tokens \cup {None}]]
  /\ \A r \in Requests : request[r].pc = "idle" => request[r] = NoRequest
  /\ overlapped \subseteq Installations /\ apiErrors \in 0..MaxApiErrors

\* Repositories are listed with the token of an installation that belongs to the
\* account of the user who asks, whatever the maps and the user's attribute went
\* through.
UsersOwnRepositories ==
  \A r \in Requests :
    request[r].pc = "list" =>
      request[r].client[1] = request[r].inst /\ AccountOf[request[r].inst] = request[r].user

\* Without a lock the two maps stay in step as long as no two requests look the
\* same installation up at once: calls that fail between deletion and creation,
\* expiry and removal do not part them, and no request meets a client without a
\* token.  (After an overlap, a client may be left without a token for good.)
MapsInStep ==
  \A i \in Installations \ overlapped :
    /\ (\A r \in Requests : ~InCache(r, i)) => clients[i] = tokens[i]
    /\ \A r \in Requests : InCache(r, i) /\ request[r].pc = "token" => request[r].client = tokens[i]

\* A request ends once no new ones arrive, though it calls itself until the maps
\* are empty and others fill them meanwhile.
RequestsEnd ==
  (<>[][\A r \in Requests : ~Starts(r)]_vars) =>
    \A r \in Requests : <>[](request[r].pc = "idle")

-----------------------------------------------------------------------------
(* What a comment says of the code and the code does not do *)

\* "if the token is expired, delete the client and token and create a new one":
\* the client of an expired token is not returned.
ExpiredNotReturned ==
  [][\A r \in Requests :
       request[r].pc = "token" /\ request'[r].pc = "list" =>
         tokens[request[r].inst] \notin expired]_vars
=============================================================================
