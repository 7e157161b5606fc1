------------------------ MODULE GithubAppClients_proofs ------------------------
(***************************************************************************)
(* Theorems about GithubAppClients: type correctness, that repositories    *)
(* are listed for those whom the installation belongs to, and that the two *)
(* maps stay in step unless requests overlap.                              *)
(***************************************************************************)
EXTENDS GithubAppClients, TLAPS

-----------------------------------------------------------------------------
(* The inductive invariant *)

TokensOf(i) == {i} \X Serials

RequestRecords ==
  [pc : CacheSteps \cup {"idle", "list", "find", "update"},
   user : Users \cup {NoUser}, inst : Installations \cup {None},
   client : Tokens \cup {None}, token : Tokens \cup {None}]

StateType ==
  /\ clients \in [Installations -> Tokens \cup {None}]
  /\ tokens \in [Installations -> Tokens \cup {None}]
  /\ expired \subseteq Tokens /\ installed \subseteq Installations
  /\ attribute \in [Users -> Installations \cup {None}]
  /\ overlapped \subseteq Installations

\* A user's attribute names an installation of the user's account.
AttributesOwn == \A u \in Users : attribute[u] # None => AccountOf[attribute[u]] = u

\* A map holds tokens of the installation it holds them for.
MapsOwn ==
  \A i \in Installations : clients[i] \in TokensOf(i) \cup {None} /\ tokens[i] \in TokensOf(i) \cup {None}

\* What request q has read belongs to its user, and is there when it is used.
Reading(q) ==
  /\ q.pc = "idle" => q = NoRequest
  /\ q.pc # "idle" => q.inst \in Installations
  /\ q.pc \notin {"idle", "find"} => q.user \in Users /\ AccountOf[q.inst] = q.user
  /\ q.client \in TokensOf(q.inst) \cup {None} /\ q.token \in TokensOf(q.inst) \cup {None}
  /\ q.pc \in {"storeToken", "list"} => q.client # None
  /\ q.pc \in {"storeClient", "storeToken"} => q.token # None

RequestsInv == \A r \in Requests : request[r] \in RequestRecords /\ Reading(request[r])

OwnInv ==
  /\ StateType /\ AttributesOwn /\ MapsOwn
  /\ request \in [Requests -> RequestRecords] /\ RequestsInv
  /\ apiErrors \in 0..MaxApiErrors

LEMMA ErrorsBounded ==
  ASSUME apiErrors \in 0..MaxApiErrors, Succeeds \/ ApiError
  PROVE  apiErrors' \in 0..MaxApiErrors
BY ErrorsAssumption DEF Succeeds, ApiError

LEMMA NoRequestReads == NoRequest \in RequestRecords /\ Reading(NoRequest) /\ NoRequest.pc = "idle"
BY DEF NoRequest, At, RequestRecords, Reading

LEMMA InitInv == Init => OwnInv
<1> SUFFICES ASSUME Init PROVE OwnInv
  OBVIOUS
<1>1. StateType /\ AttributesOwn /\ MapsOwn
  BY DEF Init, StateType, AttributesOwn, MapsOwn
<1>2. \A r \in Requests : request[r] = NoRequest
  BY DEF Init
<1>3. RequestsInv
  BY <1>2, NoRequestReads DEF RequestsInv
<1>4. request \in [Requests -> RequestRecords] /\ apiErrors \in 0..MaxApiErrors
  BY NoRequestReads, ErrorsAssumption DEF Init
<1>5. QED
  BY <1>1, <1>3, <1>4 DEF OwnInv

\* Request r becomes q.
LEMMA RequestChanges ==
  ASSUME OwnInv, NEW r \in Requests, NEW q \in RequestRecords, Reading(q),
         request' = [request EXCEPT ![r] = q]
  PROVE  request' \in [Requests -> RequestRecords] /\ RequestsInv'
<1>1. request' \in [Requests -> RequestRecords]
  BY DEF OwnInv
<1>2. \A p \in Requests : request'[p] = IF p = r THEN q ELSE request[p]
  BY DEF OwnInv
<1>3. QED
  BY <1>1, <1>2 DEF OwnInv, RequestsInv

LEMMA EndsRequest ==
  ASSUME OwnInv, NEW r \in Requests, Ends(r)
  PROVE  request' \in [Requests -> RequestRecords] /\ RequestsInv'
BY RequestChanges, NoRequestReads DEF Ends

\* Request r goes on in the lookup.
LEMMA GotoRequest ==
  ASSUME OwnInv, NEW r \in Requests, NEW p \in CacheSteps \cup {"list"}, NEW c, NEW t, Goto(r, p, c, t),
         request[r].pc \in CacheSteps,
         c \in TokensOf(request[r].inst) \cup {None}, t \in TokensOf(request[r].inst) \cup {None},
         p \in {"storeToken", "list"} => c # None,
         p \in {"storeClient", "storeToken"} => t # None
  PROVE  /\ request' \in [Requests -> RequestRecords] /\ RequestsInv'
         /\ request' = [request EXCEPT ![r] =
              [pc |-> p, user |-> request[r].user, inst |-> request[r].inst, client |-> c, token |-> t]]
<1> DEFINE q == [pc |-> p, user |-> request[r].user, inst |-> request[r].inst, client |-> c, token |-> t]
<1>1. request[r] \in RequestRecords /\ Reading(request[r])
  BY DEF OwnInv, RequestsInv
<1>2. request' = [request EXCEPT ![r] = q]
  BY DEF Goto, OwnInv
<1>3. request[r].inst \in Installations /\ request[r].user \in Users
      /\ AccountOf[request[r].inst] = request[r].user
  BY <1>1 DEF Reading, CacheSteps
<1>4. TokensOf(request[r].inst) \subseteq Tokens
  BY <1>3 DEF TokensOf, Tokens
<1>5. q \in RequestRecords
  BY <1>3, <1>4 DEF RequestRecords
<1>6. Reading(q)
  BY <1>3 DEF Reading, CacheSteps
<1> HIDE DEF q
<1>7. request' \in [Requests -> RequestRecords] /\ RequestsInv'
  BY <1>2, <1>5, <1>6, RequestChanges
<1>8. QED
  BY <1>2, <1>7 DEF q

-----------------------------------------------------------------------------
(* Lookups *)

\* Request r is in the lookup for installation i, and belongs to its user.
LEMMA InLookup ==
  ASSUME OwnInv, NEW r \in Requests, request[r].pc \in CacheSteps
  PROVE  /\ request[r] \in RequestRecords /\ Reading(request[r])
         /\ request[r].inst \in Installations
         /\ clients[request[r].inst] \in TokensOf(request[r].inst) \cup {None}
         /\ tokens[request[r].inst] \in TokensOf(request[r].inst) \cup {None}
         /\ request[r].client \in TokensOf(request[r].inst) \cup {None}
         /\ request[r].token \in TokensOf(request[r].inst) \cup {None}
<1>1. request[r] \in RequestRecords /\ Reading(request[r])
  BY DEF OwnInv, RequestsInv
<1>2. request[r].inst \in Installations
  BY <1>1 DEF Reading, CacheSteps
<1>3. QED
  BY <1>1, <1>2 DEF OwnInv, MapsOwn, Reading

\* The maps change for the installation of r only.
LEMMA MapsKept ==
  ASSUME OwnInv, UNCHANGED <<attribute, installed, overlapped>>, NEW i \in Installations,
         NEW c \in TokensOf(i) \cup {None}, NEW t \in TokensOf(i) \cup {None},
         clients' \in {clients, [clients EXCEPT ![i] = c]},
         tokens' \in {tokens, [tokens EXCEPT ![i] = t]}, expired' \subseteq expired
  PROVE  StateType' /\ AttributesOwn' /\ MapsOwn'
<1>1. TokensOf(i) \subseteq Tokens
  BY DEF TokensOf, Tokens
<1>2. StateType' /\ AttributesOwn'
  BY <1>1 DEF OwnInv, StateType, AttributesOwn
<1>3. MapsOwn'
  BY DEF OwnInv, StateType, MapsOwn
<1>4. QED
  BY <1>2, <1>3

LEMMA CachesUnchanged ==
  ASSUME OwnInv, UNCHANGED <<clients, tokens, expired, attribute, installed, overlapped>>
  PROVE  StateType' /\ AttributesOwn' /\ MapsOwn'
BY DEF OwnInv, StateType, AttributesOwn, MapsOwn

LEMMA LookupClientOwn ==
  ASSUME OwnInv, NEW r \in Requests, LookupClient(r)
  PROVE  OwnInv'
<1>1. /\ request[r].pc = "client" /\ Goto(r, "token", clients[request[r].inst], None)
      /\ UNCHANGED <<clients, tokens, expired, attribute, installed, overlapped, apiErrors>>
  BY DEF LookupClient, caches
<1>2. request[r].pc \in CacheSteps /\ "token" \in CacheSteps
  BY <1>1 DEF CacheSteps
<1>3. clients[request[r].inst] \in TokensOf(request[r].inst) \cup {None}
  BY <1>2, InLookup
<1>4. request' \in [Requests -> RequestRecords] /\ RequestsInv'
  BY <1>1, <1>2, <1>3, GotoRequest
<1>5. QED
  BY <1>1, <1>4, CachesUnchanged DEF OwnInv

LEMMA LookupTokenOwn ==
  ASSUME OwnInv, NEW r \in Requests, LookupToken(r)
  PROVE  OwnInv'
<1> DEFINE c == request[r].client
<1>1. /\ request[r].pc = "token"
      /\ UNCHANGED <<clients, tokens, expired, attribute, installed, overlapped, apiErrors>>
      /\ \/ Goto(r, "create", None, None) \/ Goto(r, "deleteClient", None, None)
         \/ Ends(r)
         \/ c # None /\ Goto(r, "list", c, None)
  BY DEF LookupToken, caches
<1>2. request[r].pc \in CacheSteps /\ "create" \in CacheSteps /\ "deleteClient" \in CacheSteps
  BY <1>1 DEF CacheSteps
<1>3. c \in TokensOf(request[r].inst) \cup {None}
  BY <1>2, InLookup
<1>4. ASSUME Goto(r, "create", None, None) \/ Goto(r, "deleteClient", None, None)
      PROVE  request' \in [Requests -> RequestRecords] /\ RequestsInv'
  BY <1>2, <1>4, GotoRequest
<1>5. ASSUME c # None, Goto(r, "list", c, None)
      PROVE  request' \in [Requests -> RequestRecords] /\ RequestsInv'
  BY <1>2, <1>3, <1>5, GotoRequest
<1>6. request' \in [Requests -> RequestRecords] /\ RequestsInv'
  BY <1>1, <1>4, <1>5, EndsRequest
<1>7. QED
  BY <1>1, <1>6, CachesUnchanged DEF OwnInv

LEMMA DeletionOwn ==
  ASSUME OwnInv, NEW r \in Requests, DeleteClient(r) \/ DeleteToken(r)
  PROVE  OwnInv'
<1> DEFINE i == request[r].inst
<1>1. /\ request[r].pc \in {"deleteClient", "deleteToken"}
      /\ UNCHANGED <<expired, attribute, installed, overlapped, apiErrors>>
      /\ clients' \in {clients, [clients EXCEPT ![i] = None]}
      /\ tokens' \in {tokens, [tokens EXCEPT ![i] = None]}
      /\ Goto(r, "deleteToken", None, None) \/ Goto(r, "client", None, None)
  BY DEF DeleteClient, DeleteToken
<1>2. request[r].pc \in CacheSteps /\ "deleteToken" \in CacheSteps /\ "client" \in CacheSteps
  BY <1>1 DEF CacheSteps
<1>3. request' \in [Requests -> RequestRecords] /\ RequestsInv'
  BY <1>1, <1>2, GotoRequest
<1>4. i \in Installations
  BY <1>2, InLookup
<1>5. StateType' /\ AttributesOwn' /\ MapsOwn'
  <2> HIDE DEF i
  <2>1. QED
    BY <1>1, <1>4, MapsKept
<1>6. QED
  BY <1>1, <1>3, <1>5 DEF OwnInv

LEMMA CreateTokenOwn ==
  ASSUME OwnInv, NEW r \in Requests, CreateInstallationToken(r)
  PROVE  OwnInv'
<1> DEFINE i == request[r].inst
<1>1. /\ request[r].pc = "create"
      /\ Succeeds \/ ApiError
      /\ UNCHANGED <<clients, tokens, attribute, installed, overlapped>>
      /\ expired' \subseteq expired
      /\ (\E n \in Serials : Goto(r, "storeClient", None, <<i, n>>)) \/ Ends(r)
  BY DEF CreateInstallationToken, caches
<1>2. request[r].pc \in CacheSteps /\ "storeClient" \in CacheSteps
  BY <1>1 DEF CacheSteps
<1>3. ASSUME NEW n \in Serials PROVE <<i, n>> \in TokensOf(i) /\ <<i, n>> # None
  BY <1>2, InLookup, NoneAssumption DEF TokensOf
<1>4. ASSUME NEW n \in Serials, Goto(r, "storeClient", None, <<i, n>>)
      PROVE  request' \in [Requests -> RequestRecords] /\ RequestsInv'
  BY <1>2, <1>3, <1>4, GotoRequest
<1>5. request' \in [Requests -> RequestRecords] /\ RequestsInv'
  BY <1>1, <1>4, EndsRequest
<1>6. StateType' /\ AttributesOwn' /\ MapsOwn'
  BY <1>1 DEF OwnInv, StateType, AttributesOwn, MapsOwn
<1>7. QED
  BY <1>1, <1>5, <1>6, ErrorsBounded DEF OwnInv

LEMMA StoreOwn ==
  ASSUME OwnInv, NEW r \in Requests, StoreClient(r) \/ StoreToken(r)
  PROVE  OwnInv'
<1> DEFINE i == request[r].inst
           t == request[r].token
           c == request[r].client
<1>1. /\ request[r].pc \in {"storeClient", "storeToken"}
      /\ UNCHANGED <<expired, attribute, installed, overlapped, apiErrors>>
      /\ clients' \in {clients, [clients EXCEPT ![i] = t]}
      /\ tokens' \in {tokens, [tokens EXCEPT ![i] = t]}
      /\ \/ request[r].pc = "storeClient" /\ Goto(r, "storeToken", t, t)
         \/ request[r].pc = "storeToken" /\ Goto(r, "list", c, None)
  BY DEF StoreClient, StoreToken
<1>2. request[r].pc \in CacheSteps /\ "storeToken" \in CacheSteps
  BY <1>1 DEF CacheSteps
<1>3. /\ i \in Installations /\ t \in TokensOf(i) \cup {None} /\ c \in TokensOf(i) \cup {None}
      /\ t # None /\ (request[r].pc = "storeToken" => c # None)
  BY <1>1, <1>2, InLookup DEF Reading
<1>4. request' \in [Requests -> RequestRecords] /\ RequestsInv'
  BY <1>1, <1>2, <1>3, GotoRequest
<1>5. StateType' /\ AttributesOwn' /\ MapsOwn'
  <2> HIDE DEF i, t
  <2>1. QED
    BY <1>1, <1>3, MapsKept
<1>6. QED
  BY <1>1, <1>4, <1>5 DEF OwnInv

LEMMA ListOwn ==
  ASSUME OwnInv, NEW r \in Requests, ListRepos(r)
  PROVE  OwnInv'
BY EndsRequest, CachesUnchanged DEF ListRepos, caches, OwnInv

LEMMA GetRepositoriesOwn ==
  ASSUME OwnInv, NEW r \in Requests, NEW u \in Users, GetGithubRepositories(r, u)
  PROVE  OwnInv'
<1> DEFINE i == attribute[u]
           q == At("client", u, i)
<1>1. /\ i # None /\ request' = [request EXCEPT ![r] = q]
      /\ overlapped' \in {overlapped, overlapped \cup {i}}
      /\ UNCHANGED <<clients, tokens, expired, attribute, installed, apiErrors>>
  BY DEF GetGithubRepositories, caches
<1>2. i \in Installations /\ AccountOf[i] = u
  BY <1>1 DEF OwnInv, StateType, AttributesOwn
<1>3. q = [pc |-> "client", user |-> u, inst |-> i, client |-> None, token |-> None]
  BY DEF At
<1>4. q \in RequestRecords /\ Reading(q)
  BY <1>2, <1>3 DEF RequestRecords, Reading, CacheSteps
<1>5. request' \in [Requests -> RequestRecords] /\ RequestsInv'
  <2> HIDE DEF q
  <2>1. QED
    BY <1>1, <1>4, RequestChanges
<1>6. StateType' /\ AttributesOwn' /\ MapsOwn'
  BY <1>1, <1>2 DEF OwnInv, StateType, AttributesOwn, MapsOwn
<1>7. QED
  BY <1>1, <1>5, <1>6 DEF OwnInv

-----------------------------------------------------------------------------
(* The link between users and installations, and the environment *)

LEMMA ConfigureOwn ==
  ASSUME OwnInv, NEW r \in Requests, NEW i \in Installations, ConfigureInstallation(r, i)
  PROVE  OwnInv'
<1> DEFINE q == At("find", NoUser, i)
<1>1. /\ request' = [request EXCEPT ![r] = q]
      /\ UNCHANGED <<clients, tokens, expired, attribute, installed, overlapped, apiErrors>>
  BY DEF ConfigureInstallation, caches
<1>2. q \in RequestRecords /\ Reading(q)
  BY DEF At, RequestRecords, Reading
<1> HIDE DEF q
<1>3. QED
  BY <1>1, <1>2, RequestChanges, CachesUnchanged DEF OwnInv

LEMMA UserFoundOwn ==
  ASSUME OwnInv, NEW r \in Requests, UserByGithubId(r)
  PROVE  OwnInv'
<1> DEFINE i == request[r].inst
           q == At("update", AccountOf[i], i)
<1>1. /\ request[r].pc = "find"
      /\ Succeeds \/ ApiError
      /\ UNCHANGED <<clients, tokens, expired, attribute, installed, overlapped>>
      /\ (AccountOf[i] \in Users /\ request' = [request EXCEPT ![r] = q]) \/ Ends(r)
  BY DEF UserByGithubId, caches, OwnInv
<1>2. i \in Installations
  BY <1>1 DEF OwnInv, RequestsInv, Reading
<1>3. AccountOf[i] \in Users => q \in RequestRecords /\ Reading(q)
  BY <1>2 DEF At, RequestRecords, Reading
<1> HIDE DEF q
<1>4. request' \in [Requests -> RequestRecords] /\ RequestsInv'
  BY <1>1, <1>3, RequestChanges, EndsRequest
<1>5. QED
  BY <1>1, <1>4, CachesUnchanged, ErrorsBounded DEF OwnInv

\* The user who gets the installation is the one whose account it is.
LEMMA SetInstallationOwn ==
  ASSUME OwnInv, NEW r \in Requests, SetInstallationIdForUser(r)
  PROVE  OwnInv'
<1> DEFINE i == request[r].inst
           u == request[r].user
<1>1. /\ request[r].pc = "update" /\ Ends(r)
      /\ Succeeds \/ ApiError
      /\ UNCHANGED <<clients, tokens, expired, installed, overlapped>>
      /\ attribute' \in {attribute, [attribute EXCEPT ![u] = i]}
  BY DEF SetInstallationIdForUser, caches
<1>2. i \in Installations /\ u \in Users /\ AccountOf[i] = u
  BY <1>1 DEF OwnInv, RequestsInv, Reading
<1>3. StateType' /\ AttributesOwn' /\ MapsOwn'
  BY <1>1, <1>2 DEF OwnInv, StateType, AttributesOwn, MapsOwn
<1>4. request' \in [Requests -> RequestRecords] /\ RequestsInv'
  BY <1>1, EndsRequest
<1>5. QED
  BY <1>1, <1>3, <1>4, ErrorsBounded DEF OwnInv

LEMMA WorldOwn ==
  ASSUME OwnInv, (\E t \in Tokens : Expire(t)) \/ (\E i \in Installations : Uninstall(i))
  PROVE  OwnInv'
<1>1. /\ UNCHANGED <<clients, tokens, attribute, request, overlapped, apiErrors>>
      /\ expired' \subseteq Tokens /\ installed' \subseteq Installations
  BY DEF Expire, Uninstall, caches, OwnInv, StateType
<1>2. QED
  BY <1>1 DEF OwnInv, StateType, AttributesOwn, MapsOwn, RequestsInv

LEMMA CrashOwn ==
  ASSUME OwnInv, Crash
  PROVE  OwnInv'
<1>1. /\ clients' = [i \in Installations |-> None] /\ tokens' = clients'
      /\ request' = [r \in Requests |-> NoRequest] /\ expired' = {} /\ overlapped' = {}
      /\ UNCHANGED <<attribute, installed, apiErrors>>
  BY DEF Crash
<1>2. StateType' /\ AttributesOwn' /\ MapsOwn'
  BY <1>1 DEF OwnInv, StateType, AttributesOwn, MapsOwn
<1>3. \A r \in Requests : request'[r] = NoRequest
  BY <1>1
<1>4. request' \in [Requests -> RequestRecords] /\ RequestsInv'
  BY <1>1, <1>3, NoRequestReads DEF RequestsInv
<1>5. QED
  BY <1>1, <1>2, <1>4 DEF OwnInv

LEMMA StepOwn ==
  ASSUME OwnInv, [Next]_vars
  PROVE  OwnInv'
<1>1. CASE UNCHANGED vars
  BY <1>1 DEF vars, caches, OwnInv, StateType, AttributesOwn, MapsOwn, RequestsInv
<1>2. CASE \E r \in Requests : Starts(r)
  BY <1>2, GetRepositoriesOwn, ConfigureOwn DEF Starts
<1>3. CASE \E r \in Requests : Step(r)
  BY <1>3, LookupClientOwn, LookupTokenOwn, DeletionOwn, CreateTokenOwn, StoreOwn, ListOwn,
     UserFoundOwn, SetInstallationOwn DEF Step
<1>4. QED
  BY <1>1, <1>2, <1>3, WorldOwn, CrashOwn DEF Next

\* Maps, attributes and requests keep to the account an installation belongs to:
\* OwnInv holds in every reachable state.
THEOREM OwnInvariant == Spec => []OwnInv
BY InitInv, StepOwn, PTL DEF Spec

\* Maps, users and requests are of their types.
THEOREM AppTypeCorrect == Spec => []TypeOK
<1>1. OwnInv => TypeOK
  BY DEF OwnInv, StateType, RequestsInv, Reading, RequestRecords, TypeOK
<1>2. QED
  BY <1>1, OwnInvariant, PTL

\* Repositories are listed with a token of the installation that belongs to the
\* account of the user who asks, whatever the unlocked maps hold.
THEOREM RepositoriesOfOwner == Spec => []UsersOwnRepositories
<1>1. OwnInv => UsersOwnRepositories
  <2> SUFFICES ASSUME OwnInv, NEW r \in Requests, request[r].pc = "list"
               PROVE  /\ request[r].client[1] = request[r].inst
                      /\ AccountOf[request[r].inst] = request[r].user
    BY DEF UsersOwnRepositories
  <2>1. Reading(request[r])
    BY DEF OwnInv, RequestsInv
  <2>2. request[r].client \in TokensOf(request[r].inst)
    BY <2>1 DEF Reading
  <2>3. QED
    BY <2>1, <2>2 DEF Reading, TokensOf
<1>2. QED
  BY <1>1, OwnInvariant, PTL

-----------------------------------------------------------------------------
(* The maps stay in step *)

\* No other request looks up the same installation ...
OneAtATime ==
  \A i \in Installations \ overlapped : \A q, r \in Requests :
    InCache(q, i) /\ InCache(r, i) => q = r

\* ... so that between lookup and return the maps are as request q has left them.
AsLeft(q, c, t) ==
  /\ q.pc \in {"client", "token", "deleteClient", "create", "storeClient"} => c = t
  /\ q.pc = "token" => q.client = c
  /\ q.pc = "deleteToken" => c = None
  /\ q.pc \in {"create", "storeClient"} => c = None
  /\ q.pc = "storeToken" => c = q.token

MapsAsLeft ==
  \A i \in Installations \ overlapped :
    /\ (\A r \in Requests : ~InCache(r, i)) => clients[i] = tokens[i]
    /\ \A r \in Requests : InCache(r, i) => AsLeft(request[r], clients[i], tokens[i])

SyncInv == OneAtATime /\ MapsAsLeft

\* Request r becomes q, in the lookup for i or at its end, and changes the maps for i.
LEMMA LookupKeepsSync ==
  ASSUME OwnInv, SyncInv, UNCHANGED overlapped, NEW r \in Requests, NEW i \in Installations,
         InCache(r, i), NEW q, request' = [request EXCEPT ![r] = q],
         \A j \in Installations \ {i} : clients'[j] = clients[j] /\ tokens'[j] = tokens[j],
         q.pc \in CacheSteps => q.inst = i,
         i \notin overlapped /\ q.pc \in CacheSteps => AsLeft(q, clients'[i], tokens'[i]),
         i \notin overlapped /\ q.pc \notin CacheSteps => clients'[i] = tokens'[i]
  PROVE  SyncInv'
<1>1. \A p \in Requests : request'[p] = IF p = r THEN q ELSE request[p]
  BY DEF OwnInv
<1>2. ASSUME NEW j \in Installations, NEW p \in Requests, InCache(p, j)'
      PROVE  /\ InCache(p, j)
             /\ p = r => j = i /\ q.pc \in CacheSteps
  BY <1>1, <1>2 DEF InCache
<1>3. OneAtATime'
  BY <1>2 DEF SyncInv, OneAtATime
<1>4. ASSUME NEW j \in Installations, j \notin overlapped
      PROVE  /\ (\A p \in Requests : ~InCache(p, j)') => clients'[j] = tokens'[j]
             /\ \A p \in Requests : InCache(p, j)' => AsLeft(request'[p], clients'[j], tokens'[j])
  <2>1. CASE j = i
    <3>1. ASSUME NEW p \in Requests, InCache(p, i)' PROVE p = r /\ q.pc \in CacheSteps
      <4>1. InCache(p, i) /\ (p = r => q.pc \in CacheSteps)
        BY <1>2, <3>1
      <4>2. QED
        BY <1>4, <2>1, <4>1 DEF SyncInv, OneAtATime
    <3>2. q.pc \in CacheSteps => InCache(r, i)'
      BY <1>1 DEF InCache
    <3>3. QED
      BY <1>1, <1>4, <2>1, <3>1, <3>2
  <2>2. CASE j # i
    <3>1. \A p \in Requests : InCache(p, j)' <=> InCache(p, j)
      BY <1>1, <1>2, <2>2 DEF InCache
    <3>2. \A p \in Requests : InCache(p, j) => p # r /\ request'[p] = request[p]
      BY <1>1, <2>2 DEF InCache
    <3>3. clients'[j] = clients[j] /\ tokens'[j] = tokens[j]
      BY <2>2
    <3>4. QED
      BY <1>4, <3>1, <3>2, <3>3 DEF SyncInv, MapsAsLeft
  <2>3. QED
    BY <2>1, <2>2
<1>5. MapsAsLeft'
  BY <1>4 DEF MapsAsLeft
<1>6. QED
  BY <1>3, <1>5 DEF SyncInv

\* Request r becomes q outside of the lookup.
LEMMA OutsideKeepsSync ==
  ASSUME OwnInv, SyncInv, UNCHANGED <<clients, tokens, overlapped>>, NEW r \in Requests,
         request[r].pc \notin CacheSteps, NEW q, request' = [request EXCEPT ![r] = q],
         q.pc \notin CacheSteps
  PROVE  SyncInv'
<1>1. \A p \in Requests : request'[p] = IF p = r THEN q ELSE request[p]
  BY DEF OwnInv
<1>2. \A j \in Installations, p \in Requests :
        (InCache(p, j)' <=> InCache(p, j)) /\ (InCache(p, j) => request'[p] = request[p])
  BY <1>1 DEF InCache
<1>3. QED
  BY <1>2 DEF SyncInv, OneAtATime, MapsAsLeft

LEMMA SyncKept ==
  ASSUME SyncInv, UNCHANGED <<clients, tokens, overlapped, request>>
  PROVE  SyncInv'
BY DEF SyncInv, OneAtATime, MapsAsLeft, InCache

\* The next lookup may begin while another is under way, which is then remembered.
LEMMA StartSync ==
  ASSUME OwnInv, SyncInv, NEW r \in Requests, NEW u \in Users, GetGithubRepositories(r, u)
  PROVE  SyncInv'
<1> DEFINE i == attribute[u]
           q == At("client", u, i)
<1>1. /\ request[r] = NoRequest /\ i # None /\ request' = [request EXCEPT ![r] = q]
      /\ overlapped' = IF \E p \in Requests : InCache(p, i) THEN overlapped \cup {i} ELSE overlapped
      /\ UNCHANGED <<clients, tokens>>
  BY DEF GetGithubRepositories, caches
<1>2. q.pc = "client" /\ q.inst = i /\ q.client = None
  BY DEF At
<1>3. "client" \in CacheSteps /\ "idle" \notin CacheSteps /\ NoRequest.pc = "idle"
  BY NoRequestReads DEF CacheSteps
<1> HIDE DEF q
<1>4. \A p \in Requests : request'[p] = IF p = r THEN q ELSE request[p]
  BY <1>1 DEF OwnInv
<1>5. \A j \in Installations, p \in Requests :
        InCache(p, j)' <=> IF p = r THEN j = i ELSE InCache(p, j)
  BY <1>2, <1>3, <1>4 DEF InCache
<1>6. \A j \in Installations : ~InCache(r, j)
  BY <1>1, <1>3 DEF InCache
<1>7. \A j \in Installations \ overlapped' :
        j \notin overlapped /\ (j = i => \A p \in Requests : ~InCache(p, j))
  BY <1>1
<1>8. OneAtATime'
  BY <1>5, <1>6, <1>7 DEF SyncInv, OneAtATime
<1>9. ASSUME NEW j \in Installations \ overlapped'
      PROVE  /\ (\A p \in Requests : ~InCache(p, j)') => clients'[j] = tokens'[j]
             /\ \A p \in Requests : InCache(p, j)' => AsLeft(request'[p], clients'[j], tokens'[j])
  <2>1. CASE j = i
    <3>1. clients[j] = tokens[j]
      BY <1>7, <1>9, <2>1 DEF SyncInv, MapsAsLeft
    <3>2. \A p \in Requests : InCache(p, j)' => p = r
      BY <1>5, <1>7, <1>9, <2>1
    <3>3. AsLeft(q, clients[j], tokens[j])
      BY <1>2, <3>1 DEF AsLeft
    <3>4. QED
      BY <1>1, <1>4, <3>1, <3>2, <3>3
  <2>2. CASE j # i
    BY <1>1, <1>4, <1>5, <1>6, <1>7, <1>9, <2>2 DEF SyncInv, MapsAsLeft
  <2>3. QED
    BY <2>1, <2>2
<1>10. QED
  BY <1>8, <1>9 DEF SyncInv, MapsAsLeft

\* What is known of request r in the lookup for i, when nobody else is
LEMMA Known ==
  ASSUME OwnInv, SyncInv, NEW r \in Requests, request[r].pc \in CacheSteps,
         NEW i, i = request[r].inst
  PROVE  /\ i \in Installations /\ InCache(r, i)
         /\ i \notin overlapped => AsLeft(request[r], clients[i], tokens[i])
         /\ clients \in [Installations -> Tokens \cup {None}]
         /\ tokens \in [Installations -> Tokens \cup {None}]
         /\ request \in [Requests -> RequestRecords]
<1>1. i \in Installations /\ InCache(r, i)
  BY InLookup DEF InCache
<1>2. QED
  BY <1>1 DEF SyncInv, MapsAsLeft, OwnInv, StateType

\* What Goto makes of request r
Going(r, p, c, t) ==
  [pc |-> p, user |-> request[r].user, inst |-> request[r].inst, client |-> c, token |-> t]

LEMMA GoingRequest ==
  ASSUME OwnInv, NEW r \in Requests, NEW p, NEW c, NEW t, Goto(r, p, c, t)
  PROVE  request' = [request EXCEPT ![r] = Going(r, p, c, t)]
BY DEF Goto, Going, OwnInv

LEMMA LookupSync ==
  ASSUME OwnInv, SyncInv, NEW r \in Requests, LookupClient(r) \/ LookupToken(r)
  PROVE  SyncInv'
<1> DEFINE i == request[r].inst
<1>1. /\ request[r].pc \in {"client", "token"} /\ UNCHANGED <<clients, tokens, overlapped>>
      /\ \/ request[r].pc = "client" /\ Goto(r, "token", clients[i], None)
         \/ request[r].pc = "token" /\ request[r].client = None /\ Goto(r, "create", None, None)
         \/ request[r].pc = "token" /\ Ends(r)
         \/ request[r].pc = "token" /\ Goto(r, "deleteClient", None, None)
         \/ request[r].pc = "token" /\ Goto(r, "list", request[r].client, None)
  BY DEF LookupClient, LookupToken, caches
<1>2. request[r].pc \in CacheSteps
  BY <1>1 DEF CacheSteps
<1>3. /\ i \in Installations /\ InCache(r, i)
      /\ i \notin overlapped => AsLeft(request[r], clients[i], tokens[i])
  BY <1>2, Known
<1>4. i \notin overlapped => clients[i] = tokens[i]
  BY <1>1, <1>3 DEF AsLeft
<1>5. CASE request[r].pc = "client" /\ Goto(r, "token", clients[i], None)
  <2> DEFINE q == Going(r, "token", clients[i], None)
  <2>1. request' = [request EXCEPT ![r] = q]
    BY <1>5, GoingRequest
  <2>2. q.inst = i /\ (i \notin overlapped => AsLeft(q, clients[i], tokens[i])) /\ q.pc \in CacheSteps
    BY <1>4 DEF Going, AsLeft, CacheSteps
  <2> HIDE DEF q
  <2>3. QED
    BY <1>1, <1>3, <2>1, <2>2, LookupKeepsSync
<1>6. CASE request[r].pc = "token" /\ request[r].client = None /\ Goto(r, "create", None, None)
  <2> DEFINE q == Going(r, "create", None, None)
  <2>1. request' = [request EXCEPT ![r] = q]
    BY <1>6, GoingRequest
  <2>2. i \notin overlapped => clients[i] = None
    BY <1>3, <1>6 DEF AsLeft
  <2>3. q.inst = i /\ (i \notin overlapped => AsLeft(q, clients[i], tokens[i])) /\ q.pc \in CacheSteps
    BY <1>4, <2>2 DEF Going, AsLeft, CacheSteps
  <2> HIDE DEF q
  <2>4. QED
    BY <1>1, <1>3, <2>1, <2>3, LookupKeepsSync
<1>7. CASE Ends(r)
  BY <1>1, <1>3, <1>4, <1>7, LookupKeepsSync, NoRequestReads DEF Ends, CacheSteps
<1>8. CASE request[r].pc = "token" /\ Goto(r, "deleteClient", None, None)
  <2> DEFINE q == Going(r, "deleteClient", None, None)
  <2>1. request' = [request EXCEPT ![r] = q]
    BY <1>8, GoingRequest
  <2>2. q.inst = i /\ (i \notin overlapped => AsLeft(q, clients[i], tokens[i])) /\ q.pc \in CacheSteps
    BY <1>4 DEF Going, AsLeft, CacheSteps
  <2> HIDE DEF q
  <2>3. QED
    BY <1>1, <1>3, <2>1, <2>2, LookupKeepsSync
<1>9. CASE request[r].pc = "token" /\ Goto(r, "list", request[r].client, None)
  <2> DEFINE q == Going(r, "list", request[r].client, None)
  <2>1. request' = [request EXCEPT ![r] = q]
    BY <1>9, GoingRequest
  <2>2. q.pc \notin CacheSteps
    BY DEF Going, CacheSteps
  <2> HIDE DEF q
  <2>3. QED
    BY <1>1, <1>3, <1>4, <2>1, <2>2, LookupKeepsSync
<1>10. QED
  BY <1>1, <1>5, <1>6, <1>7, <1>8, <1>9

LEMMA DeletionSync ==
  ASSUME OwnInv, SyncInv, NEW r \in Requests, DeleteClient(r) \/ DeleteToken(r)
  PROVE  SyncInv'
<1> DEFINE i == request[r].inst
<1>1. UNCHANGED overlapped /\ request[r].pc \in CacheSteps
  BY DEF DeleteClient, DeleteToken, CacheSteps
<1>2. /\ i \in Installations /\ InCache(r, i)
      /\ i \notin overlapped => AsLeft(request[r], clients[i], tokens[i])
      /\ clients \in [Installations -> Tokens \cup {None}]
      /\ tokens \in [Installations -> Tokens \cup {None}]
  BY <1>1, Known
<1>3. CASE DeleteClient(r)
  <2> DEFINE q == Going(r, "deleteToken", None, None)
  <2>1. /\ request' = [request EXCEPT ![r] = q]
        /\ clients' = [clients EXCEPT ![i] = None] /\ tokens' = tokens
    BY <1>3, GoingRequest DEF DeleteClient
  <2>2. clients'[i] = None
    BY <1>2, <2>1
  <2>3. q.inst = i /\ AsLeft(q, clients'[i], tokens'[i]) /\ q.pc \in CacheSteps
    BY <2>2 DEF Going, AsLeft, CacheSteps
  <2> HIDE DEF q
  <2>4. QED
    BY <1>1, <1>2, <2>1, <2>3, LookupKeepsSync
<1>4. CASE DeleteToken(r)
  <2> DEFINE q == Going(r, "client", None, None)
  <2>1. /\ request' = [request EXCEPT ![r] = q] /\ request[r].pc = "deleteToken"
        /\ tokens' = [tokens EXCEPT ![i] = None] /\ clients' = clients
    BY <1>4, GoingRequest DEF DeleteToken
  <2>2. tokens'[i] = None /\ (i \notin overlapped => clients'[i] = None)
    BY <1>2, <2>1 DEF AsLeft
  <2>3. q.inst = i /\ (i \notin overlapped => AsLeft(q, clients'[i], tokens'[i])) /\ q.pc \in CacheSteps
    BY <2>2 DEF Going, AsLeft, CacheSteps
  <2> HIDE DEF q
  <2>4. QED
    BY <1>1, <1>2, <2>1, <2>3, LookupKeepsSync
<1>5. QED
  BY <1>3, <1>4

LEMMA CreateSync ==
  ASSUME OwnInv, SyncInv, NEW r \in Requests, CreateInstallationToken(r)
  PROVE  SyncInv'
<1> DEFINE i == request[r].inst
<1>1. /\ request[r].pc = "create" /\ UNCHANGED <<clients, tokens, overlapped>>
      /\ (\E n \in Serials : Goto(r, "storeClient", None, <<i, n>>)) \/ Ends(r)
  BY DEF CreateInstallationToken, caches
<1>2. request[r].pc \in CacheSteps
  BY <1>1 DEF CacheSteps
<1>3. /\ i \in Installations /\ InCache(r, i)
      /\ i \notin overlapped => AsLeft(request[r], clients[i], tokens[i])
  BY <1>2, Known
<1>4. i \notin overlapped => clients[i] = tokens[i] /\ clients[i] = None
  BY <1>1, <1>3 DEF AsLeft
<1>5. ASSUME NEW n \in Serials, Goto(r, "storeClient", None, <<i, n>>) PROVE SyncInv'
  <2> DEFINE t == <<i, n>>
             q == Going(r, "storeClient", None, t)
  <2>1. request' = [request EXCEPT ![r] = q]
    BY <1>5, GoingRequest
  <2> HIDE DEF t
  <2>2. q.inst = i /\ (i \notin overlapped => AsLeft(q, clients[i], tokens[i])) /\ q.pc \in CacheSteps
    BY <1>4 DEF Going, AsLeft, CacheSteps
  <2> HIDE DEF q
  <2>3. QED
    BY <1>1, <1>3, <2>1, <2>2, LookupKeepsSync
<1>6. CASE Ends(r)
  BY <1>1, <1>3, <1>4, <1>6, LookupKeepsSync, NoRequestReads DEF Ends, CacheSteps
<1>7. QED
  BY <1>1, <1>5, <1>6

LEMMA StoreSync ==
  ASSUME OwnInv, SyncInv, NEW r \in Requests, StoreClient(r) \/ StoreToken(r)
  PROVE  SyncInv'
<1> DEFINE i == request[r].inst
           t == request[r].token
<1>1. UNCHANGED overlapped /\ request[r].pc \in CacheSteps
  BY DEF StoreClient, StoreToken, CacheSteps
<1>2. /\ i \in Installations /\ InCache(r, i)
      /\ i \notin overlapped => AsLeft(request[r], clients[i], tokens[i])
      /\ clients \in [Installations -> Tokens \cup {None}]
      /\ tokens \in [Installations -> Tokens \cup {None}]
  BY <1>1, Known
<1>3. CASE StoreClient(r)
  <2> DEFINE q == Going(r, "storeToken", t, t)
  <2>1. /\ request' = [request EXCEPT ![r] = q]
        /\ clients' = [clients EXCEPT ![i] = t] /\ tokens' = tokens
    BY <1>3, GoingRequest DEF StoreClient
  <2>2. clients'[i] = t
    BY <1>2, <2>1
  <2>3. q.inst = i /\ AsLeft(q, clients'[i], tokens'[i]) /\ q.pc \in CacheSteps
    BY <2>2 DEF Going, AsLeft, CacheSteps
  <2> HIDE DEF q
  <2>4. QED
    BY <1>1, <1>2, <2>1, <2>3, LookupKeepsSync
<1>4. CASE StoreToken(r)
  <2> DEFINE q == Going(r, "list", request[r].client, None)
  <2>1. /\ request' = [request EXCEPT ![r] = q] /\ request[r].pc = "storeToken"
        /\ tokens' = [tokens EXCEPT ![i] = t] /\ clients' = clients
    BY <1>4, GoingRequest DEF StoreToken
  <2>2. i \notin overlapped => clients'[i] = tokens'[i]
    BY <1>2, <2>1 DEF AsLeft
  <2>3. q.pc \notin CacheSteps
    BY DEF Going, CacheSteps
  <2> HIDE DEF q
  <2>4. QED
    BY <1>1, <1>2, <2>1, <2>2, <2>3, LookupKeepsSync
<1>5. QED
  BY <1>3, <1>4
LEMMA OutsideSync ==
  ASSUME OwnInv, SyncInv, NEW r \in Requests,
         \/ ListRepos(r) \/ UserByGithubId(r) \/ SetInstallationIdForUser(r)
         \/ \E i \in Installations : ConfigureInstallation(r, i)
  PROVE  SyncInv'
<1>1. /\ request[r].pc \in {"list", "find", "update"} \/ request[r] = NoRequest
      /\ UNCHANGED <<clients, tokens, overlapped>>
      /\ \/ Ends(r)
         \/ \E u \in Users : request' = [request EXCEPT ![r] = At("update", u, request[r].inst)]
         \/ \E i \in Installations : request' = [request EXCEPT ![r] = At("find", NoUser, i)]
  BY DEF ListRepos, UserByGithubId, SetInstallationIdForUser, ConfigureInstallation, caches, OwnInv
<1>2. request[r].pc \notin CacheSteps
  BY <1>1, NoRequestReads DEF CacheSteps
<1>3. CASE Ends(r)
  BY <1>1, <1>2, <1>3, OutsideKeepsSync, NoRequestReads DEF Ends, CacheSteps
<1>4. ASSUME NEW u \in Users, request' = [request EXCEPT ![r] = At("update", u, request[r].inst)]
      PROVE  SyncInv'
  <2> DEFINE q == At("update", u, request[r].inst)
  <2>1. q.pc \notin CacheSteps
    BY DEF At, CacheSteps
  <2>2. request' = [request EXCEPT ![r] = q]
    BY <1>4
  <2> HIDE DEF q
  <2>3. QED
    BY <1>1, <1>2, <2>1, <2>2, OutsideKeepsSync
<1>5. ASSUME NEW i \in Installations, request' = [request EXCEPT ![r] = At("find", NoUser, i)]
      PROVE  SyncInv'
  <2> DEFINE q == At("find", NoUser, i)
  <2>1. q.pc \notin CacheSteps
    BY DEF At, CacheSteps
  <2>2. request' = [request EXCEPT ![r] = q]
    BY <1>5
  <2> HIDE DEF q
  <2>3. QED
    BY <1>1, <1>2, <2>1, <2>2, OutsideKeepsSync
<1>6. QED
  BY <1>1, <1>3, <1>4, <1>5

\* Empty maps and no requests, at the start and after a restart
LEMMA EmptyInSync ==
  ASSUME clients = [i \in Installations |-> None], tokens = clients,
         request = [r \in Requests |-> NoRequest]
  PROVE  SyncInv
<1>1. \A r \in Requests, i \in Installations : ~InCache(r, i)
  BY NoRequestReads DEF InCache, CacheSteps
<1>2. QED
  BY <1>1 DEF SyncInv, OneAtATime, MapsAsLeft

LEMMA CrashSync ==
  ASSUME Crash
  PROVE  SyncInv'
<1>1. /\ clients' = [i \in Installations |-> None] /\ tokens' = clients'
      /\ request' = [r \in Requests |-> NoRequest]
  BY DEF Crash
<1>2. \A r \in Requests, i \in Installations : ~InCache(r, i)'
  BY <1>1, NoRequestReads DEF InCache, CacheSteps
<1>3. QED
  BY <1>1, <1>2 DEF SyncInv, OneAtATime, MapsAsLeft

LEMMA StepSync == OwnInv /\ SyncInv /\ [Next]_vars => SyncInv'
<1> SUFFICES ASSUME OwnInv, SyncInv, [Next]_vars PROVE SyncInv'
  OBVIOUS
<1>1. ASSUME NEW r \in Requests, Starts(r) \/ Step(r) PROVE SyncInv'
  BY <1>1, StartSync, LookupSync, DeletionSync, CreateSync, StoreSync, OutsideSync DEF Starts, Step
<1>2. ASSUME \/ \E t \in Tokens : Expire(t)
             \/ \E i \in Installations : Uninstall(i)
             \/ UNCHANGED vars
      PROVE  SyncInv'
  BY <1>2, SyncKept DEF Expire, Uninstall, vars, caches
<1>3. QED
  BY <1>1, <1>2, CrashSync DEF Next

\* As long as no two requests look the same installation up at once, its two maps
\* agree, and no request finds a client without its token: for any number of
\* requests, failing calls, expiries, removals and restarts.
THEOREM MapsStayInStep == Spec => []MapsInStep
<1>1. Init => SyncInv
  BY EmptyInSync DEF Init
<1>2. Spec => []SyncInv
  BY <1>1, StepSync, OwnInvariant, PTL DEF Spec
<1>3. ASSUME OwnInv, SyncInv PROVE MapsInStep
  <2> SUFFICES ASSUME NEW i \in Installations \ overlapped
               PROVE  /\ (\A r \in Requests : ~InCache(r, i)) => clients[i] = tokens[i]
                      /\ \A r \in Requests :
                           InCache(r, i) /\ request[r].pc = "token" => request[r].client = tokens[i]
    BY DEF MapsInStep
  <2>1. (\A r \in Requests : ~InCache(r, i)) => clients[i] = tokens[i]
    BY <1>3 DEF SyncInv, MapsAsLeft
  <2>2. ASSUME NEW r \in Requests, InCache(r, i), request[r].pc = "token"
        PROVE  request[r].client = tokens[i]
    <3>1. AsLeft(request[r], clients[i], tokens[i])
      BY <1>3, <2>2 DEF SyncInv, MapsAsLeft
    <3>2. QED
      BY <2>2, <3>1 DEF AsLeft
  <2>3. QED
    BY <2>1, <2>2
<1>4. QED
  BY <1>2, <1>3, OwnInvariant, PTL
================================================================================
