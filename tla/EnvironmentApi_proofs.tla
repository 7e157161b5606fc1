------------------------ MODULE EnvironmentApi_proofs ------------------------
(***************************************************************************)
(* Theorems about EnvironmentApi: type correctness, that it implements     *)
(* AccessLists, and that only the owner's requests change a list.          *)
(***************************************************************************)
EXTENDS EnvironmentApi, SequenceTheorems, WellFoundedInduction, TLAPS

-----------------------------------------------------------------------------
(* Removal of the first entry *)

LEMMA SmallestIsElement ==
  ASSUME NEW T, T \subseteq Nat, T # {}
  PROVE  Min(T) \in T
<1>1. PICK x \in T : \A y \in T : ~(<<y, x>> \in OpToRel(<, Nat))
  BY NatLessThanWellFounded, WFMin
<1>2. ASSUME NEW y \in T, y < x PROVE FALSE
  <2>1. <<y, x>> \in {p \in Nat \X Nat : p[1] < p[2]}
    BY <1>2
  <2>2. <<y, x>> \in OpToRel(<, Nat)
    BY <2>1 DEF OpToRel
  <2>3. QED
    BY <1>1, <2>2
<1>4. \A y \in T : x =< y
  BY <1>2
<1>3. QED
  BY <1>4 DEF Min

\* Removal of an entry leaves a list of users.
LEMMA RemoveFirstType ==
  ASSUME NEW S, NEW s \in Seq(S), NEW e
  PROVE  RemoveFirst(s, e) \in Seq(S)
<1> DEFINE T == {i \in 1..Len(s) : s[i] = e}
<1>1. CASE \E i \in 1..Len(s) : s[i] = e
  <2>1. T # {} /\ T \subseteq Nat
    BY <1>1
  <2>2. Min(T) \in T
    BY <2>1, SmallestIsElement
  <2>3. PICK i \in 1..Len(s) : i = Min(T)
    BY <2>2
  <2>4. RemoveFirst(s, e) = SubSeq(s, 1, i - 1) \o SubSeq(s, i + 1, Len(s))
    BY <1>1, <2>1, <2>3 DEF RemoveFirst, RemoveAt, SelectInSeq
  <2>5. SubSeq(s, 1, i - 1) \in Seq(S) /\ SubSeq(s, i + 1, Len(s)) \in Seq(S)
    <3>1. \A j \in 1..(i - 1) \cup (i + 1)..Len(s) : s[j] \in S
      BY <2>3
    <3>2. QED
      BY <2>3, <3>1, SubSeqProperties
  <2>6. QED
    BY <2>4, <2>5
<1>2. CASE ~\E i \in 1..Len(s) : s[i] = e
  BY <1>2 DEF RemoveFirst
<1>3. QED
  BY <1>1, <1>2

-----------------------------------------------------------------------------
(* The inductive invariant *)

\* Of an environment that is gone, nothing is left.
GoneIsNothing == \A e \in Environments : ~env[e].exists => env[e] = NoEnvironment

\* A request that has read: the copy was the caller's, and a user to be added was
\* not on its list.
HasRead(r) ==
  /\ r.name \in Environments /\ r.copy.exists /\ r.copy.owner = r.caller
  /\ r.step \in {"add", "remove"} => r.user \in Users
  /\ r.step = "add" => r.user \notin Range(r.copy.users)

RequestsRead == \A q \in Requests : request[q].step # "idle" => HasRead(request[q])

CurrentCopies == \A q \in Requests : request[q].cur => request[q].copy = env[request[q].name]

Parts ==
  /\ env \in [Environments -> EnvironmentObjects]
  /\ request \in [Requests -> RequestRecords]
  /\ CurrentCopies /\ GoneIsNothing /\ RequestsRead

ApiInv == Parts /\ uids \in 0..MaxUids /\ apiErrors \in 0..MaxApiErrors

LEMMA NothingType == NoEnvironment \in EnvironmentObjects /\ NoRequest \in RequestRecords
<1>1. NoEnvironment \in EnvironmentObjects
  BY DEF NoEnvironment, EnvironmentObjects
<1>2. QED
  BY <1>1 DEF NoRequest, RequestRecords

\* Version o of e is stored; some requests may end.
LEMMA StoredParts ==
  ASSUME Parts, NEW e \in Environments, NEW o \in EnvironmentObjects,
         ~o.exists => o = NoEnvironment, env' = [env EXCEPT ![e] = o],
         request' = [q \in Requests |-> request'[q]],
         \A q \in Requests : request'[q] \in {Stored(e, o)[q], NoRequest}
  PROVE  Parts'
<1>1. env' \in [Environments -> EnvironmentObjects] /\ GoneIsNothing'
  BY DEF Parts, GoneIsNothing
<1>2. ASSUME NEW q \in Requests
      PROVE  /\ request'[q] \in RequestRecords
             /\ request'[q].cur => request'[q].copy = env'[request'[q].name]
             /\ request'[q].step # "idle" => HasRead(request'[q])
  <2>1. CASE request'[q] = NoRequest
    BY <2>1, NothingType DEF NoRequest
  <2>2. CASE request'[q] = Stored(e, o)[q]
    <3>1. request[q] \in RequestRecords /\ (request[q].step # "idle" => HasRead(request[q]))
      BY DEF Parts, RequestsRead
    <3>2. /\ request'[q] \in RequestRecords
          /\ request'[q].cur => request[q].cur /\ (request[q].name # e \/ o = env[e])
          /\ request'[q].step = request[q].step /\ request'[q].caller = request[q].caller
          /\ request'[q].name = request[q].name /\ request'[q].user = request[q].user
          /\ request'[q].copy = request[q].copy
      BY <2>2, <3>1 DEF Stored, RequestRecords
    <3>3. request'[q].cur => request'[q].copy = env'[request'[q].name]
      BY <3>2 DEF Parts, CurrentCopies, RequestRecords
    <3>4. QED
      BY <3>1, <3>2, <3>3 DEF HasRead
  <2>3. QED
    BY <1>2, <2>1, <2>2
<1>3. QED
  BY <1>1, <1>2 DEF Parts, CurrentCopies, RequestsRead

LEMMA EndsWithParts ==
  ASSUME Parts, NEW q \in Requests, NEW e \in Environments, NEW o \in EnvironmentObjects,
         ~o.exists => o = NoEnvironment, EndsWith(q, e, o)
  PROVE  Parts'
<1>1. request' = [[Stored(e, o) EXCEPT ![q] = NoRequest] EXCEPT ![q] = NoRequest]
  BY DEF EndsWith, Stored
<1>2. \A p \in Requests : request'[p] \in {Stored(e, o)[p], NoRequest}
  BY DEF EndsWith, Stored
<1>3. request' = [p \in Requests |-> request'[p]]
  BY DEF EndsWith, Stored
<1>4. env' = [env EXCEPT ![e] = o]
  BY DEF EndsWith
<1>5. QED
  BY <1>2, <1>3, <1>4, StoredParts

\* Some requests end without a write.
LEMMA EndsParts ==
  ASSUME Parts, UNCHANGED env,
         request' = [q \in Requests |-> request'[q]],
         \A q \in Requests : request'[q] \in {request[q], NoRequest}
  PROVE  Parts'
<1>1. ASSUME NEW q \in Requests
      PROVE  /\ request'[q] \in RequestRecords
             /\ request'[q].cur => request'[q].copy = env'[request'[q].name]
             /\ request'[q].step # "idle" => HasRead(request'[q])
  <2>1. CASE request'[q] = NoRequest
    BY <2>1, NothingType DEF NoRequest
  <2>2. CASE request'[q] = request[q]
    BY <2>2 DEF Parts, CurrentCopies, RequestsRead
  <2>3. QED
    BY <1>1, <2>1, <2>2
<1>2. QED
  BY <1>1 DEF Parts, CurrentCopies, RequestsRead, GoneIsNothing

-----------------------------------------------------------------------------
(* Every step preserves it *)

LEMMA ErrorsBounded ==
  ASSUME apiErrors \in 0..MaxApiErrors, Succeeds \/ ApiError
  PROVE  apiErrors' \in 0..MaxApiErrors
BY ApiBoundsAssumption DEF Succeeds, ApiError

LEMMA ReadsInv ==
  ASSUME ApiInv, NEW q \in Requests, NEW c \in Callers, NEW e \in Environments,
         NEW s \in {"add", "remove", "delete"}, NEW u \in Users \cup {NoUser},
         s \in {"add", "remove"} => u \in Users, s = "add" => u \notin Range(env[e].users),
         Reads(q, s, c, e, u)
  PROVE  ApiInv'
<1> DEFINE r == [step |-> s, caller |-> c, name |-> e, user |-> u, copy |-> env[e], cur |-> TRUE]
<1>1. request' = [request EXCEPT ![q] = r] /\ UNCHANGED <<env, uids, apiErrors>>
  BY DEF Reads
<1>2. r \in RequestRecords
  BY DEF ApiInv, Parts, RequestRecords
<1>3. env[e].exists /\ env[e].owner = c
  BY DEF Reads
<1>4. HasRead(r)
  BY <1>3 DEF HasRead
<1>5. r.copy = env[r.name]
  OBVIOUS
<1> HIDE DEF r
<1>6. Parts'
  BY <1>1, <1>2, <1>4, <1>5 DEF ApiInv, Parts, CurrentCopies, GoneIsNothing, RequestsRead
<1>7. QED
  BY <1>1, <1>6 DEF ApiInv

\* What a request makes of its copy is an environment.
LEMMA AccessListType ==
  ASSUME Parts, NEW q \in Requests, request[q].step \in {"add", "remove"}
  PROVE  LET r == request[q]
             o == [r.copy EXCEPT !.users = AccessList(r)]
         IN  r.name \in Environments /\ o \in EnvironmentObjects /\ o.exists
<1> DEFINE r == request[q]
<1>1. HasRead(r) /\ r \in RequestRecords
  BY DEF Parts, RequestsRead
<1>2. r.user \in Users /\ r.copy \in EnvironmentObjects /\ r.copy.exists
  BY <1>1 DEF HasRead, RequestRecords
<1>3. AccessList(r) \in Seq(Users)
  BY <1>2, RemoveFirstType DEF AccessList, EnvironmentObjects
<1>4. QED
  BY <1>1, <1>2, <1>3 DEF HasRead, EnvironmentObjects

LEMMA UpdateInv ==
  ASSUME ApiInv, NEW q \in Requests, UpdatePreviewEnvironment(q)
  PROVE  ApiInv'
<1> DEFINE r == request[q]
           new == [r.copy EXCEPT !.users = AccessList(r)]
<1>1. r.step \in {"add", "remove"} /\ UNCHANGED uids /\ (Succeeds \/ ApiError)
  BY DEF UpdatePreviewEnvironment
<1>2. EndsWith(q, r.name, new) \/ Ends(q)
  BY DEF UpdatePreviewEnvironment
<1>3. r.name \in Environments /\ new \in EnvironmentObjects /\ new.exists
  BY <1>1, AccessListType DEF ApiInv
<1> HIDE DEF new
<1>4. CASE EndsWith(q, r.name, new)
  BY <1>1, <1>3, <1>4, EndsWithParts, ErrorsBounded DEF ApiInv
<1>5. CASE Ends(q)
  BY <1>1, <1>5, EndsParts, ErrorsBounded DEF ApiInv, Parts, Ends
<1>6. QED
  BY <1>2, <1>4, <1>5

LEMMA DeletedType ==
  ASSUME NEW o \in EnvironmentObjects, o.exists
  PROVE  Deleted(o) \in EnvironmentObjects /\ (~Deleted(o).exists => Deleted(o) = NoEnvironment)
<1>1. [o EXCEPT !.deleting = TRUE] \in EnvironmentObjects /\ [o EXCEPT !.deleting = TRUE].exists
  BY DEF EnvironmentObjects
<1>2. QED
  BY <1>1, NothingType DEF Deleted

LEMMA DeleteInv ==
  ASSUME ApiInv, NEW q \in Requests, DeletePreviewEnvironment(q)
  PROVE  ApiInv'
<1> DEFINE e == request[q].name
<1>1. request[q].step = "delete" /\ UNCHANGED uids /\ (Succeeds \/ ApiError)
  BY DEF DeletePreviewEnvironment
<1>2. (env[e].exists /\ EndsWith(q, e, Deleted(env[e]))) \/ Ends(q)
  BY DEF DeletePreviewEnvironment
<1>3. e \in Environments /\ env[e] \in EnvironmentObjects
  BY <1>1 DEF ApiInv, Parts, RequestsRead, HasRead
<1>4. CASE env[e].exists /\ EndsWith(q, e, Deleted(env[e]))
  BY <1>1, <1>3, <1>4, DeletedType, EndsWithParts, ErrorsBounded DEF ApiInv
<1>5. CASE Ends(q)
  BY <1>1, <1>5, EndsParts, ErrorsBounded DEF ApiInv, Parts, Ends
<1>6. QED
  BY <1>2, <1>4, <1>5

LEMMA PostInv ==
  ASSUME ApiInv, NEW c \in Callers, NEW e \in Environments, NEW list \in PostedLists,
         PostEnvironment(c, e, list)
  PROVE  ApiInv'
<1> DEFINE o == [NoEnvironment EXCEPT !.exists = TRUE, !.uid = uids + 1,
                                      !.owner = c, !.users = list]
<1>1. /\ env' = [env EXCEPT ![e] = o] /\ request' = Stored(e, env'[e])
      /\ uids < MaxUids /\ uids' = uids + 1 /\ UNCHANGED apiErrors
  BY DEF PostEnvironment
<1>2. o \in EnvironmentObjects /\ o.exists
  <2>2. list \in Seq(Users)
    BY PostedListsAssumption
  <2>3. uids + 1 \in Nat
    BY ApiBoundsAssumption DEF ApiInv
  <2>4. QED
    BY <2>2, <2>3, NothingType DEF EnvironmentObjects
<1> HIDE DEF o
<1>3. request' = Stored(e, o)
  BY <1>1 DEF ApiInv, Parts
<1>4. \A q \in Requests : request'[q] \in {Stored(e, o)[q], NoRequest}
  BY <1>3
<1>5. request' = [q \in Requests |-> request'[q]]
  BY <1>3 DEF Stored
<1>6. Parts'
  BY <1>1, <1>2, <1>4, <1>5, StoredParts DEF ApiInv
<1>7. QED
  BY <1>1, <1>6, ApiBoundsAssumption DEF ApiInv

LEMMA FinalizerInv ==
  ASSUME ApiInv, NEW e \in Environments, AddFinalizer(e) \/ RemoveFinalizer(e)
  PROVE  ApiInv'
<1> DEFINE o == env'[e]
<1>1. UNCHANGED <<uids, apiErrors>> /\ request' = Stored(e, o)
  BY DEF AddFinalizer, RemoveFinalizer
<1>2. env' = [env EXCEPT ![e] = o] /\ o \in EnvironmentObjects /\ (~o.exists => o = NoEnvironment)
  <2>1. CASE AddFinalizer(e)
    BY <2>1 DEF AddFinalizer, ApiInv, Parts, EnvironmentObjects
  <2>2. CASE RemoveFinalizer(e)
    BY <2>2, NothingType DEF RemoveFinalizer, ApiInv, Parts
  <2>3. QED
    BY <2>1, <2>2
<1> HIDE DEF o
<1>3. QED
  BY <1>1, <1>2, StoredParts DEF ApiInv, Stored

LEMMA RequestInv ==
  ASSUME ApiInv, NEW q \in Requests, Request(q)
  PROVE  ApiInv'
<1>1. CASE \E c \in Callers, e \in Environments : DeleteEnvironment(q, c, e)
  BY <1>1, ReadsInv DEF DeleteEnvironment
<1>2. CASE \E c \in Callers, e \in Environments, u \in Users : AddUser(q, c, e, u)
  BY <1>2, ReadsInv DEF AddUser
<1>3. CASE \E c \in Callers, e \in Environments, u \in Users : RemoveUser(q, c, e, u)
  BY <1>3, ReadsInv DEF RemoveUser
<1>4. QED
  BY <1>1, <1>2, <1>3, UpdateInv, DeleteInv DEF Request

LEMMA StepInv ==
  ASSUME ApiInv, [ApiNext]_apiVars
  PROVE  ApiInv'
<1>1. CASE RequestsLost
  BY <1>1, EndsParts DEF RequestsLost, ApiInv
<1>2. CASE UNCHANGED apiVars
  BY <1>2 DEF apiVars, ApiInv, Parts, CurrentCopies, GoneIsNothing, RequestsRead
<1>3. QED
  BY <1>1, <1>2, RequestInv, PostInv, FinalizerInv DEF ApiNext, ApiStep

LEMMA InitInv == ApiInit => ApiInv
<1> SUFFICES ASSUME ApiInit PROVE ApiInv
  OBVIOUS
<1>1. \A q \in Requests : request[q] = NoRequest
  BY DEF ApiInit
<1>2. \A e \in Environments : env[e] = NoEnvironment
  BY DEF ApiInit
<1>3. ~NoRequest.cur /\ NoRequest.step = "idle"
  BY DEF NoRequest
<1>4. CurrentCopies /\ GoneIsNothing /\ RequestsRead
  BY <1>1, <1>2, <1>3 DEF CurrentCopies, GoneIsNothing, RequestsRead
<1>5. QED
  BY <1>4, NothingType, ApiBoundsAssumption DEF ApiInit, ApiInv, Parts

\* Stored environments and the copies of concurrent requests are related by ApiInv
\* in every reachable state.
THEOREM ApiInvariant == ApiSpec => []ApiInv
BY InitInv, StepInv, PTL DEF ApiSpec

\* Every state of the requests and environments is of its type, and what a request
\* holds as current is what the API server has stored.
THEOREM ApiTypeCorrect == ApiSpec => []ApiTypeOK
<1>1. ApiInv => ApiTypeOK
  BY DEF ApiInv, Parts, CurrentCopies, ApiTypeOK
<1>2. QED
  BY <1>1, ApiInvariant, PTL

-----------------------------------------------------------------------------
(* Lists and owners *)

\* Owner and list of an environment, as AccessLists has them
Access(o) == [exists |-> o.exists, owner |-> o.owner, users |-> o.users]

AccessOfAll == [e \in Environments |-> [exists |-> env[e].exists, owner |-> env[e].owner,
                                        users |-> env[e].users]]

\* The step at e that the storing of version o of e means to AccessLists
LEMMA AccessStored ==
  ASSUME Parts, NEW e \in Environments, NEW o, env' = [env EXCEPT ![e] = o]
  PROVE  AccessOfAll' = [AccessOfAll EXCEPT ![e] = Access(o)]
BY DEF Parts, AccessOfAll, Access

LEMMA NoAccessEnvironment == Access(NoEnvironment) = Lists!NoAccess
BY DEF Access, NoEnvironment, Lists!NoAccess

LEMMA AccessOfOne ==
  ASSUME NEW e \in Environments
  PROVE  AccessOfAll[e] = Access(env[e])
BY DEF AccessOfAll, Access

LEMMA AccessOfChanged ==
  ASSUME NEW o \in EnvironmentObjects, NEW list
  PROVE  Access([o EXCEPT !.users = list]) = [exists |-> o.exists, owner |-> o.owner, users |-> list]
BY DEF Access, EnvironmentObjects

LEMMA ListChanged ==
  ASSUME NEW e \in Environments, NEW list
  PROVE  [AccessOfAll EXCEPT ![e] =
             [exists |-> env[e].exists, owner |-> env[e].owner, users |-> list]]
           = [AccessOfAll EXCEPT ![e].users = list]
BY DEF AccessOfAll

LEMMA GrantStep ==
  ASSUME NEW e \in Environments, NEW u \in Users, AccessOfAll[e].exists,
         u \notin Range(AccessOfAll[e].users),
         AccessOfAll' = [AccessOfAll EXCEPT ![e].users = Append(@, u)]
  PROVE  Lists!ListNext
<1>1. Lists!Grant(e, u)
  BY DEF Lists!Grant, AccessOfAll, Range, Lists!Range
<1>2. QED
  BY <1>1 DEF Lists!ListNext

LEMMA SameRemoveFirst ==
  ASSUME NEW s, NEW u
  PROVE  Lists!RemoveFirst(s, u) = RemoveFirst(s, u)
BY DEF RemoveFirst, RemoveAt, SelectInSeq, Min,
       Lists!RemoveFirst, Lists!RemoveAt, Lists!SelectInSeq, Lists!Min

LEMMA WithdrawStep ==
  ASSUME NEW e \in Environments, NEW u \in Users, AccessOfAll[e].exists,
         AccessOfAll' = [AccessOfAll EXCEPT ![e].users = RemoveFirst(@, u)]
  PROVE  Lists!ListNext
<1>1. Lists!Withdraw(e, u)
  BY SameRemoveFirst DEF Lists!Withdraw, AccessOfAll
<1>2. QED
  BY <1>1 DEF Lists!ListNext

\* An update grants or withdraws.
LEMMA UpdateLists ==
  ASSUME ApiInv, NEW q \in Requests, UpdatePreviewEnvironment(q), UNCHANGED env => FALSE
  PROVE  Lists!ListNext
<1> DEFINE r == request[q]
           new == [r.copy EXCEPT !.users = AccessList(r)]
<1>1. r.step \in {"add", "remove"} /\ r.cur /\ env' = [env EXCEPT ![r.name] = new]
  BY DEF UpdatePreviewEnvironment, EndsWith, Ends
<1>2. HasRead(r) /\ r.copy = env[r.name]
  BY <1>1 DEF ApiInv, Parts, CurrentCopies, RequestsRead
<1>3. PICK e \in Environments, u \in Users : e = r.name /\ u = r.user
  BY <1>1, <1>2 DEF HasRead
<1>4. env[e] \in EnvironmentObjects /\ env[e].exists
  BY <1>2, <1>3 DEF ApiInv, Parts, HasRead
<1>5. AccessOfAll' = [AccessOfAll EXCEPT ![e] = Access(new)]
  BY <1>1, <1>3, AccessStored DEF ApiInv
<1>6. AccessOfAll[e].exists /\ AccessOfAll[e].users = r.copy.users
  <2> HIDE DEF new
  <2>1. QED
    BY <1>2, <1>3, <1>4 DEF AccessOfAll
<1>7. new = [env[e] EXCEPT !.users = AccessList(r)]
  BY <1>2, <1>3
<1>8. AccessOfAll' = [AccessOfAll EXCEPT ![e].users = AccessList(r)]
  <2> HIDE DEF new
  <2> DEFINE list == AccessList(r)
  <2>1. Access(new) = [exists |-> env[e].exists, owner |-> env[e].owner, users |-> list]
    <3>1. Access([env[e] EXCEPT !.users = list])
            = [exists |-> env[e].exists, owner |-> env[e].owner, users |-> list]
      <4> HIDE DEF list
      <4>1. QED
        BY <1>4, AccessOfChanged
    <3>2. QED
      BY <1>7, <3>1
  <2>2. AccessOfAll' = [AccessOfAll EXCEPT ![e].users = list]
    <3> HIDE DEF list
    <3> DEFINE a == [exists |-> env[e].exists, owner |-> env[e].owner, users |-> list]
    <3>1. [AccessOfAll EXCEPT ![e] = a] = [AccessOfAll EXCEPT ![e].users = list]
      BY ListChanged
    <3>2. AccessOfAll' = [AccessOfAll EXCEPT ![e] = a]
      <4> HIDE DEF a
      <4>1. QED
        BY <1>5, <2>1 DEF a
    <3> HIDE DEF a
    <3>3. QED
      BY <3>1, <3>2
  <2>3. QED
    BY <2>2
<1> HIDE DEF new
<1>9. CASE r.step = "add"
  <2>1. u \notin Range(AccessOfAll[e].users) /\ AccessList(r) = Append(AccessOfAll[e].users, u)
    BY <1>2, <1>3, <1>6, <1>9 DEF HasRead, AccessList
  <2>2. QED
    BY <1>6, <1>8, <2>1, GrantStep
<1>10. CASE r.step = "remove"
  <2>1. AccessList(r) = RemoveFirst(AccessOfAll[e].users, u)
    BY <1>3, <1>6, <1>10 DEF AccessList
  <2>2. QED
    BY <1>6, <1>8, <2>1, WithdrawStep
<1>11. QED
  BY <1>1, <1>9, <1>10

\* A deletion that takes effect at once removes the list.
LEMMA GoneStep ==
  ASSUME Parts, NEW e \in Environments, env' = [env EXCEPT ![e] = NoEnvironment]
  PROVE  Lists!ListNext
<1>1. AccessOfAll' = [AccessOfAll EXCEPT ![e] = Lists!NoAccess]
  BY AccessStored, NoAccessEnvironment
<1>2. Lists!Delete(e)
  BY <1>1 DEF Lists!Delete, AccessOfAll
<1>3. QED
  BY <1>2 DEF Lists!ListNext

\* Marks of the deletion and of the controller leave the lists alone.
LEMMA MarkStep ==
  ASSUME Parts, NEW e \in Environments, NEW o, Access(o) = Access(env[e]),
         env' = [env EXCEPT ![e] = o]
  PROVE  AccessOfAll' = AccessOfAll
<1>1. AccessOfAll' = [AccessOfAll EXCEPT ![e] = Access(o)]
  BY AccessStored
<1>2. Access(o) = AccessOfAll[e]
  BY AccessOfOne
<1>3. AccessOfAll = [d \in Environments |-> AccessOfAll[d]]
  BY DEF AccessOfAll
<1>4. QED
  BY <1>1, <1>2, <1>3

LEMMA MarkedAccess ==
  ASSUME NEW o \in EnvironmentObjects
  PROVE  /\ Access([o EXCEPT !.deleting = TRUE]) = Access(o)
         /\ Access([o EXCEPT !.finalizer = TRUE]) = Access(o)
<1>1. Access([o EXCEPT !.deleting = TRUE]) = Access(o)
  BY DEF Access, EnvironmentObjects
<1>2. Access([o EXCEPT !.finalizer = TRUE]) = Access(o)
  BY DEF Access, EnvironmentObjects
<1>3. QED
  BY <1>1, <1>2

LEMMA DeleteLists ==
  ASSUME ApiInv, NEW q \in Requests, DeletePreviewEnvironment(q), UNCHANGED env => FALSE
  PROVE  Lists!ListNext \/ AccessOfAll' = AccessOfAll
<1>1. PICK e \in Environments : e = request[q].name
  BY DEF DeletePreviewEnvironment, ApiInv, Parts, RequestsRead, HasRead
<1>2. env' = [env EXCEPT ![e] = Deleted(env[e])]
  BY <1>1 DEF DeletePreviewEnvironment, EndsWith, Ends
<1>3. env[e] \in EnvironmentObjects
  BY DEF ApiInv, Parts
<1>4. CASE env[e].finalizer
  BY <1>2, <1>3, <1>4, MarkStep, MarkedAccess DEF Deleted, ApiInv
<1>5. CASE ~env[e].finalizer
  BY <1>2, <1>5, GoneStep DEF Deleted, ApiInv
<1>6. QED
  BY <1>4, <1>5

LEMMA PostLists ==
  ASSUME ApiInv, NEW c \in Callers, NEW e \in Environments, NEW list \in PostedLists,
         PostEnvironment(c, e, list)
  PROVE  Lists!ListNext
<1> DEFINE o == [NoEnvironment EXCEPT !.exists = TRUE, !.uid = uids + 1,
                                      !.owner = c, !.users = list]
<1>1. env' = [env EXCEPT ![e] = o] /\ ~env[e].exists
  BY DEF PostEnvironment
<1>2. Access(o) = [exists |-> TRUE, owner |-> c, users |-> list]
  BY NothingType DEF Access, EnvironmentObjects
<1> HIDE DEF o
<1>3. AccessOfAll' = [AccessOfAll EXCEPT ![e] = [exists |-> TRUE, owner |-> c, users |-> list]]
  BY <1>1, <1>2, AccessStored DEF ApiInv
<1>4. ~AccessOfAll[e].exists
  BY <1>1 DEF AccessOfAll
<1>5. Lists!Create(e, c, list)
  BY <1>3, <1>4 DEF Lists!Create, AccessOfAll
<1>6. QED
  BY <1>5 DEF Lists!ListNext

LEMMA FinalizerLists ==
  ASSUME ApiInv, NEW e \in Environments, AddFinalizer(e) \/ RemoveFinalizer(e)
  PROVE  Lists!ListNext \/ AccessOfAll' = AccessOfAll
<1>1. CASE AddFinalizer(e)
  <2>1. env[e] \in EnvironmentObjects /\ env' = [env EXCEPT ![e] = [env[e] EXCEPT !.finalizer = TRUE]]
    BY <1>1 DEF AddFinalizer, ApiInv, Parts
  <2>2. QED
    BY <2>1, MarkStep, MarkedAccess DEF ApiInv
<1>2. CASE RemoveFinalizer(e)
  BY <1>2, GoneStep DEF RemoveFinalizer, ApiInv
<1>3. QED
  BY <1>1, <1>2

LEMMA StepLists ==
  ASSUME ApiInv, [ApiNext]_apiVars
  PROVE  Lists!ListNext \/ AccessOfAll' = AccessOfAll
<1>1. CASE UNCHANGED env
  BY <1>1 DEF AccessOfAll
<1>2. CASE ~UNCHANGED env
  <2>1. CASE \E q \in Requests : Request(q)
    <3>1. PICK q \in Requests : UpdatePreviewEnvironment(q) \/ DeletePreviewEnvironment(q)
      BY <1>2, <2>1 DEF Request, DeleteEnvironment, AddUser, RemoveUser, Reads
    <3>2. QED
      BY <1>2, <3>1, UpdateLists, DeleteLists
  <2>2. QED
    BY <1>2, <2>1, PostLists, FinalizerLists DEF ApiNext, ApiStep, RequestsLost, apiVars
<1>3. QED
  BY <1>1, <1>2

\* Requests that read and then write, in any order and with any failure, change
\* owners and lists as AccessLists promises: one whole request at a time.
THEOREM ApiImplementsAccessLists == ApiSpec => ImplementsAccessLists
<1>1. ApiInit => Lists!ListInit
  <2> SUFFICES ASSUME ApiInit PROVE Lists!ListInit
    OBVIOUS
  <2>1. AccessOfAll = [e \in Environments |-> Lists!NoAccess]
    BY NoAccessEnvironment DEF ApiInit, AccessOfAll, Access
  <2>2. QED
    BY <2>1 DEF Lists!ListInit, AccessOfAll
<1>2. ApiInv /\ [ApiNext]_apiVars =>
        Lists!ListNext \/ UNCHANGED [e \in Environments |->
          [exists |-> env[e].exists, owner |-> env[e].owner, users |-> env[e].users]]
  BY StepLists DEF AccessOfAll
<1>3. QED
  BY <1>1, <1>2, ApiInvariant, PTL DEF ApiSpec, ImplementsAccessLists, Lists!ListSpec

\* A list changes only by a request of the environment's owner that has read this
\* environment: the version it writes over is the version it decided on.
THEOREM ListsChangeForOwners == ApiSpec => OwnersDecide
<1> DEFINE Decided ==
      \A e \in Environments :
        (env[e].exists /\ env'[e].exists /\ env'[e].users # env[e].users) =>
          \E q \in Requests :
            /\ request[q].name = e /\ request'[q] = NoRequest
            /\ request[q].caller = env[e].owner /\ request[q].copy.uid = env[e].uid
<1>1. ASSUME ApiInv, [ApiNext]_apiVars, NEW e \in Environments,
             env[e].exists, env'[e].exists, env'[e].users # env[e].users
      PROVE  \E q \in Requests :
               /\ request[q].name = e /\ request'[q] = NoRequest
               /\ request[q].caller = env[e].owner /\ request[q].copy.uid = env[e].uid
  <2>1. ~UNCHANGED env
    BY <1>1
  <2>2. CASE \E q \in Requests : UpdatePreviewEnvironment(q)
    <3>1. PICK q \in Requests : UpdatePreviewEnvironment(q)
      BY <2>2
    <3>2. /\ request[q].cur /\ request[q].step # "idle" /\ request'[q] = NoRequest
          /\ \E o : env' = [env EXCEPT ![request[q].name] = o]
      BY <2>1, <3>1 DEF UpdatePreviewEnvironment, EndsWith, Ends, Stored
    <3>3. request[q].name = e
      BY <1>1, <3>2 DEF ApiInv, Parts
    <3>4. request[q].copy = env[e] /\ HasRead(request[q])
      BY <1>1, <3>2, <3>3 DEF ApiInv, Parts, CurrentCopies, RequestsRead
    <3>5. QED
      BY <3>2, <3>3, <3>4 DEF HasRead
  <2>3. CASE \E q \in Requests : DeletePreviewEnvironment(q)
    <3>1. PICK q \in Requests : DeletePreviewEnvironment(q)
      BY <2>3
    <3>2. env' = [env EXCEPT ![request[q].name] = Deleted(env[request[q].name])]
      BY <2>1, <3>1 DEF DeletePreviewEnvironment, EndsWith, Ends
    <3>3. env[e] \in EnvironmentObjects
      BY <1>1 DEF ApiInv, Parts
    <3>4. env'[e] = Deleted(env[e])
      BY <1>1, <3>2 DEF ApiInv, Parts
    <3>5. ~NoEnvironment.exists
      BY DEF NoEnvironment
    <3>6. env'[e].users = env[e].users
      BY <1>1, <3>3, <3>4, <3>5 DEF Deleted, EnvironmentObjects
    <3>7. QED
      BY <1>1, <3>6
  <2>4. CASE \E d \in Environments :
               \/ \E c \in Callers, list \in PostedLists : PostEnvironment(c, d, list)
               \/ AddFinalizer(d) \/ RemoveFinalizer(d)
    <3>1. PICK d \in Environments :
            \/ \E c \in Callers, list \in PostedLists : PostEnvironment(c, d, list)
            \/ AddFinalizer(d) \/ RemoveFinalizer(d)
      BY <2>4
    <3>2. env[d] \in EnvironmentObjects
      BY <1>1 DEF ApiInv, Parts
    <3>3. CASE \E c \in Callers, list \in PostedLists : PostEnvironment(c, d, list)
      BY <1>1, <3>3 DEF PostEnvironment, ApiInv, Parts
    <3>4. CASE AddFinalizer(d)
      <4>1. env' = [env EXCEPT ![d] = [env[d] EXCEPT !.finalizer = TRUE]]
        BY <3>4 DEF AddFinalizer
      <4>2. Access([env[d] EXCEPT !.finalizer = TRUE]) = Access(env[d])
        BY <3>2, MarkedAccess
      <4>3. [env[d] EXCEPT !.finalizer = TRUE].users = env[d].users
        BY <4>2 DEF Access
      <4>4. QED
        BY <1>1, <4>1, <4>3 DEF ApiInv, Parts
    <3>5. CASE RemoveFinalizer(d)
      BY <1>1, <3>5 DEF RemoveFinalizer, ApiInv, Parts, NoEnvironment
    <3>6. QED
      BY <3>1, <3>3, <3>4, <3>5
  <2>5. QED
    BY <1>1, <2>1, <2>2, <2>3, <2>4
       DEF ApiNext, ApiStep, Request, DeleteEnvironment, AddUser, RemoveUser, Reads,
           RequestsLost, apiVars
<1>2. ApiInv /\ [ApiNext]_apiVars => Decided
  BY <1>1
<1>3. ApiInv /\ [ApiNext]_apiVars => [Decided]_apiVars
  BY <1>2
<1>4. QED
  BY <1>3, ApiInvariant, PTL DEF ApiSpec, OwnersDecide
=============================================================================
