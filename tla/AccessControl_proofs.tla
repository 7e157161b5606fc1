------------------------- MODULE AccessControl_proofs -------------------------
(***************************************************************************)
(* Theorems about AccessControl: type correctness, and that a group holds  *)
(* nobody who was not owner or on the list of its environment.             *)
(***************************************************************************)
EXTENDS AccessControl, SequenceTheorems, WellFoundedInduction, TLAPS

-----------------------------------------------------------------------------
(* Lists *)

LEMMA SmallestIsElement ==
  ASSUME NEW T, T \subseteq Nat, T # {}
  PROVE  Min(T) \in T
<1>1. PICK x \in T : \A y \in T : ~(<<y, x>> \in OpToRel(<, Nat))
  BY NatLessThanWellFounded, WFMin
<1>2. ASSUME NEW y \in T, y < x PROVE FALSE
  <2>1. <<y, x>> \in {p \in Nat \X Nat : p[1] < p[2]}
    BY <1>2
  <2>2. <<y, x>> \in OpToRel(<, Nat)
    BY <2>1 DEF OpToRel
  <2>3. QED
    BY <1>1, <2>2
<1>3. \A y \in T : x =< y
  BY <1>2
<1>4. QED
  BY <1>3 DEF Min

\* Removal of an entry leaves entries that were there.
LEMMA RemoveFirstType ==
  ASSUME NEW S, NEW s \in Seq(S), NEW e
  PROVE  RemoveFirst(s, e) \in Seq(S)
<1> DEFINE T == {i \in 1..Len(s) : s[i] = e}
<1>1. CASE \E i \in 1..Len(s) : s[i] = e
  <2>1. T # {} /\ T \subseteq Nat
    BY <1>1
  <2>2. PICK i \in 1..Len(s) : i = Min(T)
    BY <2>1, SmallestIsElement
  <2>3. RemoveFirst(s, e) = SubSeq(s, 1, i - 1) \o SubSeq(s, i + 1, Len(s))
    BY <1>1, <2>1, <2>2 DEF RemoveFirst, RemoveAt, SelectInSeq
  <2>4. \A j \in 1..(i - 1) \cup (i + 1)..Len(s) : s[j] \in S
    BY <2>2
  <2>5. SubSeq(s, 1, i - 1) \in Seq(S) /\ SubSeq(s, i + 1, Len(s)) \in Seq(S)
    BY <2>2, <2>4, SubSeqProperties
  <2>6. QED
    BY <2>3, <2>5
<1>2. CASE ~\E i \in 1..Len(s) : s[i] = e
  BY <1>2 DEF RemoveFirst
<1>3. QED
  BY <1>1, <1>2

LEMMA RangeType ==
  ASSUME NEW S, NEW s \in Seq(S)
  PROVE  Range(s) \subseteq S
BY DEF Range

LEMMA SeqFromRange ==
  ASSUME NEW S, NEW T, NEW s \in Seq(S), Range(s) \subseteq T
  PROVE  s \in Seq(T)
<1>1. \A i \in 1..Len(s) : s[i] \in T
  BY DEF Range
<1>2. QED
  BY <1>1

LEMMA OneMore ==
  ASSUME NEW S, NEW x \in S, NEW s \in Seq(S)
  PROVE  <<x>> \o s \in Seq(S) /\ <<x>> \o s # <<>>
<1>1. <<x>> \in Seq(S) /\ Len(<<x>>) = 1
  OBVIOUS
<1>2. /\ <<x>> \o s \in Seq(S) /\ Len(<<x>> \o s) = Len(<<x>>) + Len(s)
      /\ Len(s) \in Nat
  BY <1>1, ConcatProperties, LenProperties
<1>3. Len(<<>>) = 0
  OBVIOUS
<1>4. QED
  BY <1>1, <1>2, <1>3

-----------------------------------------------------------------------------
(* The inductive invariant *)

\* The owner and every user of version o were listed for e.
WasListed(e, o) ==
  /\ o.users \in Seq(listed[e])
  /\ o.exists => o.owner \in listed[e]

\* An environment that exists has an owner.
Owned == {o \in Accesses : o.exists => o.owner \in Callers}

ListsType ==
  /\ access \in [Environments -> Owned] /\ cached \in [Environments -> Owned]
  /\ listed \in [Environments -> SUBSET (Callers \cup Users)]

SetupType ==
  /\ step \in {"idle", "find", "create", "add"}
  /\ inst \in Instances \cup {NoInstance} /\ (step = "idle" <=> inst = NoInstance)
  /\ todo \in Seq(Callers \cup Users) /\ (step = "idle" <=> todo = <<>>)

GroupsType ==
  /\ groups \subseteq Instances
  /\ members \in [Instances -> SUBSET (Callers \cup Users)]

\* The cache may be old, but what it holds was listed once.
ListsInv == \A e \in Environments : WasListed(e, access[e]) /\ WasListed(e, cached[e])

\* Users join a group that is there, and were listed when the setup began.
SetupInv ==
  step # "idle" =>
    /\ todo \in Seq(listed[EnvOf[inst]])
    /\ step = "add" => inst \in groups

AccessInv ==
  /\ ListsType /\ SetupType /\ GroupsType /\ apiErrors \in 0..MaxApiErrors
  /\ ListsInv /\ SetupInv /\ MembersWereListed

LEMMA ErrorsBounded ==
  ASSUME apiErrors \in 0..MaxApiErrors, Succeeds \/ ApiError
  PROVE  apiErrors' \in 0..MaxApiErrors
BY ErrorsAssumption DEF Succeeds, ApiError

LEMMA InitInv == Init => AccessInv
<1> SUFFICES ASSUME Init PROVE AccessInv
  OBVIOUS
<1>1. NoAccess \in Owned /\ NoAccess.users = <<>> /\ ~NoAccess.exists
  BY DEF NoAccess, Owned, Accesses
<1>2. /\ access = [e \in Environments |-> NoAccess] /\ cached = access
      /\ listed = [e \in Environments |-> {}]
  BY DEF Init, ListInit
<1>3. ListsType
  BY <1>1, <1>2 DEF ListsType
<1>4. \A e \in Environments : access[e] = NoAccess /\ cached[e] = NoAccess
  BY <1>2
<1>5. \A S : <<>> \in Seq(S)
  OBVIOUS
<1>6. ListsInv
  BY <1>1, <1>4, <1>5 DEF ListsInv, WasListed
<1>7. SetupType /\ GroupsType /\ SetupInv /\ MembersWereListed
  BY NoInstanceAssumption DEF Init, SetupType, GroupsType, SetupInv, MembersWereListed
<1>8. QED
  BY <1>3, <1>6, <1>7, ErrorsAssumption DEF AccessInv, Init

-----------------------------------------------------------------------------
(* Requests *)

\* A request leaves lists of users.
LEMMA RequestType ==
  ASSUME access \in [Environments -> Owned], ListNext
  PROVE  access' \in [Environments -> Owned]
<1>1. ASSUME NEW e \in Environments, NEW o \in Owned, access' = [access EXCEPT ![e] = o]
      PROVE  access' \in [Environments -> Owned]
  BY <1>1
<1>2. ASSUME NEW e \in Environments, NEW list \in Seq(Users),
             access[e].exists, access' = [access EXCEPT ![e].users = list]
      PROVE  access' \in [Environments -> Owned]
  <2>1. access[e] \in Owned
    OBVIOUS
  <2>2. [access[e] EXCEPT !.users = list] \in Owned
    BY <2>1 DEF Owned, Accesses
  <2>3. access' = [access EXCEPT ![e] = [access[e] EXCEPT !.users = list]]
    BY <1>2
  <2> QED
    BY <1>1, <2>2, <2>3
<1>3. PICK e \in Environments :
        \/ \E c \in Callers, list \in PostedLists : Create(e, c, list)
        \/ \E u \in Users : Grant(e, u) \/ Withdraw(e, u)
        \/ Delete(e)
  BY DEF ListNext
<1>4. access[e].users \in Seq(Users)
  BY DEF Owned, Accesses
<1>5. CASE \E c \in Callers, list \in PostedLists : Create(e, c, list)
  BY <1>1, <1>5, PostedListsAssumption DEF Create, Owned, Accesses
<1>6. CASE \E u \in Users : Grant(e, u)
  <2>1. PICK u \in Users : Grant(e, u)
    BY <1>6
  <2>2. Append(access[e].users, u) \in Seq(Users)
    BY <1>4
  <2>3. QED
    BY <1>2, <2>1, <2>2 DEF Grant
<1>7. CASE \E u \in Users : Withdraw(e, u)
  <2>1. PICK u \in Users : Withdraw(e, u)
    BY <1>7
  <2>2. RemoveFirst(access[e].users, u) \in Seq(Users)
    BY <1>4, RemoveFirstType
  <2>3. QED
    BY <1>2, <2>1, <2>2 DEF Withdraw
<1>8. CASE Delete(e)
  BY <1>1, <1>8 DEF Delete, NoAccess, Owned, Accesses
<1>9. QED
  BY <1>3, <1>5, <1>6, <1>7, <1>8

\* Owner and users of an environment
LEMMA ListedUsers ==
  ASSUME NEW o \in Owned
  PROVE  Listed(o) \subseteq Callers \cup Users
<1>1. o.users \in Seq(Users) /\ (o.exists => o.owner \in Callers)
  BY DEF Owned, Accesses
<1>2. QED
  BY <1>1, RangeType DEF Listed

LEMMA ListedNow ==
  ASSUME NEW e, NEW o \in Owned, NEW S, Listed(o) \subseteq S
  PROVE  o.users \in Seq(S) /\ (o.exists => o.owner \in S)
<1>1. o.users \in Seq(Users) /\ Range(o.users) \subseteq S /\ (o.exists => o.owner \in S)
  BY DEF Owned, Accesses, Listed
<1>2. QED
  BY <1>1, SeqFromRange

LEMMA SeqGrows ==
  ASSUME NEW S, NEW T, S \subseteq T, NEW s \in Seq(S)
  PROVE  s \in Seq(T)
OBVIOUS

LEMMA RequestInv ==
  ASSUME AccessInv, RequestStep
  PROVE  AccessInv'
<1>1. /\ ListNext /\ UNCHANGED <<cached, groupVars, setupVars, apiErrors>>
      /\ listed' = [e \in Environments |-> listed[e] \cup Listed(access'[e])]
  BY DEF RequestStep
<1>2. access' \in [Environments -> Owned]
  BY <1>1, RequestType DEF AccessInv, ListsType
<1>3. \A e \in Environments : /\ listed'[e] = listed[e] \cup Listed(access'[e])
                              /\ listed[e] \subseteq listed'[e]
  BY <1>1
<1>4. ListsType'
  <2>1. \A e \in Environments : listed'[e] \subseteq Callers \cup Users
    BY <1>2, <1>3, ListedUsers DEF AccessInv, ListsType
  <2>2. QED
    BY <1>1, <1>2, <2>1 DEF AccessInv, ListsType
<1>5. ListsInv'
  <2>1. ASSUME NEW e \in Environments
        PROVE  WasListed(e, access[e])' /\ WasListed(e, cached[e])'
    <3>1. WasListed(e, access[e])'
      <4>1. access'[e] \in Owned /\ Listed(access'[e]) \subseteq listed'[e]
        BY <1>2, <1>3
      <4>2. QED
        BY <4>1, ListedNow DEF WasListed
    <3>2. WasListed(e, cached[e]) /\ cached'[e] = cached[e]
      BY <1>1 DEF AccessInv, ListsInv
    <3>3. WasListed(e, cached[e])'
      BY <1>3, <3>2, SeqGrows DEF WasListed
    <3>4. QED
      BY <3>1, <3>3
  <2>2. QED
    BY <2>1 DEF ListsInv
<1>6. SetupType' /\ GroupsType'
  BY <1>1 DEF AccessInv, SetupType, GroupsType, setupVars, groupVars
<1>7. SetupInv'
  <2>1. step # "idle" => EnvOf[inst] \in Environments
    BY EnvOfAssumption DEF AccessInv, SetupType
  <2>2. QED
    BY <1>1, <1>3, <2>1, SeqGrows DEF AccessInv, SetupInv, setupVars, groupVars
<1>8. MembersWereListed'
  BY <1>1, <1>3, EnvOfAssumption DEF AccessInv, MembersWereListed, groupVars
<1>9. QED
  BY <1>1, <1>4, <1>5, <1>6, <1>7, <1>8 DEF AccessInv

-----------------------------------------------------------------------------
(* The setup, the cache, and restarts *)

\* Groups may be created, and nobody joins.
LEMMA GroupsKept ==
  ASSUME AccessInv, UNCHANGED <<listed, members>>, step # "idle",
         groups' \in {groups, groups \cup {inst}}
  PROVE  GroupsType' /\ MembersWereListed'
BY DEF AccessInv, SetupType, GroupsType, MembersWereListed

\* The setup goes on.
LEMMA GotoInv ==
  ASSUME AccessInv, UNCHANGED <<access, cached, listed>>, Succeeds \/ ApiError,
         GroupsType', MembersWereListed', step # "idle",
         NEW s \in {"idle", "find", "create", "add"}, NEW us, Goto(s, us),
         us \in Seq(listed[EnvOf[inst]]), s = "idle" <=> us = <<>>, s = "add" => inst \in groups'
  PROVE  AccessInv'
<1>1. inst \in Instances /\ EnvOf[inst] \in Environments
  BY EnvOfAssumption DEF AccessInv, SetupType
<1>2. us \in Seq(Callers \cup Users)
  BY <1>1, SeqGrows DEF AccessInv, ListsType
<1>3. SetupType'
  BY <1>1, <1>2, NoInstanceAssumption DEF Goto, SetupType, AccessInv
<1>4. SetupInv'
  BY <1>1 DEF Goto, SetupInv
<1>5. ListsType' /\ ListsInv'
  BY DEF AccessInv, ListsType, ListsInv, WasListed
<1>6. QED
  BY <1>3, <1>4, <1>5, ErrorsBounded DEF AccessInv

\* The current user joins the group, which is there.
LEMMA JoinInv ==
  ASSUME AccessInv, UNCHANGED <<access, cached, listed, groups>>, step = "add",
         members' \in {members, [members EXCEPT ![inst] = @ \cup {Head(todo)}]}
  PROVE  GroupsType' /\ MembersWereListed'
<1>1. inst \in Instances /\ inst \in groups /\ todo # <<>> /\ todo \in Seq(listed[EnvOf[inst]])
  BY DEF AccessInv, SetupType, SetupInv
<1>2. Head(todo) \in listed[EnvOf[inst]] /\ EnvOf[inst] \in Environments
  BY <1>1, EnvOfAssumption
<1>3. Head(todo) \in Callers \cup Users
  BY <1>2 DEF AccessInv, ListsType
<1>4. QED
  BY <1>1, <1>2, <1>3 DEF AccessInv, GroupsType, MembersWereListed

\* The setup ends.
LEMMA GotoIdleInv ==
  ASSUME AccessInv, UNCHANGED <<access, cached, listed>>, Succeeds \/ ApiError,
         GroupsType', MembersWereListed', step # "idle", Goto("idle", <<>>)
  PROVE  AccessInv'
<1>1. \A S : <<>> \in Seq(S)
  OBVIOUS
<1>2. SetupType' /\ SetupInv'
  BY <1>1, NoInstanceAssumption DEF Goto, SetupType, SetupInv
<1>3. ListsType' /\ ListsInv'
  BY DEF AccessInv, ListsType, ListsInv, WasListed
<1>4. QED
  BY <1>2, <1>3, ErrorsBounded DEF AccessInv

LEMMA GroupByNameInv ==
  ASSUME AccessInv, GroupByName
  PROVE  AccessInv'
<1>1. /\ step = "find" /\ UNCHANGED <<access, cached, listed, groups, members>>
      /\ Succeeds \/ ApiError
  BY DEF GroupByName, Fails, groupVars
<1>2. GroupsType' /\ MembersWereListed'
  BY <1>1, GroupsKept
<1>3. todo \in Seq(listed[EnvOf[inst]]) /\ todo # <<>>
  BY <1>1 DEF AccessInv, SetupInv, SetupType
<1>4. \/ inst \in groups /\ Goto("add", todo)
      \/ Goto("create", todo)
      \/ Goto("idle", <<>>)
  BY DEF GroupByName, Fails
<1>5. CASE Goto("idle", <<>>)
  BY <1>1, <1>2, <1>5, GotoIdleInv
<1>6. CASE inst \in groups /\ Goto("add", todo)
  BY <1>1, <1>2, <1>3, <1>6, GotoInv
<1>7. CASE Goto("create", todo)
  BY <1>1, <1>2, <1>3, <1>7, GotoInv
<1>8. QED
  BY <1>4, <1>5, <1>6, <1>7

LEMMA CreateGroupInv ==
  ASSUME AccessInv, CreateGroup
  PROVE  AccessInv'
<1>1. /\ step = "create" /\ UNCHANGED <<access, cached, listed, members>>
      /\ Succeeds \/ ApiError
      /\ groups' \in {groups, groups \cup {inst}}
  BY DEF CreateGroup, Fails
<1>2. GroupsType' /\ MembersWereListed'
  BY <1>1, GroupsKept
<1>3. todo \in Seq(listed[EnvOf[inst]]) /\ todo # <<>>
  BY <1>1 DEF AccessInv, SetupInv, SetupType
<1>4. (inst \in groups' /\ Goto("add", todo)) \/ Goto("idle", <<>>)
  BY DEF CreateGroup, Fails
<1>5. CASE Goto("idle", <<>>)
  BY <1>1, <1>2, <1>5, GotoIdleInv
<1>6. CASE inst \in groups' /\ Goto("add", todo)
  BY <1>1, <1>2, <1>3, <1>6, GotoInv
<1>7. QED
  BY <1>4, <1>5, <1>6

LEMMA AddUserToGroupInv ==
  ASSUME AccessInv, AddUserToGroup
  PROVE  AccessInv'
<1>1. /\ step = "add" /\ UNCHANGED <<access, cached, listed, groups>>
      /\ Succeeds \/ ApiError
      /\ members' \in {members, [members EXCEPT ![inst] = @ \cup {Head(todo)}]}
  BY DEF AddUserToGroup, Fails
<1>2. GroupsType' /\ MembersWereListed'
  BY <1>1, JoinInv
<1>3. todo \in Seq(listed[EnvOf[inst]]) /\ todo # <<>> /\ inst \in groups
  BY <1>1 DEF AccessInv, SetupInv, SetupType
<1>4. Tail(todo) \in Seq(listed[EnvOf[inst]])
  BY <1>3
<1>5. \/ Tail(todo) = <<>> /\ Goto("idle", Tail(todo))
      \/ Tail(todo) # <<>> /\ Goto("add", Tail(todo))
      \/ Goto("idle", <<>>)
  BY DEF AddUserToGroup, AfterFirst, Fails
<1>6. CASE Tail(todo) = <<>> /\ Goto("idle", Tail(todo))
  <2>1. Goto("idle", <<>>)
    BY <1>6
  <2>2. QED
    BY <1>1, <1>2, <2>1, GotoIdleInv
<1>7. CASE Tail(todo) # <<>> /\ Goto("add", Tail(todo))
  BY <1>1, <1>2, <1>3, <1>4, <1>7, GotoInv
<1>8. CASE Goto("idle", <<>>)
  BY <1>1, <1>2, <1>8, GotoIdleInv
<1>9. QED
  BY <1>5, <1>6, <1>7, <1>8

\* The setup begins with what the cache says.
LEMMA SetupAuthenticationInv ==
  ASSUME AccessInv, NEW i \in Instances, SetupAuthentication(i)
  PROVE  AccessInv'
<1> DEFINE e == EnvOf[i]
           o == cached[e]
<1>1. /\ step = "idle" /\ o.exists /\ step' = "find" /\ inst' = i
      /\ todo' = <<o.owner>> \o o.users
      /\ UNCHANGED <<access, cached, groups, members, apiErrors, listed>>
  BY DEF SetupAuthentication, groupVars
<1>2. e \in Environments
  BY EnvOfAssumption
<1>3. o.users \in Seq(listed[e]) /\ o.owner \in listed[e]
  BY <1>1, <1>2 DEF AccessInv, ListsInv, WasListed
<1>4. todo' \in Seq(listed[e]) /\ todo' # <<>>
  <2> HIDE DEF o, e
  <2>1. <<o.owner>> \o o.users \in Seq(listed[e]) /\ <<o.owner>> \o o.users # <<>>
    BY <1>3, OneMore
  <2>2. todo' = <<o.owner>> \o o.users
    BY <1>1 DEF o, e
  <2>3. QED
    BY <2>1, <2>2
<1>5. todo' \in Seq(Callers \cup Users)
  BY <1>2, <1>4, SeqGrows DEF AccessInv, ListsType
<1>6. SetupType' /\ SetupInv'
  BY <1>1, <1>4, <1>5, NoInstanceAssumption DEF SetupType, SetupInv
<1>7. QED
  BY <1>1, <1>6 DEF AccessInv, ListsType, ListsInv, WasListed, GroupsType, MembersWereListed

LEMMA EnvironmentSyncInv ==
  ASSUME AccessInv, NEW e \in Environments, EnvironmentSync(e)
  PROVE  AccessInv'
<1>1. /\ cached' = [cached EXCEPT ![e] = access[e]]
      /\ UNCHANGED <<access, groups, members, step, inst, todo, apiErrors, listed>>
  BY DEF EnvironmentSync, groupVars, setupVars
<1>2. ListsType' /\ ListsInv'
  BY <1>1 DEF AccessInv, ListsType, ListsInv, WasListed
<1>3. QED
  BY <1>1, <1>2 DEF AccessInv, SetupType, SetupInv, GroupsType, MembersWereListed

LEMMA CrashInv ==
  ASSUME AccessInv, Crash
  PROVE  AccessInv'
<1>1. /\ cached' = access /\ step' = "idle" /\ todo' = <<>> /\ inst' = NoInstance
      /\ UNCHANGED <<access, groups, members, apiErrors, listed>>
  BY DEF Crash, Goto, groupVars
<1>2. ListsType' /\ ListsInv'
  BY <1>1 DEF AccessInv, ListsType, ListsInv, WasListed
<1>3. QED
  BY <1>1, <1>2 DEF AccessInv, SetupType, SetupInv, GroupsType, MembersWereListed

LEMMA StepInv ==
  ASSUME AccessInv, [Next]_vars
  PROVE  AccessInv'
<1>1. CASE UNCHANGED vars
  BY <1>1 DEF vars, groupVars, setupVars, AccessInv, ListsType, ListsInv, WasListed, SetupType,
              SetupInv, GroupsType, MembersWereListed
<1>2. QED
  BY <1>1, RequestInv, GroupByNameInv, CreateGroupInv, AddUserToGroupInv,
     SetupAuthenticationInv, EnvironmentSyncInv, CrashInv DEF Next, SetupStep

\* Lists, cache, groups and the worker's setup are related by AccessInv in every
\* reachable state.
THEOREM AccessInvariant == Spec => []AccessInv
BY InitInv, StepInv, PTL DEF Spec

\* Lists, cache, groups and the setup in progress are of their types.
THEOREM AccessTypeCorrect == Spec => []TypeOK
<1>1. AccessInv => TypeOK
  BY DEF AccessInv, ListsType, Owned, SetupType, GroupsType, TypeOK
<1>2. QED
  BY <1>1, AccessInvariant, PTL

\* A group lets nobody in who was not the owner or on the list of the environment
\* at some time, however requests, old caches, failing calls and restarts mix.
THEOREM GroupsHoldListedUsers == Spec => []MembersWereListed
<1>1. AccessInv => MembersWereListed
  BY DEF AccessInv
<1>2. QED
  BY <1>1, AccessInvariant, PTL
===============================================================================
