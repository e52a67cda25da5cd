----------------------- MODULE AccountsAndViewsProofs -----------------------
(* The users, and what their pages show.                                   *)
(* 1. Accounts: an administrator remains, the disabled are logged out, and *)
(*    a boot finds an administrator, for any number of users and           *)
(*    concurrent requests.                                                 *)
(* 2. LiveViews: each list holds the documents of its tab, once and in     *)
(*    order; a page that is told of every change shows at rest the         *)
(*    beginning of its list, however many pages it read by offset and      *)
(*    whatever was written between the reads; and its roster is the set of *)
(*    users who are subscribed, however many queues ran full.              *)
EXTENDS Accounts, LiveViews, FiniteSetTheorems, SequenceTheorems, WellFoundedInduction, TLAPS

\* What is known of the users who log in, and of a demote-admin in the shell.
LoginsAreAllowed == \A u \in session \union login : account[u].active \/ u \in raced

CommandIsCounted == cli # NoCommand => cli.target \in User /\ cli.count >= 2

IInv == TypeOK /\ AnAdminRemains /\ LoginsAreAllowed /\ CommandIsCounted

-----------------------------------------------------------------------------
(* Lemmas.                                                                 *)

LEMMA AdminsAreFinite == IsFiniteSet(ActiveAdmins) /\ Cardinality(ActiveAdmins) \in Nat
<1>1. ActiveAdmins \subseteq User
  BY DEF ActiveAdmins
<1>. QED  BY <1>1, UserAssumption, FS_Subset, FS_CardinalityType

\* Of two administrators one is not t.
LEMMA AnotherAdmin ==
  ASSUME Cardinality(ActiveAdmins) >= 2, NEW t
  PROVE  \E u \in ActiveAdmins : u # t
<1> SUFFICES ASSUME \A u \in ActiveAdmins : u = t
             PROVE  FALSE
  OBVIOUS
<1>1. ActiveAdmins \subseteq {t}
  OBVIOUS
<1>2. IsFiniteSet({t}) /\ Cardinality({t}) = 1
  BY FS_Singleton
<1>3. Cardinality(ActiveAdmins) <= 1
  BY <1>1, <1>2, FS_Subset
<1>. QED  BY <1>3, AdminsAreFinite

\* A request that is not idle.
LEMMA RunningRequest ==
  ASSUME TypeOK, NEW s \in Slot, request[s].stage # "idle"
  PROVE  /\ request[s] \in [op: Op, by: User, target: User, stage: Stage \ {"idle"}, role: Role]
         /\ request[s].target \in User /\ request[s].role \in Role
<1>1. request[s] \in Request
  BY DEF TypeOK
<1>2. request[s] \in [op: Op, by: User, target: User, stage: Stage \ {"idle"}, role: Role]
  BY <1>1 DEF Request
<1>. QED  BY <1>2

\* The last step of a request leaves the slot idle.
LEMMA FinishKeepsType ==
  ASSUME TypeOK, NEW s \in Slot, Finish(s)
  PROVE  request' \in [Slot -> Request]
BY DEF TypeOK, Finish, Idle, Request

\* Another user keeps its row when one row changes.
LEMMA AdminKept ==
  ASSUME TypeOK, NEW t \in User, NEW row \in Account, account' = [account EXCEPT ![t] = row],
         NEW u \in ActiveAdmins, u # t
  PROVE  ActiveAdmins' # {}
<1>1. u \in User /\ account'[u] = account[u]
  BY DEF ActiveAdmins, TypeOK
<1>2. u \in ActiveAdmins'
  BY <1>1 DEF ActiveAdmins, IsAdmin
<1>. QED  BY <1>2

-----------------------------------------------------------------------------
(* Every step keeps the invariant.                                         *)

\* Steps that change no account, and no session except by ending it.
LEMMA QuietStepKeeps ==
  ASSUME IInv, UNCHANGED <<account, overtaken, raced>>, CommandIsCounted',
         session' \union login' \subseteq session \union login,
         request' \in [Slot -> Request], cli' \in Command, serving' \in BOOLEAN
  PROVE  IInv'
<1>1. TypeOK'
  BY DEF IInv, TypeOK
<1>2. AnAdminRemains'
  BY DEF IInv, AnAdminRemains, ActiveAdmins, IsAdmin
<1>3. LoginsAreAllowed'
  BY DEF IInv, LoginsAreAllowed
<1>. QED  BY <1>1, <1>2, <1>3 DEF IInv

\* Steps that write the row of t and leave an administrator.
LEMMA RowStepKeeps ==
  ASSUME IInv, NEW t \in User, NEW row \in Account, account' = [account EXCEPT ![t] = row],
         AnAdminRemains', CommandIsCounted',
         session' \union login' \subseteq session \union login,
         t \in session' \union login' => row.active \/ t \in raced',
         raced' \subseteq User, \A u \in raced : u # t => u \in raced',
         request' \in [Slot -> Request], cli' \in Command,
         serving' \in BOOLEAN, overtaken' \in BOOLEAN
  PROVE  IInv'
<1>1. TypeOK'
  BY DEF IInv, TypeOK
<1>2. ASSUME NEW u \in session' \union login'
      PROVE  account'[u].active \/ u \in raced'
  <2>1. u \in User /\ (account[u].active \/ u \in raced)
    BY DEF IInv, TypeOK, LoginsAreAllowed
  <2>2. CASE u = t
    <3>1. account'[u] = row
      BY <2>1, <2>2 DEF IInv, TypeOK
    <3>. QED  BY <2>2, <3>1
  <2>3. CASE u # t
    <3>1. account'[u] = account[u]
      BY <2>1, <2>3 DEF IInv, TypeOK
    <3>. QED  BY <2>1, <2>3, <3>1
  <2>. QED  BY <2>2, <2>3
<1>3. LoginsAreAllowed'
  BY <1>2 DEF LoginsAreAllowed
<1>. QED  BY <1>1, <1>3 DEF IInv

\* A row that stays, or becomes, that of an active administrator if it was one.
LEMMA AdminsGrow ==
  ASSUME TypeOK, AnAdminRemains, NEW t \in User, NEW row \in Account,
         account' = [account EXCEPT ![t] = row],
         IsAdmin(t) => row.role = "admin" /\ row.active,
         overtaken' = overtaken
  PROVE  AnAdminRemains'
<1>1. CASE overtaken
  BY <1>1 DEF AnAdminRemains
<1>2. CASE ActiveAdmins # {}
  <2>1. PICK u \in User : IsAdmin(u)
    BY <1>2 DEF ActiveAdmins
  <2>2. IsAdmin(u)'
    BY <2>1 DEF TypeOK, IsAdmin
  <2>. QED  BY <2>2 DEF AnAdminRemains, ActiveAdmins
<1>. QED  BY <1>1, <1>2 DEF AnAdminRemains

LEMMA UserStepKeeps ==
  ASSUME IInv, NEW u \in User, UserStep(u)
  PROVE  IInv'
<1>1. TypeOK /\ AnAdminRemains /\ LoginsAreAllowed /\ CommandIsCounted
  BY DEF IInv
<1>2. CASE Register(u)
  <2> DEFINE row == [role |-> "user", active |-> TRUE]
  <2>1. row \in Account
    BY DEF Account, Role
  <2>2. account' = [account EXCEPT ![u] = row] /\ ~IsAdmin(u)
    BY <1>2 DEF Register, Registered, IsAdmin
  <2>3. row.active
    OBVIOUS
  <2> HIDE DEF row
  <2>4. AnAdminRemains'
    BY <1>1, <1>2, <2>1, <2>2, AdminsGrow DEF Register
  <2>. QED
    BY <1>1, <1>2, <2>1, <2>2, <2>3, <2>4, RowStepKeeps DEF Register, TypeOK, CommandIsCounted
<1>3. CASE LoginCheck(u)
  <2>1. TypeOK'
    BY <1>1, <1>3 DEF LoginCheck, TypeOK
  <2>2. AnAdminRemains' /\ LoginsAreAllowed' /\ CommandIsCounted'
    BY <1>1, <1>3 DEF LoginCheck, AnAdminRemains, ActiveAdmins, IsAdmin,
                      LoginsAreAllowed, CommandIsCounted
  <2>. QED  BY <2>1, <2>2 DEF IInv
<1>4. CASE LoginInsert(u)
  BY <1>1, <1>4, QuietStepKeeps DEF LoginInsert, TypeOK, CommandIsCounted
<1>5. CASE SessionEnds(u)
  BY <1>1, <1>5, QuietStepKeeps DEF SessionEnds, TypeOK, CommandIsCounted
<1>. QED  BY <1>2, <1>3, <1>4, <1>5 DEF UserStep

LEMMA RequestStepKeeps ==
  ASSUME IInv, NEW s \in Slot, RequestStep(s)
  PROVE  IInv'
<1> DEFINE t == request[s].target
<1>1. TypeOK /\ AnAdminRemains /\ LoginsAreAllowed /\ CommandIsCounted
  BY DEF IInv
<1>2. CASE \E op \in Op, u, v \in User : Accept(s, op, u, v)
  <2>1. PICK op \in Op, u \in User, v \in User : Accept(s, op, u, v)
    BY <1>2
  <2>2. [op |-> op, by |-> u, target |-> v, stage |-> "accepted", role |-> "none"] \in Request
    BY DEF Request, Stage, Role
  <2>3. request' \in [Slot -> Request]
    BY <1>1, <2>1, <2>2 DEF Accept, TypeOK
  <2>. QED
    BY <1>1, <2>1, <2>3, QuietStepKeeps DEF Accept, TypeOK, CommandIsCounted
<1>3. CASE Ensure(s) \/ ReadTarget(s)
  <2>1. request[s].stage # "idle"
    BY <1>3 DEF Ensure, ReadTarget
  <2>2. request[s] \in [op: Op, by: User, target: User, stage: Stage \ {"idle"}, role: Role]
    BY <1>1, <2>1, RunningRequest
  <2>3. account[t].role \in Role
    BY <1>1, <2>1, RunningRequest DEF TypeOK, Account
  <2>4. /\ [request[s] EXCEPT !.stage = "ensured"] \in Request
        /\ [request[s] EXCEPT !.stage = "read", !.role = account[t].role] \in Request
    BY <2>2, <2>3 DEF Request, Stage
  <2>5. request' \in [Slot -> Request]
    BY <1>1, <1>3, <2>4, FinishKeepsType DEF Ensure, ReadTarget, Advance, TypeOK
  <2>. QED
    BY <1>1, <1>3, <2>5, QuietStepKeeps DEF Ensure, ReadTarget, TypeOK, CommandIsCounted
<1>4. CASE Promote(s) \/ Enable(s) \/ Demote(s) \/ Disable(s)
  <2>1. request[s].stage # "idle" /\ Finish(s)
    BY <1>4 DEF Promote, Enable, Demote, Disable, At
  <2>2. t \in User /\ request[s].role \in Role /\ account[t] \in Account
    BY <1>1, <2>1, RunningRequest DEF TypeOK
  <2>3. request' \in [Slot -> Request] /\ CommandIsCounted' /\ cli' \in Command /\ serving' \in BOOLEAN
    BY <1>1, <1>4, <2>1, FinishKeepsType
       DEF Promote, Enable, Demote, Disable, CommandIsCounted, TypeOK
  <2>4. CASE Promote(s) \/ Enable(s)
    <3>1. PICK row \in Account : /\ account' = [account EXCEPT ![t] = row]
                                 /\ account[t].active => row.active
                                 /\ IsAdmin(t) => row.role = "admin" /\ row.active
      <4>1. CASE Promote(s)
        <5>1. [account[t] EXCEPT !.role = "admin"] \in Account
          BY <2>2 DEF Account, Role
        <5>. QED  BY <2>2, <4>1, <5>1 DEF Promote, Account, IsAdmin
      <4>2. CASE Enable(s)
        <5>1. [account[t] EXCEPT !.active = TRUE] \in Account
          BY <2>2 DEF Account, Role
        <5>. QED  BY <2>2, <4>2, <5>1 DEF Enable, Account, IsAdmin
      <4>. QED  BY <2>4, <4>1, <4>2
    <3>2. UNCHANGED <<session, login, overtaken, raced>>
      BY <2>4 DEF Promote, Enable
    <3>3. AnAdminRemains'
      BY <1>1, <2>2, <3>1, <3>2, AdminsGrow
    <3>4. t \in session' \union login' => row.active \/ t \in raced'
      BY <1>1, <3>1, <3>2 DEF LoginsAreAllowed
    <3>. QED
      BY <1>1, <2>2, <2>3, <3>1, <3>2, <3>3, <3>4, RowStepKeeps DEF TypeOK
  <2>5. CASE Demote(s)
    <3>1. CASE LastAdmin
      BY <1>1, <2>3, <2>5, <3>1, QuietStepKeeps DEF Demote
    <3>2. CASE ~LastAdmin
      <4> DEFINE row == [account[t] EXCEPT !.role = "user"]
      <4>1. row \in Account /\ row.active = account[t].active
        BY <2>2 DEF Account, Role
      <4>2. account' = [account EXCEPT ![t] = row] /\ UNCHANGED <<session, login, overtaken, raced>>
        BY <2>5, <3>2 DEF Demote
      <4> HIDE DEF row
      <4>3. PICK u \in ActiveAdmins : u # t
        BY <3>2, AnotherAdmin, AdminsAreFinite DEF LastAdmin
      <4>4. AnAdminRemains'
        BY <1>1, <2>2, <4>1, <4>2, <4>3, AdminKept DEF AnAdminRemains
      <4>5. t \in session' \union login' => row.active \/ t \in raced'
        BY <1>1, <4>1, <4>2 DEF LoginsAreAllowed
      <4>. QED
        BY <1>1, <2>2, <2>3, <4>1, <4>2, <4>4, <4>5, RowStepKeeps DEF TypeOK
    <3>. QED  BY <3>1, <3>2
  <2>6. CASE Disable(s)
    <3>1. CASE request[s].role = "admin" /\ LastAdmin
      BY <1>1, <2>3, <2>6, <3>1, QuietStepKeeps DEF Disable
    <3>2. CASE ~(request[s].role = "admin" /\ LastAdmin)
      <4> DEFINE row == [account[t] EXCEPT !.active = FALSE]
      <4>1. row \in Account
        BY <2>2 DEF Account
      <4>2. /\ account' = [account EXCEPT ![t] = row]
            /\ session' = session \ {t} /\ login' = login
            /\ overtaken' = (overtaken \/ account[t].role # request[s].role)
            /\ raced' = (raced \ {t}) \union (login \intersect {t})
        BY <2>6, <3>2 DEF Disable, DisabledSessions
      <4> HIDE DEF row
      <4>3. AnAdminRemains'
        <5>1. CASE account[t].role # request[s].role
          BY <4>2, <5>1 DEF AnAdminRemains
        <5>2. CASE account[t].role = request[s].role /\ account[t].role = "admin"
          <6>1. PICK u \in ActiveAdmins : u # t
            BY <3>2, <5>2, AnotherAdmin, AdminsAreFinite DEF LastAdmin
          <6>. QED  BY <1>1, <2>2, <4>1, <4>2, <6>1, AdminKept DEF AnAdminRemains
        <5>3. CASE account[t].role # "admin"
          <6>1. t \notin ActiveAdmins
            BY <5>3 DEF ActiveAdmins, IsAdmin
          <6>2. CASE overtaken
            BY <4>2, <6>2 DEF AnAdminRemains
          <6>3. CASE ActiveAdmins # {}
            <7>1. PICK u \in ActiveAdmins : u # t
              BY <6>1, <6>3
            <7>. QED  BY <1>1, <2>2, <4>1, <4>2, <7>1, AdminKept DEF AnAdminRemains
          <6>. QED  BY <1>1, <6>2, <6>3 DEF AnAdminRemains
        <5>. QED  BY <5>1, <5>2, <5>3
      <4>4. /\ session' \union login' \subseteq session \union login
            /\ t \in session' \union login' => t \in raced'
            /\ raced' \subseteq User
            /\ \A u \in raced : u # t => u \in raced'
            /\ overtaken' \in BOOLEAN
        BY <1>1, <4>2 DEF TypeOK
      <4>. QED
        BY <2>2, <2>3, <4>1, <4>2, <4>3, <4>4, RowStepKeeps
    <3>. QED  BY <3>1, <3>2
  <2>. QED  BY <1>4, <2>4, <2>5, <2>6
<1>. QED  BY <1>2, <1>3, <1>4 DEF RequestStep

LEMMA CommandStepKeeps ==
  ASSUME IInv, CommandStep
  PROVE  IInv'
<1>1. TypeOK /\ AnAdminRemains /\ LoginsAreAllowed /\ CommandIsCounted
  BY DEF IInv
<1>2. ASSUME NEW u \in User, CommandPromote(u)
      PROVE  IInv'
  <2> DEFINE row == [account[u] EXCEPT !.role = "admin"]
  <2>1. row \in Account /\ row.active = account[u].active /\ row.role = "admin"
    BY <1>1 DEF TypeOK, Account, Role
  <2>2. account' = [account EXCEPT ![u] = row]
        /\ UNCHANGED <<session, login, request, cli, serving, overtaken, raced>>
    BY <1>2 DEF CommandPromote
  <2> HIDE DEF row
  <2>3. AnAdminRemains'
    BY <1>1, <2>1, <2>2, AdminsGrow DEF IsAdmin
  <2>4. u \in session' \union login' => row.active \/ u \in raced'
    BY <1>1, <2>1, <2>2 DEF LoginsAreAllowed
  <2>5. CommandIsCounted'
    BY <1>1, <2>2 DEF CommandIsCounted
  <2>. QED
    BY <1>1, <2>1, <2>2, <2>3, <2>4, <2>5, RowStepKeeps DEF TypeOK
<1>3. ASSUME NEW u \in User, CommandReset(u)
      PROVE  IInv'
  BY <1>1, <1>3, QuietStepKeeps DEF CommandReset, TypeOK, CommandIsCounted
<1>4. ASSUME NEW u \in User, CommandCount(u)
      PROVE  IInv'
  <2>1. Cardinality(ActiveAdmins) \in Nat /\ Cardinality(ActiveAdmins) >= 2
    BY <1>4, AdminsAreFinite DEF CommandCount, LastAdmin
  <2>2. cli' \in Command /\ CommandIsCounted'
    BY <1>4, <2>1 DEF CommandCount, Command, CommandIsCounted
  <2>. QED  BY <1>1, <1>4, <2>2, QuietStepKeeps DEF CommandCount, TypeOK
<1>5. CASE CommandDemote
  <2> DEFINE t == cli.target
             row == [account[t] EXCEPT !.role = "user"]
  <2>1. t \in User /\ cli.count >= 2 /\ cli \in Command
    BY <1>1, <1>5 DEF CommandDemote, CommandIsCounted, TypeOK
  <2>2. row \in Account /\ row.active = account[t].active
    BY <1>1, <2>1 DEF TypeOK, Account, Role
  <2>3. /\ account' = [account EXCEPT ![t] = row]
        /\ cli' = NoCommand
        /\ overtaken' = (overtaken \/ Cardinality(ActiveAdmins) # cli.count)
        /\ UNCHANGED <<session, login, request, serving, raced>>
    BY <1>5 DEF CommandDemote
  <2> HIDE DEF row
  <2>4. AnAdminRemains'
    <3>1. CASE Cardinality(ActiveAdmins) # cli.count
      BY <2>3, <3>1 DEF AnAdminRemains
    <3>2. CASE Cardinality(ActiveAdmins) = cli.count
      <4>1. PICK u \in ActiveAdmins : u # t
        BY <2>1, <3>2, AnotherAdmin
      <4>. QED  BY <1>1, <2>1, <2>2, <2>3, <4>1, AdminKept DEF AnAdminRemains
    <3>. QED  BY <3>1, <3>2
  <2>5. t \in session' \union login' => row.active \/ t \in raced'
    BY <1>1, <2>2, <2>3 DEF LoginsAreAllowed
  <2>6. cli' \in Command /\ CommandIsCounted' /\ overtaken' \in BOOLEAN
    BY <1>1, <2>3 DEF NoCommand, Command, CommandIsCounted, TypeOK
  <2>. QED
    BY <1>1, <2>1, <2>2, <2>3, <2>4, <2>5, <2>6, RowStepKeeps DEF TypeOK
<1>. QED  BY <1>2, <1>3, <1>4, <1>5 DEF CommandStep

\* The account that the boot finds or seeds.
LEMMA BootSeeds ==
  ASSUME TypeOK, Boot
  PROVE  ActiveAdmins' # {}
<1>1. CASE account[Root].role = "admin" \/ ActiveAdmins = {}
  <2>1. account'[Root] = [role |-> "admin", active |-> TRUE]
    BY <1>1, UserAssumption DEF Boot, Seeded, TypeOK
  <2>. QED  BY <2>1, UserAssumption DEF ActiveAdmins, IsAdmin
<1>2. CASE ~(account[Root].role = "admin" \/ ActiveAdmins = {})
  <2>1. account' = account
    BY <1>2 DEF Boot, Seeded
  <2>. QED  BY <1>2, <2>1 DEF ActiveAdmins, IsAdmin
<1>. QED  BY <1>1, <1>2

LEMMA ServerStepKeeps ==
  ASSUME IInv, Die \/ Boot
  PROVE  IInv'
<1>1. TypeOK /\ AnAdminRemains /\ LoginsAreAllowed /\ CommandIsCounted
  BY DEF IInv
<1>2. CASE Die
  <2>1. request' \in [Slot -> Request]
    BY <1>2 DEF Die, Idle, Request
  <2>. QED  BY <1>1, <1>2, <2>1, QuietStepKeeps DEF Die, TypeOK, CommandIsCounted
<1>3. CASE Boot
  <2> DEFINE row == [role |-> "admin", active |-> TRUE]
  <2>1. UNCHANGED <<session, login, request, cli, overtaken, raced>> /\ serving' = TRUE
    BY <1>3 DEF Boot
  <2>2. AnAdminRemains' /\ CommandIsCounted'
    BY <1>1, <1>3, <2>1, BootSeeds DEF AnAdminRemains, CommandIsCounted
  <2>3. CASE account' = account
    BY <1>1, <2>1, <2>2, <2>3, QuietStepKeeps DEF TypeOK
  <2>4. CASE account' = [account EXCEPT ![Root] = row]
    <3>1. row \in Account /\ row.active /\ Root \in User
      BY UserAssumption DEF Account, Role
    <3> HIDE DEF row
    <3>. QED
      BY <1>1, <2>1, <2>2, <2>4, <3>1, RowStepKeeps DEF TypeOK
  <2>. QED  BY <1>3, <2>3, <2>4 DEF Boot, Seeded
<1>. QED  BY <1>2, <1>3

-----------------------------------------------------------------------------
(* The theorems.                                                           *)

LEMMA InitHolds == Init => IInv
<1> SUFFICES ASSUME Init PROVE IInv
  OBVIOUS
<1>1. TypeOK
  BY UserAssumption
     DEF Init, TypeOK, Account, Role, Missing, Idle, Request, NoCommand, Command
<1>2. Root \in ActiveAdmins
  BY UserAssumption DEF Init, ActiveAdmins, IsAdmin
<1>. QED
  BY <1>1, <1>2 DEF Init, IInv, AnAdminRemains, LoginsAreAllowed, CommandIsCounted

LEMMA StepHolds == IInv /\ [Next]_vars => IInv'
<1> SUFFICES ASSUME IInv, [Next]_vars PROVE IInv'
  OBVIOUS
<1>1. CASE UNCHANGED vars
  BY <1>1 DEF vars, IInv, TypeOK, AnAdminRemains, ActiveAdmins, IsAdmin,
              LoginsAreAllowed, CommandIsCounted
<1>2. CASE \E u \in User : UserStep(u)
  BY <1>2, UserStepKeeps
<1>3. CASE \E s \in Slot : RequestStep(s)
  BY <1>3, RequestStepKeeps
<1>4. CASE CommandStep
  BY <1>4, CommandStepKeeps
<1>5. CASE Die \/ Boot
  BY <1>5, ServerStepKeeps
<1>6. CASE SessionsClosed
  BY <1>6, QuietStepKeeps DEF SessionsClosed, IInv, TypeOK, CommandIsCounted
<1>. QED  BY <1>1, <1>2, <1>3, <1>4, <1>5, <1>6 DEF Next

\* The inductive invariant of the accounts holds in every reachable state.
THEOREM InvariantHolds == Spec => []IInv
BY InitHolds, StepHolds, PTL DEF Spec

\* Every account, session, login and request that is half way keeps its type.
THEOREM AccountTypesHold == Spec => []TypeOK
<1>1. IInv => TypeOK
  BY DEF IInv
<1>. QED  BY <1>1, InvariantHolds, PTL

\* demote_admin and disable_user: however many administrators act on each
\* other at the same time, one stays active unless a reading was overtaken.
THEOREM AdminRemains == Spec => []AnAdminRemains
<1>1. IInv => AnAdminRemains
  BY DEF IInv
<1>. QED  BY <1>1, InvariantHolds, PTL

\* disable_user and login: a session of a disabled account comes from a login
\* that was under way when the account was disabled.
THEOREM DisabledLoggedOut == Spec => []DisabledAreLoggedOut
<1>1. IInv => DisabledAreLoggedOut
  BY DEF IInv, LoginsAreAllowed, DisabledAreLoggedOut
<1>. QED  BY <1>1, InvariantHolds, PTL

\* seed_bootstrap_admin: whatever happened before, a boot that succeeds leaves
\* an active administrator.
THEOREM BootRepairs == Spec => BootFindsAdmin
<1>1. IInv /\ [Next]_vars => [~serving /\ serving' => ActiveAdmins' # {}]_vars
  <2> SUFFICES ASSUME IInv, Next, ~serving, serving' PROVE ActiveAdmins' # {}
    OBVIOUS
  <2>1. ASSUME NEW u \in User, UserStep(u) PROVE serving' = serving
    BY <2>1 DEF UserStep, Register, LoginCheck, LoginInsert, SessionEnds
  <2>2. ASSUME NEW s \in Slot, RequestStep(s) PROVE serving' = serving
    BY <2>2 DEF RequestStep, Accept, Ensure, ReadTarget, Promote, Demote, Disable, Enable
  <2>3. ASSUME CommandStep PROVE serving' = serving
    BY <2>3 DEF CommandStep, CommandPromote, CommandReset, CommandCount, CommandDemote
  <2>4. Boot
    BY <2>1, <2>2, <2>3 DEF Next, Die, SessionsClosed
  <2>. QED  BY <2>4, BootSeeds DEF IInv
<1>. QED  BY <1>1, InvariantHolds, PTL DEF Spec, BootFindsAdmin

-----------------------------------------------------------------------------
(* Live views: lemmas about sequences.                                     *)

\* Induction, over the set of the numbers that are reached.
LEMMA Reaches ==
  ASSUME NEW S, S \subseteq Nat, 0 \in S, \A n \in S : n + 1 \in S
  PROVE  S = Nat
<1> DEFINE T == Nat \ S
<1> SUFFICES ASSUME T # {}  PROVE FALSE
  OBVIOUS
<1>1. \E x \in T : \A y \in T : <<y, x>> \notin OpToRel(<, Nat)
  BY NatLessThanWellFounded, WFMin
<1>2. PICK x \in T : \A y \in T : <<y, x>> \notin OpToRel(<, Nat)
  BY <1>1
<1>3. \A y \in T : ~(y < x)
  BY <1>2 DEF OpToRel
<1>4. x # 0 /\ x - 1 \in Nat /\ x - 1 \notin T
  BY <1>3
<1>. QED  BY <1>4

LEMMA Smaller ==
  ASSUME NEW a \in Nat, NEW b \in Nat
  PROVE  Min({a, b}) = IF a <= b THEN a ELSE b
<1> DEFINE m == IF a <= b THEN a ELSE b
<1>1. m \in {a, b} /\ \A y \in {a, b} : m <= y
  OBVIOUS
<1>2. \A x \in {a, b} : (\A y \in {a, b} : x <= y) => x = m
  OBVIOUS
<1> HIDE DEF m
<1>3. Min({a, b}) = m
  BY <1>1, <1>2 DEF Min
<1>. QED  BY <1>3 DEF m

LEMMA StartOf ==
  ASSUME NEW S, NEW list \in Seq(S), NEW n \in Nat
  PROVE  /\ Start(list, n) \in Seq(S)
         /\ Len(Start(list, n)) = IF n <= Len(list) THEN n ELSE Len(list)
         /\ \A i \in 1..Len(Start(list, n)) : Start(list, n)[i] = list[i]
<1> DEFINE m == IF n <= Len(list) THEN n ELSE Len(list)
<1>1. Len(list) \in Nat /\ m \in Nat /\ m <= Len(list)
  OBVIOUS
<1>2. Start(list, n) = SubSeq(list, 1, m)
  BY <1>1, Smaller DEF Start
<1> HIDE DEF m
<1>3. /\ SubSeq(list, 1, m) \in Seq(S) /\ Len(SubSeq(list, 1, m)) = m
      /\ \A i \in 1..m : SubSeq(list, 1, m)[i] = list[i]
  BY <1>1
<1>. QED  BY <1>2, <1>3 DEF m

LEMMA PageOf ==
  ASSUME NEW S, NEW list \in Seq(S), NEW o \in Nat
  PROVE  /\ PageAt(list, o) \in Seq(S)
         /\ Len(PageAt(list, o)) = IF o + PageSize <= Len(list) THEN PageSize
                                   ELSE IF o <= Len(list) THEN Len(list) - o ELSE 0
         /\ \A i \in 1..Len(PageAt(list, o)) : PageAt(list, o)[i] = list[o + i]
<1> DEFINE m == IF o + PageSize <= Len(list) THEN o + PageSize ELSE Len(list)
<1>1. Len(list) \in Nat /\ PageSize \in Nat /\ m \in Nat /\ m <= Len(list) /\ o + PageSize \in Nat
  BY FeedAssumption
<1>2. PageAt(list, o) = SubSeq(list, o + 1, m)
  BY <1>1, Smaller DEF PageAt
<1> HIDE DEF m
<1> DEFINE s == SubSeq(list, o + 1, m)
<1>3. s \in Seq(S) /\ Len(s) = IF o + 1 <= m THEN m - o ELSE 0
  BY <1>1
<1>4. \A i \in 1..Len(s) : s[i] = list[o + i]
  <2> SUFFICES ASSUME NEW i \in 1..Len(s)  PROVE s[i] = list[o + i]
    OBVIOUS
  <2>1. o + 1 <= m /\ i \in 1..(m - o)
    BY <1>1, <1>3
  <2>2. s[i] = list[o + 1 + i - 1]
    BY <1>1, <2>1
  <2>3. o + 1 + i - 1 = o + i
    BY <2>1
  <2>. QED  BY <2>2, <2>3
<1> HIDE DEF s
<1>5. Len(s) = IF o + PageSize <= Len(list) THEN PageSize
               ELSE IF o <= Len(list) THEN Len(list) - o ELSE 0
  <2>1. PageSize >= 1
    BY FeedAssumption
  <2>. QED  BY <1>1, <1>3, <2>1 DEF m
<1>. QED  BY <1>2, <1>3, <1>4, <1>5 DEF s

\* The beginning of a list, and the page that follows it.
LEMMA NextPage ==
  ASSUME NEW S, NEW list \in Seq(S), NEW n \in Nat
  PROVE  Start(list, n) \o PageAt(list, Len(Start(list, n))) = Start(list, n + PageSize)
<1> DEFINE a == Start(list, n)
           b == PageAt(list, Len(a))
           c == Start(list, n + PageSize)
           L == Len(list)
<1>1. L \in Nat /\ PageSize \in Nat /\ n + PageSize \in Nat /\ PageSize >= 1
  BY FeedAssumption
<1>2. /\ a \in Seq(S) /\ Len(a) = IF n <= L THEN n ELSE L
      /\ \A i \in 1..Len(a) : a[i] = list[i]
  BY StartOf
<1>3. Len(a) \in Nat
  BY <1>2
<1>4. /\ b \in Seq(S)
      /\ Len(b) = IF Len(a) + PageSize <= L THEN PageSize
                  ELSE IF Len(a) <= L THEN L - Len(a) ELSE 0
      /\ \A i \in 1..Len(b) : b[i] = list[Len(a) + i]
  BY <1>3, PageOf
<1>5. /\ c \in Seq(S) /\ Len(c) = IF n + PageSize <= L THEN n + PageSize ELSE L
      /\ \A i \in 1..Len(c) : c[i] = list[i]
  BY <1>1, StartOf
<1> HIDE DEF a, b, c, L
<1>6. Len(b) \in Nat /\ Len(a) + Len(b) = Len(c)
  BY <1>1, <1>2, <1>3, <1>4, <1>5
<1>7. /\ a \o b \in Seq(S) /\ Len(a \o b) = Len(a) + Len(b)
      /\ \A i \in 1..(Len(a) + Len(b)) :
           (a \o b)[i] = IF i <= Len(a) THEN a[i] ELSE b[i - Len(a)]
  <2>1. a \in Seq(S) /\ b \in Seq(S)
    BY <1>2, <1>4
  <2>. QED  BY <2>1
<1>8. ASSUME NEW i \in 1..Len(c)  PROVE (a \o b)[i] = c[i]
  <2>1. CASE i <= Len(a)
    BY <1>2, <1>3, <1>5, <1>6, <1>7, <2>1
  <2>2. CASE ~(i <= Len(a))
    <3>1. i - Len(a) \in 1..Len(b) /\ Len(a) + (i - Len(a)) = i
      BY <1>3, <1>6, <2>2
    <3>2. b[i - Len(a)] = list[i]
      BY <1>4, <3>1
    <3>. QED  BY <1>5, <1>6, <1>7, <2>2, <3>2
  <2>. QED  BY <2>1, <2>2
<1>9. a \o b = c
  <2> DEFINE d == a \o b
  <2>1. d \in Seq(S) /\ Len(d) = Len(c) /\ \A i \in 1..Len(c) : d[i] = c[i]
    BY <1>6, <1>7, <1>8
  <2> HIDE DEF d
  <2>2. d = c
    BY <1>5, <2>1
  <2>. QED  BY <2>2 DEF d
<1>. QED  BY <1>9 DEF a, b, c

\* What FlattenSeq computes, from the first sequence to the last one.
Flattens(f, seqs, n) ==
  f = [i \in 1..n |-> IF i = 1 THEN seqs[i] ELSE f[i - 1] \o seqs[i]]

LEMMA FlatteningExists ==
  ASSUME NEW S, NEW seqs \in Seq(Seq(S)), NEW n \in 0..Len(seqs)
  PROVE  \E f \in [1..n -> Seq(S)] : Flattens(f, seqs, n)
<1> DEFINE Exists(m) == m <= Len(seqs) => \E f \in [1..m -> Seq(S)] : Flattens(f, seqs, m)
           T == {m \in Nat : Exists(m)}
<1>1. Len(seqs) \in Nat /\ \A i \in 1..Len(seqs) : seqs[i] \in Seq(S)
  OBVIOUS
<1>2. Exists(0)
  <2> DEFINE f == [i \in 1..0 |-> seqs[i]]
  <2>1. f \in [1..0 -> Seq(S)] /\ 1..0 = {}
    OBVIOUS
  <2>2. Flattens(f, seqs, 0)
    BY <2>1 DEF Flattens
  <2>. QED  BY <2>1, <2>2
<1>3. ASSUME NEW m \in Nat, Exists(m)  PROVE Exists(m + 1)
  <2> SUFFICES ASSUME m + 1 <= Len(seqs)
               PROVE  \E f \in [1..(m + 1) -> Seq(S)] : Flattens(f, seqs, m + 1)
    OBVIOUS
  <2>1. PICK f \in [1..m -> Seq(S)] : Flattens(f, seqs, m)
    BY <1>1, <1>3
  <2> DEFINE last == IF m = 0 THEN seqs[1] ELSE f[m] \o seqs[m + 1]
             g == [i \in 1..(m + 1) |-> IF i = m + 1 THEN last ELSE f[i]]
  <2>2. last \in Seq(S)
    <3>1. CASE m = 0
      BY <1>1, <3>1
    <3>2. CASE m # 0
      <4>1. f[m] \in Seq(S) /\ seqs[m + 1] \in Seq(S)
        BY <1>1, <3>2
      <4>. QED  BY <3>2, <4>1
    <3>. QED  BY <3>1, <3>2
  <2>3. \A i \in 1..m : f[i] = IF i = 1 THEN seqs[i] ELSE f[i - 1] \o seqs[i]
    BY <2>1 DEF Flattens
  <2> HIDE DEF last
  <2>4. g \in [1..(m + 1) -> Seq(S)]
    BY <2>2
  <2>5. g[m + 1] = last /\ \A i \in 1..m : g[i] = f[i]
    OBVIOUS
  <2> HIDE DEF g
  <2>6. ASSUME NEW i \in 1..(m + 1)
        PROVE  g[i] = IF i = 1 THEN seqs[i] ELSE g[i - 1] \o seqs[i]
    <3>1. CASE i = m + 1 /\ m = 0
      BY <2>5, <3>1 DEF last
    <3>2. CASE i = m + 1 /\ m # 0
      <4>1. m \in 1..m /\ i - 1 = m /\ i # 1
        BY <3>2
      <4>2. g[i - 1] = f[m]
        BY <2>5, <4>1
      <4>. QED  BY <2>5, <3>2, <4>1, <4>2 DEF last
    <3>3. CASE i # m + 1
      <4>1. i \in 1..m /\ (i # 1 => i - 1 \in 1..m)
        BY <3>3
      <4>2. g[i] = f[i] /\ (i # 1 => g[i - 1] = f[i - 1])
        BY <2>5, <4>1
      <4>. QED  BY <2>3, <4>1, <4>2
    <3>. QED  BY <3>1, <3>2, <3>3
  <2>7. Flattens(g, seqs, m + 1)
    BY <2>4, <2>6 DEF Flattens
  <2>. QED  BY <2>4, <2>7
<1> HIDE DEF Exists
<1>4. T = Nat
  <2>1. T \subseteq Nat /\ 0 \in T /\ \A m \in T : m + 1 \in T
    BY <1>2, <1>3
  <2> HIDE DEF T
  <2>. QED  BY <2>1, Reaches
<1>5. Exists(n)
  BY <1>1, <1>4
<1>. QED  BY <1>1, <1>5 DEF Exists

\* The flattening of a longer sequence begins like that of a shorter one.
LEMMA FlatteningsAgree ==
  ASSUME NEW f, NEW g, NEW seqs, NEW more, NEW n \in Nat, NEW m \in Nat,
         Flattens(f, seqs, n), Flattens(g, more, m),
         n <= m, \A i \in 1..n : more[i] = seqs[i]
  PROVE  \A i \in 1..n : f[i] = g[i]
<1> DEFINE Agrees(k) == k \in 1..n => f[k] = g[k]
           T == {k \in Nat : Agrees(k)}
<1>1. \A i \in 1..n : f[i] = IF i = 1 THEN seqs[i] ELSE f[i - 1] \o seqs[i]
  BY DEF Flattens
<1>2. \A i \in 1..m : g[i] = IF i = 1 THEN more[i] ELSE g[i - 1] \o more[i]
  BY DEF Flattens
<1>3. Agrees(0)
  OBVIOUS
<1>4. ASSUME NEW k \in Nat, Agrees(k)  PROVE Agrees(k + 1)
  <2> SUFFICES ASSUME k + 1 \in 1..n  PROVE f[k + 1] = g[k + 1]
    OBVIOUS
  <2>1. k + 1 \in 1..m /\ more[k + 1] = seqs[k + 1] /\ (k + 1) - 1 = k
    OBVIOUS
  <2>2. CASE k = 0
    BY <1>1, <1>2, <2>1, <2>2
  <2>3. CASE k # 0
    <3>1. k \in 1..n /\ k + 1 # 1
      BY <2>3
    <3>2. f[k] = g[k]
      BY <1>4, <3>1
    <3>3. f[k + 1] = f[k] \o seqs[k + 1]
      BY <1>1, <2>1, <3>1
    <3>4. g[k + 1] = g[k] \o more[k + 1]
      BY <1>2, <2>1, <3>1
    <3>. QED  BY <2>1, <3>2, <3>3, <3>4
  <2>. QED  BY <2>2, <2>3
<1> HIDE DEF Agrees
<1>5. T = Nat
  <2>1. T \subseteq Nat /\ 0 \in T /\ \A k \in T : k + 1 \in T
    BY <1>3, <1>4
  <2> HIDE DEF T
  <2>. QED  BY <2>1, Reaches
<1>6. \A k \in Nat : Agrees(k)
  BY <1>5
<1>. QED  BY <1>6 DEF Agrees

LEMMA FlattenedBy ==
  ASSUME NEW S, NEW seqs \in Seq(Seq(S)), Len(seqs) # 0
  PROVE  \E f \in [1..Len(seqs) -> Seq(S)] :
           Flattens(f, seqs, Len(seqs)) /\ FlattenSeq(seqs) = f[Len(seqs)]
<1> DEFINE n == Len(seqs)
           chosen == CHOOSE f : f = [i \in 1..n |-> IF i = 1 THEN seqs[i] ELSE f[i - 1] \o seqs[i]]
<1>1. n \in Nat /\ n \in 0..Len(seqs) /\ n # 0
  OBVIOUS
<1>2. FlattenSeq(seqs) = chosen[n]
  BY <1>1 DEF FlattenSeq
<1>3. chosen = CHOOSE f : Flattens(f, seqs, n)
  BY DEF Flattens
<1>4. PICK f \in [1..n -> Seq(S)] : Flattens(f, seqs, n)
  BY <1>1, FlatteningExists
<1> HIDE DEF chosen, n
<1>5. Flattens(chosen, seqs, n)
  BY <1>3, <1>4
<1>6. chosen = [i \in 1..n |-> chosen[i]]
  BY <1>5 DEF Flattens
<1>7. \A i \in 1..n : chosen[i] = f[i]
  BY <1>1, <1>4, <1>5, FlatteningsAgree
<1>8. chosen \in [1..n -> Seq(S)]
  BY <1>6, <1>7
<1>. QED  BY <1>2, <1>5, <1>8 DEF n

LEMMA FlattenOneMore ==
  ASSUME NEW S, NEW seqs \in Seq(Seq(S)), NEW x \in Seq(S)
  PROVE  /\ FlattenSeq(seqs) \in Seq(S)
         /\ FlattenSeq(Append(seqs, x)) = FlattenSeq(seqs) \o x
<1> DEFINE more == Append(seqs, x)
<1>1. PICK n \in Nat, m \in Nat : n = Len(seqs) /\ m = n + 1
  OBVIOUS
<1>2. more \in Seq(Seq(S)) /\ Len(more) = m /\ more[m] = x
      /\ \A i \in 1..n : more[i] = seqs[i]
  BY <1>1
<1> HIDE DEF more
<1>3. PICK g : g \in [1..m -> Seq(S)] /\ Flattens(g, more, m) /\ FlattenSeq(more) = g[m]
  <2>1. more \in Seq(Seq(S)) /\ Len(more) # 0
    BY <1>1, <1>2
  <2>. QED  BY <1>2, <2>1, FlattenedBy
<1>4. \A i \in 1..m : g[i] = IF i = 1 THEN more[i] ELSE g[i - 1] \o more[i]
  BY <1>3 DEF Flattens
<1>5. CASE n = 0
  <2>1. seqs = <<>>
    BY <1>1, <1>5, EmptySeq
  <2>2. FlattenSeq(seqs) = <<>>
    BY <2>1 DEF FlattenSeq
  <2>3. m = 1 /\ g[m] = x
    BY <1>1, <1>2, <1>4, <1>5
  <2>4. <<>> \o x = x /\ <<>> \in Seq(S)
    OBVIOUS
  <2>. QED  BY <1>3, <2>2, <2>3, <2>4 DEF more
<1>6. CASE n # 0
  <2>1. PICK f : f \in [1..n -> Seq(S)] /\ Flattens(f, seqs, n) /\ FlattenSeq(seqs) = f[n]
    BY <1>1, <1>6, FlattenedBy
  <2>2. n \in 1..n /\ n <= m /\ m \in 1..m /\ m # 1 /\ m - 1 = n
    BY <1>1, <1>6
  <2>3. \A i \in 1..n : f[i] = g[i]
    <3>1. Flattens(f, seqs, n) /\ Flattens(g, more, m)
      BY <1>3, <2>1
    <3>2. n <= m /\ \A i \in 1..n : more[i] = seqs[i]
      BY <1>2, <2>2
    <3>. QED  BY <3>1, <3>2, FlatteningsAgree
  <2>4. g[m] = g[n] \o x
    BY <1>2, <1>4, <2>2
  <2>5. f[n] \in Seq(S) /\ f[n] = g[n]
    BY <2>1, <2>2, <2>3
  <2>. QED  BY <1>3, <2>1, <2>4, <2>5 DEF more
<1>. QED  BY <1>5, <1>6

-----------------------------------------------------------------------------
(* Live views: the lists.                                                  *)

LEMMA ItemsOf ==
  ASSUME NEW pages \in Seq(Page), NEW p \in Page
  PROVE  /\ Items(<<>>) = <<>>
         /\ Items(pages) \in Seq(Item)
         /\ Items(Append(pages, p)) = Items(pages) \o p.items
<1> DEFINE column == [i \in DOMAIN pages |-> pages[i].items]
           more == [i \in DOMAIN Append(pages, p) |-> Append(pages, p)[i].items]
<1>1. PICK n \in Nat : n = Len(pages) /\ DOMAIN pages = 1..n
  OBVIOUS
<1>2. p.items \in Seq(Item) /\ \A i \in 1..n : pages[i].items \in Seq(Item)
  <2>1. p \in Page /\ \A i \in 1..n : pages[i] \in Page
    BY <1>1
  <2>2. \A q \in Page : q.items \in Seq(Item)
    BY DEF Page
  <2>. QED  BY <2>1, <2>2
<1>3. column \in Seq(Seq(Item)) /\ Len(column) = n /\ \A i \in 1..n : column[i] = pages[i].items
  BY <1>1, <1>2
<1>4. more = Append(column, p.items)
  <2>1. /\ DOMAIN Append(pages, p) = 1..(n + 1) /\ Append(pages, p)[n + 1] = p
        /\ \A i \in 1..n : Append(pages, p)[i] = pages[i]
    BY <1>1
  <2>2. /\ DOMAIN more = 1..(n + 1) /\ more[n + 1] = p.items
        /\ \A i \in 1..n : more[i] = pages[i].items
    BY <2>1
  <2> DEFINE grown == Append(column, p.items)
  <2>3. /\ grown[n + 1] = p.items /\ \A i \in 1..n : grown[i] = column[i]
        /\ grown = [i \in 1..(n + 1) |-> grown[i]]
    <3>1. grown \in Seq(Seq(Item)) /\ Len(grown) = n + 1
      BY <1>2, <1>3
    <3>2. grown[n + 1] = p.items /\ \A i \in 1..n : grown[i] = column[i]
      BY <1>2, <1>3
    <3> HIDE DEF grown
    <3>3. grown = [i \in 1..(n + 1) |-> grown[i]]
      BY <3>1
    <3>. QED  BY <3>2, <3>3
  <2>4. \A i \in 1..(n + 1) : i \in 1..n \/ i = n + 1
    OBVIOUS
  <2>5. more = [i \in 1..(n + 1) |-> more[i]]
    BY <2>1
  <2> HIDE DEF more, column, grown
  <2>6. \A i \in 1..(n + 1) : more[i] = grown[i]
    BY <1>3, <2>2, <2>3, <2>4
  <2>7. more = grown
    BY <2>3, <2>5, <2>6
  <2>. QED  BY <2>7 DEF grown
<1>5. Items(pages) = FlattenSeq(column) /\ Items(Append(pages, p)) = FlattenSeq(more)
  BY DEF Items
<1> HIDE DEF column, more
<1>6. /\ FlattenSeq(column) \in Seq(Item)
      /\ FlattenSeq(Append(column, p.items)) = FlattenSeq(column) \o p.items
  BY <1>2, <1>3, FlattenOneMore
<1>7. Items(<<>>) = <<>>
  <2> DEFINE none == [i \in DOMAIN <<>> |-> <<>>[i].items]
  <2>1. none = <<>>
    OBVIOUS
  <2>2. Items(<<>>) = FlattenSeq(none)
    BY DEF Items
  <2> HIDE DEF none
  <2>3. Items(<<>>) = FlattenSeq(<<>>)
    BY <2>1, <2>2
  <2>. QED  BY <2>3 DEF FlattenSeq
<1>. QED  BY <1>4, <1>5, <1>6, <1>7

\* _build_order_by orders any two documents, and never in a circle.
LEMMA OrderIsTotal ==
  ASSUME NEW d \in Doc, NEW e \in Doc, NEW f \in Doc
  PROVE  /\ ~Before(d, d)
         /\ d = e \/ Before(d, e) \/ Before(e, d)
         /\ Before(d, e) /\ Before(e, f) => Before(d, f)
<1>1. /\ d \in Nat /\ e \in Nat /\ f \in Nat /\ Null \notin Nat
      /\ Key[d] \in Nat \union {Null} /\ Key[e] \in Nat \union {Null}
      /\ Key[f] \in Nat \union {Null}
  BY FeedAssumption
<1>. QED  BY <1>1 DEF Before

LEMMA OrderedOf ==
  ASSUME NEW S \in SUBSET Doc
  PROVE  /\ Cardinality(S) \in Nat
         /\ Ordered(S) \in [1..Cardinality(S) -> S]
         /\ \A d \in S : \E i \in 1..Cardinality(S) : Ordered(S)[i] = d
         /\ \A i, j \in 1..Cardinality(S) : i < j => Before(Ordered(S)[i], Ordered(S)[j])
<1> DEFINE R(d) == {e \in S : e = d \/ Before(e, d)}
           C == Cardinality(S)
           f == [d \in S |-> Cardinality(R(d))]
<1>1. IsFiniteSet(S) /\ C \in Nat /\ \A d : IsFiniteSet(R(d)) /\ Cardinality(R(d)) \in Nat
  <2>1. IsFiniteSet(S)
    BY FeedAssumption, FS_Subset
  <2>2. \A d : R(d) \in SUBSET S
    OBVIOUS
  <2>. QED  BY <2>1, <2>2, FS_Subset, FS_CardinalityType
<1>2. ASSUME NEW d \in S  PROVE Cardinality(R(d)) \in 1..C
  <2>1. R(d) \in SUBSET S /\ d \in R(d)
    OBVIOUS
  <2> HIDE DEF R
  <2>2. Cardinality(R(d)) # 0 /\ Cardinality(R(d)) <= C
    BY <1>1, <2>1, FS_EmptySet, FS_Subset
  <2>. QED  BY <1>1, <2>2
<1>3. ASSUME NEW d \in S, NEW e \in S, Before(d, e)
      PROVE  Cardinality(R(d)) < Cardinality(R(e))
  <2>1. R(d) \in SUBSET R(e)
    <3> SUFFICES ASSUME NEW x \in S, x = d \/ Before(x, d)  PROVE Before(x, e)
      OBVIOUS
    <3>. QED  BY <1>3, OrderIsTotal
  <2>2. e \in R(e) /\ e \notin R(d)
    <3>1. ~(e = d) /\ ~Before(e, d)
      BY <1>3, OrderIsTotal
    <3>. QED  BY <3>1
  <2>3. IsFiniteSet(R(e)) /\ Cardinality(R(d)) \in Nat /\ Cardinality(R(e)) \in Nat
    BY <1>1
  <2> HIDE DEF R
  <2>4. Cardinality(R(d)) <= Cardinality(R(e)) /\ (Cardinality(R(e)) = Cardinality(R(d)) => R(e) = R(d))
    BY <2>1, <2>3, FS_Subset
  <2>. QED  BY <2>2, <2>3, <2>4
<1> HIDE DEF R, C
<1>4. \A d, e \in S : d # e => f[d] # f[e]
  <2> SUFFICES ASSUME NEW d \in S, NEW e \in S, d # e  PROVE f[d] # f[e]
    OBVIOUS
  <2>1. Before(d, e) \/ Before(e, d)
    BY OrderIsTotal
  <2>2. f[d] \in Nat /\ f[e] \in Nat /\ (f[d] < f[e] \/ f[e] < f[d])
    BY <1>1, <1>3, <2>1
  <2>. QED  BY <2>2
<1>5. f \in [S -> 1..C]
  BY <1>2
<1>6. f \in Injection(S, 1..C)
  BY <1>4, <1>5 DEF Injection, IsInjective
<1>7. IsFiniteSet(1..C) /\ Cardinality(1..C) = C
  BY <1>1, FS_Interval
<1>8. f \in Surjection(S, 1..C)
  <2>1. Cardinality(S) = Cardinality(1..C)
    BY <1>7 DEF C
  <2>. QED  BY <1>1, <1>6, <1>7, <2>1, FS_Injection
<1>9. \A i \in 1..C : \E d \in S : f[d] = i
  BY <1>8 DEF Surjection
<1> DEFINE o == Ordered(S)
<1>10. o = [i \in 1..C |-> CHOOSE d \in S : f[d] = i]
  <2>1. \A d \in S : Rank(S, d) = f[d]
    BY DEF Rank, R
  <2>2. \A i \in 1..C : (CHOOSE d \in S : Rank(S, d) = i) = (CHOOSE d \in S : f[d] = i)
    <3> HIDE DEF f
    <3>. QED  BY <2>1
  <2> HIDE DEF f
  <2>. QED  BY <2>2 DEF Ordered, C
<1> HIDE DEF f, o
<1>11. \A i \in 1..C : o[i] \in S /\ f[o[i]] = i
  BY <1>9, <1>10
<1>12. o \in [1..C -> S]
  BY <1>10, <1>11
<1>13. ASSUME NEW d \in S  PROVE \E i \in 1..C : o[i] = d
  <2>1. f[d] \in 1..C
    BY <1>5
  <2>2. o[f[d]] = d
    BY <1>4, <1>11, <2>1
  <2>. QED  BY <2>1, <2>2
<1>14. ASSUME NEW i \in 1..C, NEW j \in 1..C, i < j  PROVE Before(o[i], o[j])
  <2>1. o[i] \in S /\ o[j] \in S /\ f[o[i]] = i /\ f[o[j]] = j
    BY <1>11
  <2>2. o[i] = o[j] \/ Before(o[i], o[j]) \/ Before(o[j], o[i])
    BY <2>1, OrderIsTotal
  <2>3. ~Before(o[j], o[i])
    <3> SUFFICES ASSUME Before(o[j], o[i])  PROVE FALSE
      OBVIOUS
    <3>1. Cardinality(R(o[j])) < Cardinality(R(o[i]))
      BY <1>3, <2>1
    <3>2. f[o[j]] < f[o[i]]
      BY <2>1, <3>1 DEF f
    <3>. QED  BY <1>14, <2>1, <3>2
  <2>4. o[i] # o[j]
    BY <1>1, <1>14, <2>1
  <2>. QED  BY <2>2, <2>3, <2>4
<1>. QED  BY <1>1, <1>12, <1>13, <1>14 DEF C, o

\* Each list holds the documents of its tab, each of them once, in its order.
LEMMA ListingOf ==
  ASSUME ann \in [Doc -> AnnState], NEW u, NEW t
  PROVE  LET list == Listing(u, t)
             docs == {d \in Doc : InTab(u, t, d)}
         IN  /\ list \in Seq(Item)
             /\ \A i \in DOMAIN list : list[i].doc \in docs
             /\ \A d \in docs : \E i \in DOMAIN list : list[i].doc = d
             /\ \A i, j \in DOMAIN list : i < j => Before(list[i].doc, list[j].doc)
<1> DEFINE docs == {d \in Doc : InTab(u, t, d)}
           o == Ordered(docs)
           n == Cardinality(docs)
           list == Listing(u, t)
<1>1. docs \in SUBSET Doc
  OBVIOUS
<1> HIDE DEF docs
<1>2. /\ n \in Nat /\ o \in [1..n -> docs]
      /\ \A d \in docs : \E i \in 1..n : o[i] = d
      /\ \A i, j \in 1..n : i < j => Before(o[i], o[j])
  BY <1>1, OrderedOf
<1>3. list = [i \in DOMAIN o |-> [doc |-> o[i], state |-> StateOf(t, o[i])]]
  BY DEF Listing, docs
<1> HIDE DEF o, n, list
<1>4. DOMAIN o = 1..n
  BY <1>2
<1>5. list = [i \in 1..n |-> [doc |-> o[i], state |-> StateOf(t, o[i])]]
  BY <1>3, <1>4
<1>6. \A d \in Doc : StateOf(t, d) \in {"new", "draft", "review", "verified"}
  BY DEF StateOf
<1>7. \A i \in 1..n : o[i] \in docs /\ o[i] \in Doc
  BY <1>1, <1>2
<1>8. \A i \in 1..n : list[i] \in Item /\ list[i].doc = o[i]
  BY <1>5, <1>6, <1>7 DEF Item
<1>9. DOMAIN list = 1..n /\ list \in Seq(Item)
  BY <1>2, <1>5, <1>8
<1>10. \A i \in DOMAIN list : list[i].doc \in docs
  BY <1>7, <1>8, <1>9
<1>11. \A d \in docs : \E i \in DOMAIN list : list[i].doc = d
  BY <1>2, <1>8, <1>9
<1>12. \A i, j \in DOMAIN list : i < j => Before(list[i].doc, list[j].doc)
  BY <1>2, <1>8, <1>9
<1>. QED  BY <1>9, <1>10, <1>11, <1>12 DEF docs, list

-----------------------------------------------------------------------------
(* Live views: the broker.                                                 *)

LEMMA FilledOf ==
  ASSUME NEW q \in Seq(Kind), Len(q) <= QueueCap, NEW n \in Nat
  PROVE  /\ Filled(q, n) \in Seq(Kind) /\ Len(Filled(q, n)) <= QueueCap
         /\ Range(q) \subseteq Range(Filled(q, n))
<1> DEFINE p == [i \in 1..n |-> "presence"]
           all == q \o p
           r == Start(all, QueueCap)
<1>1. p \in Seq(Kind) /\ QueueCap \in Nat /\ Len(q) \in Nat
  BY LiveAssumption DEF Kind
<1>2. /\ all \in Seq(Kind) /\ Len(all) \in Nat /\ Len(q) <= Len(all)
      /\ \A i \in 1..Len(q) : all[i] = q[i]
  BY <1>1
<1> HIDE DEF all
<1>3. /\ r \in Seq(Kind) /\ Len(r) = IF QueueCap <= Len(all) THEN QueueCap ELSE Len(all)
      /\ \A i \in 1..Len(r) : r[i] = all[i]
  BY <1>1, <1>2, StartOf
<1> HIDE DEF r
<1>4. Len(r) <= QueueCap /\ \A i \in 1..Len(q) : i \in 1..Len(r) /\ r[i] = q[i]
  BY <1>1, <1>2, <1>3
<1>5. Range(q) \subseteq Range(r)
  BY <1>3, <1>4 DEF Range
<1>. QED  BY <1>3, <1>4, <1>5 DEF r, all, Filled

\* What every connection has after the broker has told the subscribers S of
\* something: events are added to a queue that stays, and never taken from it.
Heard(told, S) ==
  /\ told.sub \subseteq S /\ told.gone = Users(S) \ Users(told.sub)
  /\ told.queue \in [Stream -> Seq(Kind)]
  /\ \A s \in Stream : Len(told.queue[s]) <= QueueCap
  /\ \A s \in told.sub : Range(queue[s]) \subseteq Range(told.queue[s])

\* A publication reaches every subscriber it is meant for and that is not dropped.
LEMMA PublishedIsHeard ==
  ASSUME LiveTypeOK, NEW S \in SUBSET Stream, IsFiniteSet(S), NEW T, NEW kind \in Kind
  PROVE  LET told == Published(S, T, kind)
         IN  Heard(told, S) /\ \A s \in told.sub \intersect T : kind \in Range(told.queue[s])
<1> DEFINE kept == S \ Full(S \intersect T)
           gone == Gone(S, T)
           n == Cardinality(gone)
           base(s) == IF s \in T THEN Append(queue[s], kind) ELSE queue[s]
           next == [s \in Stream |-> IF s \notin kept THEN queue[s] ELSE Filled(base(s), n)]
<1>1. gone = Users(S) \ Users(kept)
  BY DEF Gone, Users, Full
<1>2. n \in Nat
  <2> DEFINE f == [s \in S |-> OwnerOf[s]]
  <2>1. f \in Surjection(S, Users(S))
    BY DEF Surjection, Users
  <2>2. IsFiniteSet(Users(S))
    BY <2>1, FS_Surjection
  <2>3. gone \in SUBSET Users(S)
    BY <1>1
  <2> HIDE DEF gone
  <2>. QED  BY <2>2, <2>3, FS_Subset, FS_CardinalityType
<1>3. queue \in [Stream -> Seq(Kind)] /\ \A s \in Stream : Len(queue[s]) <= QueueCap
  BY DEF LiveTypeOK
<1>4. QueueCap \in Nat
  BY LiveAssumption
<1>5. ASSUME NEW s \in kept
      PROVE  /\ base(s) \in Seq(Kind) /\ Len(base(s)) <= QueueCap
             /\ Range(queue[s]) \subseteq Range(base(s))
             /\ s \in T => kind \in Range(base(s))
  <2>1. s \in Stream /\ queue[s] \in Seq(Kind) /\ Len(queue[s]) <= QueueCap /\ Len(queue[s]) \in Nat
    BY <1>3
  <2>2. CASE s \in T
    <3> DEFINE q == Append(queue[s], kind)
    <3>1. Len(queue[s]) # QueueCap
      BY <1>5, <2>2 DEF Full
    <3>2. /\ q \in Seq(Kind) /\ Len(q) = Len(queue[s]) + 1 /\ q[Len(queue[s]) + 1] = kind
          /\ \A i \in 1..Len(queue[s]) : q[i] = queue[s][i]
      BY <2>1
    <3> HIDE DEF q
    <3>3. Len(q) <= QueueCap
      BY <1>4, <2>1, <3>1, <3>2
    <3>4. DOMAIN q = 1..(Len(queue[s]) + 1) /\ DOMAIN queue[s] = 1..Len(queue[s])
      BY <2>1, <3>2
    <3>5. Range(queue[s]) \subseteq Range(q) /\ kind \in Range(q)
      BY <2>1, <3>2, <3>4 DEF Range
    <3>. QED  BY <2>2, <3>2, <3>3, <3>5 DEF q
  <2>3. CASE s \notin T
    BY <2>1, <2>3
  <2>. QED  BY <2>2, <2>3
<1> HIDE DEF gone, n, base
<1>6. \A s \in kept : /\ Filled(base(s), n) \in Seq(Kind) /\ Len(Filled(base(s), n)) <= QueueCap
                      /\ Range(base(s)) \subseteq Range(Filled(base(s), n))
  BY <1>2, <1>5, FilledOf
<1> HIDE DEF kept
<1>7. kept \subseteq S /\ kept \subseteq Stream
  BY DEF kept
<1>8. /\ next \in [Stream -> Seq(Kind)] /\ \A s \in Stream : Len(next[s]) <= QueueCap
      /\ \A s \in kept : next[s] = Filled(base(s), n)
  BY <1>3, <1>6, <1>7
<1>9. Published(S, T, kind) = [sub |-> kept, gone |-> gone, queue |-> next]
  BY DEF Published, kept, gone, n, base
<1> HIDE DEF next
<1> DEFINE told == Published(S, T, kind)
<1>10. told.sub = kept /\ told.gone = gone /\ told.queue = next
  BY <1>9
<1> HIDE DEF told
<1>11. \A s \in kept : Range(queue[s]) \subseteq Range(next[s]) /\ (s \in T => kind \in Range(next[s]))
  BY <1>5, <1>6, <1>8
<1>. QED  BY <1>1, <1>7, <1>8, <1>10, <1>11 DEF Heard, told

-----------------------------------------------------------------------------
(* Live views: every step keeps the types.                                 *)

\* The connections are finitely many, as each was made in a step.
LiveTyped == LiveTypeOK /\ IsFiniteSet(live)

LEMMA HeardIsTyped ==
  ASSUME LiveTyped, NEW S \in SUBSET Stream, NEW told, Heard(told, S), Tell(told),
         S \subseteq live'
  PROVE  /\ sub' \subseteq live'
         /\ queue' \in [Stream -> Seq(Kind)] /\ \A s \in Stream : Len(queue'[s]) <= QueueCap
         /\ feedSure' \in BOOLEAN /\ rosterSure' \in BOOLEAN
<1>1. sub' \subseteq live' /\ queue' = told.queue
  BY DEF Heard, Tell
<1>2. queue' \in [Stream -> Seq(Kind)] /\ \A s \in Stream : Len(queue'[s]) <= QueueCap
  BY <1>1 DEF Heard
<1>3. feedSure' \in BOOLEAN
  BY DEF Tell
<1>4. rosterSure' \in BOOLEAN
  BY DEF Tell
<1>. QED  BY <1>1, <1>2, <1>3, <1>4

LEMMA OpenedIsTyped ==
  ASSUME LiveTyped, NEW s \in Stream, NEW announced \in BOOLEAN, Opened(s, announced)
  PROVE  /\ live' \subseteq Stream /\ IsFiniteSet(live') /\ sub' \subseteq live'
         /\ queue' \in [Stream -> Seq(Kind)] /\ \A t \in Stream : Len(queue'[t]) <= QueueCap
         /\ feedSure' \in BOOLEAN /\ rosterSure' \in BOOLEAN
<1> DEFINE S == sub \union {s}
           told == Published(S, S \intersect Others(s), "presence")
<1>1. live' = live \union {s} /\ live \subseteq Stream /\ sub \subseteq live
  BY DEF Opened, LiveTyped, LiveTypeOK
<1>2. live' \subseteq Stream /\ IsFiniteSet(live') /\ S \in SUBSET live'
  BY <1>1, FS_AddElement DEF LiveTyped
<1>3. S \in SUBSET Stream /\ IsFiniteSet(S)
  BY <1>2, FS_Subset
<1> HIDE DEF S
<1>4. CASE announced
  <2>1. Tell(told)
    BY <1>4 DEF Opened, S
  <2>2. Heard(told, S)
    BY <1>3, PublishedIsHeard DEF LiveTyped, Kind
  <2> HIDE DEF told
  <2>. QED  BY <1>2, <1>3, <2>1, <2>2, HeardIsTyped
<1>5. CASE ~announced
  <2>1. /\ sub' = S /\ queue' = queue /\ feedSure' = feedSure
        /\ rosterSure' = (rosterSure /\ Online = Users(S))
    BY <1>5 DEF Opened, S
  <2>2. rosterSure' \in BOOLEAN
    BY <2>1
  <2>. QED  BY <1>2, <2>1, <2>2 DEF LiveTyped, LiveTypeOK
<1>. QED  BY <1>4, <1>5

\* The step changes nothing that has a type but what is named here.
LEMMA ConnectIsTyped ==
  ASSUME LiveTyped, NEW u \in Reader, Connect(u)  PROVE LiveTyped'
<1>1. PICK announced \in BOOLEAN : Opened(CHOOSE s \in Free(u) : TRUE, announced)
  BY DEF Connect
<1>2. (CHOOSE s \in Free(u) : TRUE) \in Stream
  BY DEF Connect, Free, StreamsOf
<1>3. /\ live' \subseteq Stream /\ IsFiniteSet(live') /\ sub' \subseteq live'
      /\ queue' \in [Stream -> Seq(Kind)] /\ \A t \in Stream : Len(queue'[t]) <= QueueCap
      /\ feedSure' \in BOOLEAN /\ rosterSure' \in BOOLEAN
  BY <1>1, <1>2, OpenedIsTyped
<1>4. UNCHANGED <<ann, draft, owed, tab, link, feed, roster, own>>
  BY DEF Connect, corpusVars
<1>. QED  BY <1>3, <1>4 DEF LiveTyped, LiveTypeOK

LEMMA PageConnectIsTyped == ASSUME LiveTyped, PageConnect  PROVE LiveTyped'
<1> DEFINE s == CHOOSE t \in PageStream \ live : TRUE
<1>1. Opened(s, TRUE) /\ link' = s
  BY DEF PageConnect
<1>2. s \in PageStream
  BY DEF PageConnect
<1>3. s \in Stream
  BY <1>2, LiveAssumption
<1> HIDE DEF s
<1>4. /\ live' \subseteq Stream /\ IsFiniteSet(live') /\ sub' \subseteq live'
      /\ queue' \in [Stream -> Seq(Kind)] /\ \A t \in Stream : Len(queue'[t]) <= QueueCap
      /\ feedSure' \in BOOLEAN /\ rosterSure' \in BOOLEAN
  BY <1>1, <1>3, OpenedIsTyped
<1>5. UNCHANGED <<ann, draft, owed, tab, feed, roster, own>>
  BY DEF PageConnect, corpusVars
<1>. QED  BY <1>1, <1>2, <1>4, <1>5 DEF LiveTyped, LiveTypeOK

LEMMA InvalidatedIsTyped ==
  ASSUME LiveTyped, NEW conn, FeedInvalidated(conn)
  PROVE  feed' \in FeedQuery /\ feedSure' \in BOOLEAN
<1>1. feed \in FeedQuery
  BY DEF LiveTyped, LiveTypeOK
<1>2. Sent(0) \in Ask /\ <<>> \in Seq(Page) /\ {"nothing", "joined"} \subseteq Missed
  BY DEF Sent, Ask, Missed
<1>3. /\ [feed EXCEPT !.acc = <<>>, !.ask = Sent(0), !.missed = "nothing"] \in FeedQuery
      /\ [feed EXCEPT !.missed = "joined"] \in FeedQuery
  BY <1>1, <1>2 DEF FeedQuery
<1>4. feed' \in FeedQuery
  BY <1>1, <1>3 DEF FeedInvalidated
<1>5. feedSure' \in BOOLEAN
  BY DEF FeedInvalidated
<1>. QED  BY <1>4, <1>5

LEMMA RosterInvalidatedIsTyped ==
  ASSUME LiveTyped, NEW conn, RosterInvalidated(conn)
  PROVE  /\ roster' \in [seen: BOOLEAN, data: SUBSET Reader, answer: SUBSET Reader,
                         stage: {"none", "idle", "sent", "answered"}]
         /\ rosterSure' \in BOOLEAN
<1>1. /\ roster \in [seen: BOOLEAN, data: SUBSET Reader, answer: SUBSET Reader,
                    stage: {"none", "idle", "sent", "answered"}]
      /\ rosterSure \in BOOLEAN
  BY DEF LiveTyped, LiveTypeOK
<1>2. [roster EXCEPT !.stage = "sent", !.answer = {}] \in
        [seen: BOOLEAN, data: SUBSET Reader, answer: SUBSET Reader,
         stage: {"none", "idle", "sent", "answered"}]
  BY <1>1
<1>3. rosterSure' = rosterSure \/ rosterSure' = (conn \in sub)
  BY DEF RosterInvalidated
<1>4. rosterSure \in BOOLEAN /\ (conn \in sub) \in BOOLEAN
  BY <1>1
<1>5. rosterSure' \in BOOLEAN
  BY <1>3, <1>4
<1>. QED  BY <1>1, <1>2, <1>5 DEF RosterInvalidated

LEMMA LinkLostIsTyped == ASSUME LiveTyped, LinkLost  PROVE LiveTyped'
<1>1. FeedInvalidated(Nil) /\ RosterInvalidated(Nil) /\ link' = Nil
  BY DEF LinkLost
<1>2. UNCHANGED <<ann, draft, owed, live, sub, queue, tab, own>>
  BY DEF LinkLost, corpusVars, brokerVars
<1>. QED  BY <1>1, <1>2, InvalidatedIsTyped, RosterInvalidatedIsTyped DEF LiveTyped, LiveTypeOK

\* What the end of a connection tells the others.
Ended(s) ==
  LET S == sub \ {s}
      told == IF OwnerOf[s] \notin Users(S) THEN Published(S, S \intersect Others(s), "presence")
              ELSE [sub |-> S, gone |-> {}, queue |-> queue]
  IN  [told EXCEPT !.queue[s] = <<>>]

LEMMA EndedIsHeard ==
  ASSUME LiveTyped, NEW s \in Stream
  PROVE  LET S == sub \ {s}
             told == Ended(s)
         IN  /\ Heard(told, S)
             /\ OwnerOf[s] \notin Users(S) =>
                  \A t \in told.sub \intersect Others(s) : "presence" \in Range(told.queue[t])
<1> DEFINE S == sub \ {s}
           pub == Published(S, S \intersect Others(s), "presence")
           quiet == [sub |-> S, gone |-> {}, queue |-> queue]
           offline == OwnerOf[s] \notin Users(S)
           base == IF offline THEN pub ELSE quiet
           told == Ended(s)
<1>1. S \in SUBSET Stream /\ IsFiniteSet(S) /\ s \notin S
  <2>1. live \subseteq Stream /\ S \in SUBSET live /\ IsFiniteSet(live)
    BY DEF LiveTyped, LiveTypeOK
  <2> HIDE DEF S
  <2>. QED  BY <2>1, FS_Subset DEF S
<1>2. Heard(pub, S) /\ \A t \in pub.sub \intersect (S \intersect Others(s)) : "presence" \in Range(pub.queue[t])
  <2>1. "presence" \in Kind /\ LiveTypeOK
    BY DEF Kind, LiveTyped
  <2> HIDE DEF S
  <2>. QED  BY <1>1, <2>1, PublishedIsHeard
<1>3. Heard(quiet, S)
  BY DEF Heard, LiveTyped, LiveTypeOK
<1>4. pub = [sub |-> pub.sub, gone |-> pub.gone, queue |-> pub.queue]
  BY DEF Published
<1> HIDE DEF S, pub
<1>5. base = [sub |-> base.sub, gone |-> base.gone, queue |-> base.queue]
  BY <1>4
<1>6. Heard(base, S)
  BY <1>2, <1>3
<1>7. told = [base EXCEPT !.queue[s] = <<>>]
  BY DEF Ended, S, pub
<1>8. offline => base = pub
  OBVIOUS
<1> HIDE DEF base, told, offline
<1>9. told = [sub |-> base.sub, gone |-> base.gone, queue |-> [base.queue EXCEPT ![s] = <<>>]]
  BY <1>5, <1>7
<1>10. /\ told.sub = base.sub /\ told.gone = base.gone
       /\ told.queue = [base.queue EXCEPT ![s] = <<>>]
  BY <1>9
<1>11. base.queue \in [Stream -> Seq(Kind)] /\ base.sub \subseteq S
  BY <1>6 DEF Heard
<1>12. /\ told.queue \in [Stream -> Seq(Kind)] /\ told.queue[s] = <<>>
       /\ \A t \in Stream \ {s} : told.queue[t] = base.queue[t]
  BY <1>10, <1>11
<1>13. \A t \in Stream : Len(told.queue[t]) <= QueueCap
  <2>1. Len(<<>>) <= QueueCap
    BY LiveAssumption
  <2>. QED  BY <1>6, <1>12, <2>1 DEF Heard
<1>14. \A t \in told.sub : t \in S /\ t \in Stream \ {s} /\ told.queue[t] = base.queue[t]
  BY <1>1, <1>10, <1>11, <1>12
<1>15. Heard(told, S)
  BY <1>6, <1>10, <1>12, <1>13, <1>14 DEF Heard
<1>16. offline => \A t \in told.sub \intersect Others(s) : "presence" \in Range(told.queue[t])
  BY <1>2, <1>8, <1>10, <1>14
<1>. QED  BY <1>15, <1>16 DEF S, told, offline

LEMMA StreamEndsIsTyped ==
  ASSUME LiveTyped, NEW s \in Stream, StreamEnds(s)  PROVE LiveTyped'
<1>1. Tell(Ended(s)) /\ live' = live \ {s}
  BY DEF StreamEnds, Ended
<1>2. UNCHANGED <<ann, draft, owed, tab, link, feed, roster, own>>
  BY DEF StreamEnds, corpusVars
<1>3. live' \subseteq Stream /\ IsFiniteSet(live') /\ sub \ {s} \in SUBSET Stream /\ sub \ {s} \subseteq live'
  BY <1>1, FS_RemoveElement DEF LiveTyped, LiveTypeOK
<1>4. Heard(Ended(s), sub \ {s})
  BY EndedIsHeard
<1>5. /\ sub' \subseteq live'
      /\ queue' \in [Stream -> Seq(Kind)] /\ \A t \in Stream : Len(queue'[t]) <= QueueCap
      /\ feedSure' \in BOOLEAN /\ rosterSure' \in BOOLEAN
  BY <1>1, <1>3, <1>4, HeardIsTyped
<1>. QED  BY <1>2, <1>3, <1>5 DEF LiveTyped, LiveTypeOK

LEMMA DeliverIsTyped ==
  ASSUME LiveTyped, NEW s \in Stream, Deliver(s)  PROVE LiveTyped'
<1>1. UNCHANGED <<ann, draft, owed, live, sub, tab, link, own>>
  BY DEF Deliver, corpusVars
<1>2. queue \in [Stream -> Seq(Kind)] /\ \A t \in Stream : Len(queue[t]) <= QueueCap
  BY DEF LiveTyped, LiveTypeOK
<1>3. queue[s] \in Seq(Kind) /\ queue[s] # <<>> /\ queue' = [queue EXCEPT ![s] = Tail(@)]
  BY <1>2 DEF Deliver
<1>4. Tail(queue[s]) \in Seq(Kind) /\ Len(Tail(queue[s])) = Len(queue[s]) - 1
  BY <1>3
<1>5. queue' \in [Stream -> Seq(Kind)] /\ \A t \in Stream : Len(queue'[t]) <= QueueCap
  <2>1. Len(queue[s]) <= QueueCap /\ Len(queue[s]) \in Nat /\ QueueCap \in Nat
    BY <1>2, <1>3, LiveAssumption
  <2>2. Len(Tail(queue[s])) <= QueueCap
    BY <1>4, <2>1
  <2>. QED  BY <1>2, <1>3, <1>4, <2>2
<1>6. \/ FeedInvalidated(s)
      \/ UNCHANGED <<feed, feedSure>>
  BY DEF Deliver
<1>7. \/ RosterInvalidated(s)
      \/ UNCHANGED <<roster, rosterSure>>
  BY DEF Deliver
<1>8. feed' \in FeedQuery /\ feedSure' \in BOOLEAN
  <2>1. CASE FeedInvalidated(s)
    BY <2>1, InvalidatedIsTyped
  <2>2. CASE UNCHANGED <<feed, feedSure>>
    BY <2>2 DEF LiveTyped, LiveTypeOK
  <2>. QED  BY <1>6, <2>1, <2>2
<1>9. /\ roster' \in [seen: BOOLEAN, data: SUBSET Reader, answer: SUBSET Reader,
                      stage: {"none", "idle", "sent", "answered"}]
      /\ rosterSure' \in BOOLEAN
  <2>1. CASE RosterInvalidated(s)
    BY <2>1, RosterInvalidatedIsTyped
  <2>2. CASE UNCHANGED <<roster, rosterSure>>
    BY <2>2 DEF LiveTyped, LiveTypeOK
  <2>. QED  BY <1>7, <2>1, <2>2
<1>. QED  BY <1>1, <1>5, <1>8, <1>9 DEF LiveTyped, LiveTypeOK

LEMMA WritesAreTyped ==
  ASSUME LiveTyped, NEW u \in Reader, NEW d \in Doc, Save(u, d) \/ Complete(u, d) \/ Uncomplete(d)
  PROVE  LiveTyped'
<1>1. UNCHANGED <<live, sub, queue, tab, link, feed, roster, own, feedSure, rosterSure>>
  BY DEF Save, Complete, Uncomplete, brokerVars, pageVars
<1>2. ann' \in [Doc -> AnnState]
  <2>1. ann \in [Doc -> AnnState]
    BY DEF LiveTyped, LiveTypeOK
  <2>2. \E state \in AnnState : ann' = [ann EXCEPT ![d] = state]
    BY DEF Save, Complete, Uncomplete, AnnState
  <2>. QED  BY <2>1, <2>2
<1>3. draft' \in [Reader -> [Doc -> DraftState]]
  <2>1. draft \in [Reader -> [Doc -> DraftState]]
    BY DEF LiveTyped, LiveTypeOK
  <2>2. draft' = draft \/ Undrafted(u, d)
    BY DEF Save, Complete, Uncomplete
  <2>3. [draft EXCEPT ![u][d] = "none"] \in [Reader -> [Doc -> DraftState]]
    BY <2>1 DEF DraftState
  <2>. QED  BY <2>1, <2>2, <2>3 DEF Undrafted
<1>4. owed' \in Seq({"saved", "completed"})
  <2>1. owed' = <<"saved">> \/ owed' = <<"completed">> \/ owed' = <<"saved", "completed">>
    BY DEF Save, Complete, Uncomplete
  <2>2. <<"saved">> \in Seq({"saved", "completed"}) /\ <<"completed">> \in Seq({"saved", "completed"})
    OBVIOUS
  <2>3. <<"saved", "completed">> \in Seq({"saved", "completed"})
    OBVIOUS
  <2>. QED  BY <2>1, <2>2, <2>3
<1>. QED  BY <1>1, <1>2, <1>3, <1>4 DEF LiveTyped, LiveTypeOK

LEMMA DraftsAreTyped ==
  ASSUME LiveTyped,
         \/ \E u \in Reader, d \in Doc, state \in DraftState : WriteDraft(u, d, state)
         \/ RetentionPurge
  PROVE  LiveTyped'
<1>1. UNCHANGED <<ann, owed, live, sub, queue, tab, link, feed, roster, own, rosterSure>>
  BY DEF WriteDraft, RetentionPurge, brokerVars
<1>2. draft \in [Reader -> [Doc -> DraftState]]
  BY DEF LiveTyped, LiveTypeOK
<1>3. draft' \in [Reader -> [Doc -> DraftState]]
  <2>1. CASE \E u \in Reader, d \in Doc, state \in DraftState : WriteDraft(u, d, state)
    <3>1. PICK u \in Reader, d \in Doc, state \in DraftState : WriteDraft(u, d, state)
      BY <2>1
    <3>2. draft' = [draft EXCEPT ![u][d] = state]
      BY <3>1 DEF WriteDraft
    <3>. QED  BY <1>2, <3>2
  <2>2. CASE RetentionPurge
    <3>1. PICK D : draft' = Undeleted(D)
      BY <2>2 DEF RetentionPurge
    <3>2. Undeleted(D) \in [Reader -> [Doc -> DraftState]]
      BY <1>2 DEF Undeleted, DraftState
    <3>. QED  BY <3>1, <3>2
  <2>. QED  BY <2>1, <2>2
<1>4. feedSure' \in BOOLEAN
  BY DEF WriteDraft, RetentionPurge
<1>. QED  BY <1>1, <1>3, <1>4 DEF LiveTyped, LiveTypeOK

\* publish_broadcast: who stays subscribed has the event in its queue.
LEMMA Broadcast ==
  ASSUME LiveTyped, Publish \/ LockEvent
  PROVE  \E told : /\ Tell(told) /\ Heard(told, sub)
                   /\ \A s \in told.sub : FeedKind \intersect Range(told.queue[s]) # {}
<1>1. PICK kind \in FeedKind : Tell(Published(sub, sub, kind))
  <2>1. CASE Publish
    <3>1. owed \in Seq({"saved", "completed"}) /\ owed # <<>>
      BY <2>1 DEF Publish, LiveTyped, LiveTypeOK
    <3>2. Head(owed) \in FeedKind
      BY <3>1 DEF FeedKind
    <3>. QED  BY <2>1, <3>2 DEF Publish
  <2>2. CASE LockEvent
    BY <2>2 DEF LockEvent, FeedKind
  <2>. QED  BY <2>1, <2>2
<1>2. sub \in SUBSET Stream /\ IsFiniteSet(sub) /\ kind \in Kind /\ LiveTypeOK
  BY FS_Subset DEF LiveTyped, LiveTypeOK, Kind
<1> DEFINE told == Published(sub, sub, kind)
<1>3. Heard(told, sub) /\ \A s \in told.sub \intersect sub : kind \in Range(told.queue[s])
  BY <1>2, PublishedIsHeard
<1>4. Tell(told)
  BY <1>1
<1> HIDE DEF told
<1>5. told.sub \subseteq sub
  BY <1>3 DEF Heard
<1>6. \A s \in told.sub : FeedKind \intersect Range(told.queue[s]) # {}
  BY <1>1, <1>3, <1>5
<1>. QED  BY <1>3, <1>4, <1>6

LEMMA BroadcastIsTyped ==
  ASSUME LiveTyped, Publish \/ LockEvent  PROVE LiveTyped'
<1>1. sub \in SUBSET Stream /\ sub \subseteq live
  BY DEF LiveTyped, LiveTypeOK
<1>2. PICK told : Tell(told) /\ Heard(told, sub)
  BY Broadcast
<1>3. UNCHANGED <<ann, draft, live, tab, link, feed, roster, own>>
  BY DEF Publish, LockEvent, corpusVars
<1>4. owed' \in Seq({"saved", "completed"})
  <2>1. owed \in Seq({"saved", "completed"})
    BY DEF LiveTyped, LiveTypeOK
  <2>. QED  BY <2>1 DEF Publish, LockEvent
<1>5. /\ sub' \subseteq live'
      /\ queue' \in [Stream -> Seq(Kind)] /\ \A t \in Stream : Len(queue'[t]) <= QueueCap
      /\ feedSure' \in BOOLEAN /\ rosterSure' \in BOOLEAN
  BY <1>1, <1>2, <1>3, HeardIsTyped
<1>. QED  BY <1>1, <1>3, <1>4, <1>5 DEF LiveTyped, LiveTypeOK

LEMMA OnlineIsTyped == ASSUME LiveTyped  PROVE Online \in SUBSET Reader
  BY LiveAssumption DEF Online, Users, LiveTyped, LiveTypeOK

LEMMA RosterFetchIsTyped ==
  ASSUME LiveTyped, RosterRead \/ RosterReceive \/ Poll  PROVE LiveTyped'
<1> DEFINE R == [seen: BOOLEAN, data: SUBSET Reader, answer: SUBSET Reader,
                 stage: {"none", "idle", "sent", "answered"}]
<1>1. UNCHANGED <<ann, draft, owed, live, sub, queue, tab, link, feed, own, feedSure>>
  BY DEF RosterRead, RosterReceive, Poll, Polled, corpusVars, brokerVars
<1>2. roster \in R
  BY DEF LiveTyped, LiveTypeOK
<1>3. roster' \in R
  <2>1. CASE RosterRead
    <3>1. [roster EXCEPT !.answer = Online, !.stage = "answered"] \in R
      BY <1>2, OnlineIsTyped
    <3>. QED  BY <2>1, <3>1 DEF RosterRead
  <2>2. CASE RosterReceive
    BY <1>2, <2>2 DEF RosterReceive
  <2>3. CASE Poll
    BY <1>2, <2>3 DEF Poll, Polled
  <2>. QED  BY <2>1, <2>2, <2>3
<1>4. rosterSure' \in BOOLEAN
  <2>1. rosterSure \in BOOLEAN /\ (link \in sub) \in BOOLEAN
    BY DEF LiveTyped, LiveTypeOK
  <2>2. rosterSure' = rosterSure \/ rosterSure' = (link \in sub)
    BY DEF RosterRead, RosterReceive, Poll, Polled
  <2>. QED  BY <2>1, <2>2
<1>. QED  BY <1>1, <1>3, <1>4 DEF LiveTyped, LiveTypeOK

\* What a feed query may be.
LEMMA FeedSelectIsTyped ==
  ASSUME feed \in FeedQuery, ann \in [Doc -> AnnState], FeedSelect  PROVE feed' \in FeedQuery
<1> DEFINE items == PageAt(Listing(Viewer, tab), feed.ask.offset)
           stage == IF feed.ask.stage = "sent" /\ feed.ask.offset = 0 THEN "selected" ELSE "answered"
<1>1. feed.ask.offset \in Nat /\ feed.ask \in Ask
  BY DEF FeedQuery, Ask
<1>2. items \in Seq(Item)
  <2>1. Listing(Viewer, tab) \in Seq(Item)
    BY ListingOf
  <2>. QED  BY <1>1, <2>1, PageOf
<1>3. feed' = [feed EXCEPT !.ask.items = items, !.ask.stage = stage]
  BY DEF FeedSelect, FeedQuery, Ask
<1>4. stage \in {"selected", "answered"}
  OBVIOUS
<1> HIDE DEF items, stage
<1>5. feed' = [pages |-> feed.pages, acc |-> feed.acc, missed |-> feed.missed,
               ask |-> [offset |-> feed.ask.offset, stage |-> stage,
                        items |-> items, total |-> feed.ask.total]]
  BY <1>3 DEF FeedQuery, Ask
<1>. QED  BY <1>2, <1>4, <1>5 DEF FeedQuery, Ask

LEMMA FeedCountIsTyped ==
  ASSUME feed \in FeedQuery, ann \in [Doc -> AnnState], FeedCount  PROVE feed' \in FeedQuery
<1> DEFINE n == Len(Listing(Viewer, tab))
<1>1. n \in Nat
  <2>1. Listing(Viewer, tab) \in Seq(Item)
    BY ListingOf
  <2>. QED  BY <2>1
<1>2. feed' = [feed EXCEPT !.ask.total = n, !.ask.stage = "answered"]
  BY DEF FeedCount
<1> HIDE DEF n
<1>3. feed' = [pages |-> feed.pages, acc |-> feed.acc, missed |-> feed.missed,
               ask |-> [offset |-> feed.ask.offset, stage |-> "answered",
                        items |-> feed.ask.items, total |-> n]]
  BY <1>2 DEF FeedQuery, Ask
<1>. QED  BY <1>1, <1>3 DEF FeedQuery, Ask

LEMMA SentIsAsked == ASSUME NEW pages \in Seq(Page)  PROVE Sent(Len(Items(pages))) \in Ask
<1>1. PICK n \in Nat : n = Len(Items(pages))
  <2>1. [items |-> <<>>, total |-> Nil] \in Page
    BY DEF Page
  <2>2. Items(pages) \in Seq(Item)
    BY <2>1, ItemsOf
  <2>. QED  BY <2>2
<1>2. Sent(n) \in Ask
  BY DEF Sent, Ask
<1>. QED  BY <1>1, <1>2

LEMMA NoAskIsAsked == NoAsk \in Ask
<1>1. NoAsk = [offset |-> 0, stage |-> "idle", items |-> <<>>, total |-> Nil]
  BY DEF NoAsk, Sent
<1>. QED  BY <1>1 DEF Ask

LEMMA FeedReceiveIsTyped ==
  ASSUME feed \in FeedQuery, FeedReceive  PROVE feed' \in FeedQuery
<1> DEFINE p == [items |-> feed.ask.items, total |-> feed.ask.total]
           got == Append(feed.acc, p)
<1>1. p \in Page
  BY DEF FeedQuery, Ask, Page
<1> HIDE DEF p
<1>2. got \in Seq(Page)
  BY <1>1 DEF FeedQuery
<1> HIDE DEF got
<1> DEFINE empty == <<>>
<1>0. empty \in Seq(Page)
  OBVIOUS
<1>3. \/ feed' = [feed EXCEPT !.acc = got, !.ask = Sent(Len(Items(got)))]
      \/ feed' = [feed EXCEPT !.pages = got, !.acc = empty, !.ask = NoAsk]
  BY DEF FeedReceive, got, p
<1> HIDE DEF empty
<1>4. Sent(Len(Items(got))) \in Ask
  BY <1>2, SentIsAsked
<1>5. NoAsk \in Ask
  BY NoAskIsAsked
<1>6. [feed EXCEPT !.acc = got, !.ask = Sent(Len(Items(got)))] \in FeedQuery
  BY <1>2, <1>4 DEF FeedQuery
<1>7. [feed EXCEPT !.pages = got, !.acc = empty, !.ask = NoAsk] \in FeedQuery
  BY <1>0, <1>2, <1>5 DEF FeedQuery
<1>8. CASE feed' = [feed EXCEPT !.acc = got, !.ask = Sent(Len(Items(got)))]
  BY ONLY <1>6, <1>8
<1>9. CASE feed' = [feed EXCEPT !.pages = got, !.acc = empty, !.ask = NoAsk]
  BY ONLY <1>7, <1>9
<1>. QED  BY ONLY <1>3, <1>8, <1>9

LEMMA FeedMoreIsTyped ==
  ASSUME feed \in FeedQuery, FeedMore  PROVE feed' \in FeedQuery
<1>1. feed.pages \in Seq(Page) /\ feed.missed \in Missed /\ "scrolled" \in Missed
  BY DEF FeedQuery, Missed
<1>2. Sent(Len(Items(feed.pages))) \in Ask
  BY <1>1, SentIsAsked
<1>. QED  BY <1>1, <1>2 DEF FeedMore, FeedQuery

LEMMA FeedFailsIsTyped ==
  ASSUME feed \in FeedQuery, FeedFails  PROVE feed' \in FeedQuery
<1>1. feed.missed \in Missed /\ "failed" \in Missed /\ <<>> \in Seq(Page)
  BY DEF FeedQuery, Missed
<1>. QED  BY <1>1, NoAskIsAsked DEF FeedFails, FeedQuery

LEMMA FeedFetchIsTyped ==
  ASSUME LiveTyped, FeedSelect \/ FeedCount \/ FeedReceive \/ FeedMore \/ FeedFails
  PROVE  LiveTyped'
<1>1. UNCHANGED <<ann, draft, owed, live, sub, queue, tab, link, roster, own, feedSure, rosterSure>>
  BY DEF FeedSelect, FeedCount, FeedReceive, FeedMore, FeedFails, corpusVars, brokerVars
<1>2. feed \in FeedQuery /\ ann \in [Doc -> AnnState]
  BY DEF LiveTyped, LiveTypeOK
<1>3. feed' \in FeedQuery
  BY <1>2, FeedSelectIsTyped, FeedCountIsTyped, FeedReceiveIsTyped, FeedMoreIsTyped, FeedFailsIsTyped
<1>. QED  BY <1>1, <1>3 DEF LiveTyped, LiveTypeOK

LEMMA OwnWriteIsTyped ==
  ASSUME LiveTyped,
         \/ \E to \in {"none", "filled", "skip"} : SendDraft(to)
         \/ ServeDraft \/ DraftAnswered \/ DraftDropped \/ DraftRead
  PROVE  LiveTyped'
<1>1. own \in OwnWrite /\ draft \in [Reader -> [Doc -> DraftState]]
  BY DEF LiveTyped, LiveTypeOK
<1>2. UNCHANGED <<ann, owed, live, sub, queue, tab, link, roster, rosterSure>>
  BY DEF SendDraft, ServeDraft, DraftAnswered, DraftDropped, DraftRead, corpusVars, brokerVars
<1>3. own' \in OwnWrite
  <2>1. \A cached \in BOOLEAN : NoWrite(cached) \in OwnWrite
    BY DEF NoWrite, OwnWrite
  <2>2. CASE \E to \in {"none", "filled", "skip"} : SendDraft(to)
    BY <1>1, <2>2 DEF SendDraft, OwnWrite
  <2>3. CASE ServeDraft
    BY <1>1, <2>3 DEF ServeDraft, OwnWrite, Crosses
  <2>4. CASE DraftAnswered
    BY <1>1, <2>1, <2>4 DEF DraftAnswered, OwnWrite
  <2>5. CASE DraftDropped
    BY <1>1, <2>1, <2>5 DEF DraftDropped, OwnWrite
  <2>6. CASE DraftRead
    BY <1>1, <2>6 DEF DraftRead, OwnWrite
  <2>. QED  BY <2>2, <2>3, <2>4, <2>5, <2>6
<1>4. draft' \in [Reader -> [Doc -> DraftState]]
  <2>1. CASE ServeDraft
    BY <1>1, <2>1, LiveAssumption DEF ServeDraft, DraftState
  <2>2. CASE ~ServeDraft
    BY <1>1, <2>2 DEF SendDraft, DraftAnswered, DraftDropped, DraftRead, corpusVars
  <2>. QED  BY <2>1, <2>2
<1>5. feed' \in FeedQuery /\ feedSure' \in BOOLEAN
  <2>1. feed \in FeedQuery /\ feedSure \in BOOLEAN
    BY DEF LiveTyped, LiveTypeOK
  <2>2. CASE DraftAnswered
    <3>1. FeedInvalidated(link) \/ (feed' = feed /\ feedSure' = (feedSure /\ ~own.crossed))
      BY <2>2 DEF DraftAnswered
    <3>. QED  BY <2>1, <3>1, InvalidatedIsTyped
  <2>3. CASE ~DraftAnswered
    BY <2>1, <2>3 DEF SendDraft, ServeDraft, DraftDropped, DraftRead
  <2>. QED  BY <2>2, <2>3
<1>. QED  BY <1>2, <1>3, <1>4, <1>5 DEF LiveTyped, LiveTypeOK

LEMMA LiveInitIsTyped == ASSUME LiveInit  PROVE LiveTyped
<1>1. /\ ann \in [Doc -> AnnState] /\ draft \in [Reader -> [Doc -> DraftState]]
      /\ owed = <<>> /\ queue = [s \in Stream |-> <<>>]
      /\ tab \in Tab \union {Nil} /\ link \in PageStream \union {Nil}
      /\ own = NoWrite(FALSE) /\ feedSure \in BOOLEAN /\ rosterSure \in BOOLEAN
  BY LiveAssumption DEF LiveInit, AnnState, DraftState
<1>2. IsFiniteSet(live) /\ live \subseteq Stream /\ sub \subseteq live
  <2>1. live = {link} \ {Nil} /\ sub = live
    BY DEF LiveInit
  <2>2. IsFiniteSet({link}) /\ live \subseteq {link}
    BY <2>1, FS_Singleton
  <2>. QED  BY <1>1, <2>1, <2>2, FS_Subset, LiveAssumption
<1>3. queue \in [Stream -> Seq(Kind)] /\ \A s \in Stream : Len(queue[s]) <= QueueCap
  <2>1. Len(<<>>) <= QueueCap /\ <<>> \in Seq(Kind)
    BY LiveAssumption
  <2>. QED  BY <1>1, <2>1
<1>4. feed \in FeedQuery
  <2> DEFINE stage == IF tab = Nil THEN "none" ELSE "sent"
  <2>1. feed = [pages |-> <<>>, acc |-> <<>>, missed |-> "nothing",
                ask |-> [offset |-> 0, stage |-> stage, items |-> <<>>, total |-> Nil]]
    BY DEF LiveInit, Sent
  <2>2. stage \in {"none", "sent"}
    OBVIOUS
  <2> HIDE DEF stage
  <2>. QED  BY <2>1, <2>2 DEF FeedQuery, Ask, Missed
<1>5. roster \in [seen: BOOLEAN, data: SUBSET Reader, answer: SUBSET Reader,
                  stage: {"none", "idle", "sent", "answered"}]
  BY DEF LiveInit
<1>6. owed \in Seq({"saved", "completed"}) /\ own \in OwnWrite
  BY <1>1 DEF NoWrite, OwnWrite
<1>. QED  BY <1>1, <1>2, <1>3, <1>4, <1>5, <1>6 DEF LiveTyped, LiveTypeOK

LEMMA LiveNextIsTyped == ASSUME LiveTyped, [LiveNext]_liveVars  PROVE LiveTyped'
<1>1. ASSUME NEW u \in Reader, Connect(u)  PROVE LiveTyped'
  BY <1>1, ConnectIsTyped
<1>2. CASE PageConnect \/ LinkLost
  BY <1>2, PageConnectIsTyped, LinkLostIsTyped
<1>3. ASSUME NEW s \in Stream, StreamEnds(s) \/ Deliver(s)  PROVE LiveTyped'
  BY <1>3, StreamEndsIsTyped, DeliverIsTyped
<1>4. ASSUME NEW u \in Reader, NEW d \in Doc, Save(u, d) \/ Complete(u, d)  PROVE LiveTyped'
  BY <1>4, WritesAreTyped
<1>5. ASSUME NEW d \in Doc, Uncomplete(d)  PROVE LiveTyped'
  BY <1>5, WritesAreTyped, LiveAssumption
<1>6. CASE \/ \E u \in Reader, d \in Doc, state \in DraftState : WriteDraft(u, d, state)
           \/ RetentionPurge
  BY <1>6, DraftsAreTyped
<1>7. CASE Publish \/ LockEvent
  BY <1>7, BroadcastIsTyped
<1>8. CASE FeedSelect \/ FeedCount \/ FeedReceive \/ FeedMore \/ FeedFails
  BY <1>8, FeedFetchIsTyped
<1>11. CASE \/ \E to \in {"none", "filled", "skip"} : SendDraft(to)
            \/ ServeDraft \/ DraftAnswered \/ DraftDropped \/ DraftRead
  BY <1>11, OwnWriteIsTyped
<1>9. CASE RosterRead \/ RosterReceive \/ Poll
  BY <1>9, RosterFetchIsTyped
<1>10. CASE UNCHANGED liveVars
  <2>1. UNCHANGED <<ann, draft, owed, live, sub, queue, tab, link, feed, roster, own,
                    feedSure, rosterSure>>
    BY <1>10 DEF liveVars, corpusVars, brokerVars, pageVars
  <2>. QED  BY <2>1 DEF LiveTyped, LiveTypeOK
<1>. QED  BY <1>1, <1>2, <1>3, <1>4, <1>5, <1>6, <1>7, <1>8, <1>9, <1>10, <1>11 DEF LiveNext

LEMMA LiveStaysTyped == LiveSpec => []LiveTyped
<1>1. LiveInit => LiveTyped
  BY LiveInitIsTyped
<1>2. LiveTyped /\ [LiveNext]_liveVars => LiveTyped'
  BY LiveNextIsTyped
<1>. QED  BY <1>1, <1>2, PTL DEF LiveSpec

\* Every queue, connection and page keeps its type, whatever is written between
\* the two statements that read a list and however its pages are fetched.
THEOREM LiveTypesHold == LiveSpec => []LiveTypeOK
<1>1. LiveTyped => LiveTypeOK
  BY DEF LiveTyped
<1>. QED  BY <1>1, LiveStaysTyped, PTL

\* Every document is in exactly one tab of every user and says there the state the
\* tab stands for, whatever the annotation and the drafts of it are.
THEOREM OneTabEach == LiveSpec => []TabsPartition
<1>1. LiveTyped => TabsPartition
  <2> SUFFICES ASSUME LiveTyped, NEW u \in Reader, NEW d \in Doc
               PROVE  \E t \in Tab :
                        /\ \A other \in Tab : InTab(u, other, d) <=> other = t
                        /\ StateOf(t, d) \in StatesOf[t]
                        /\ StateOf(t, d) = "draft" => draft[u][d] = "filled"
    BY DEF TabsPartition
  <2>1. ann[d] \in AnnState
    BY DEF LiveTyped, LiveTypeOK
  <2>2. CASE InNew(u, d)
    <3>1. \A other \in Tab : InTab(u, other, d) <=> other = "new"
      BY <2>2 DEF Tab, InTab, InNew, InReview, InVerified
    <3>2. StateOf("new", d) = "new"
      BY DEF StateOf
    <3>3. StatesOf["new"] = {"new"}
      BY DEF StatesOf
    <3>. QED  BY <3>1, <3>2, <3>3 DEF Tab
  <2>3. CASE InReview(u, d)
    <3>1. \A other \in Tab : InTab(u, other, d) <=> other = "review"
      BY <2>3 DEF Tab, InTab, InNew, InReview, InVerified
    <3>2. /\ StateOf("review", d) \in StatesOf["review"]
          /\ StateOf("review", d) = "draft" => draft[u][d] = "filled"
      BY <2>3 DEF StateOf, StatesOf, InReview
    <3>. QED  BY <3>1, <3>2 DEF Tab
  <2>4. CASE InVerified(u, d)
    <3>1. \A other \in Tab : InTab(u, other, d) <=> other = "verified"
      BY <2>4 DEF Tab, InTab, InNew, InReview, InVerified
    <3>2. StateOf("verified", d) = "verified" /\ StatesOf["verified"] = {"verified"}
      BY <2>4 DEF StateOf, StatesOf, InVerified
    <3>. QED  BY <3>1, <3>2 DEF Tab
  <2>. QED  BY <2>1, <2>2, <2>3, <2>4 DEF AnnState, InNew, InReview, InVerified
<1>. QED  BY <1>1, LiveStaysTyped, PTL

-----------------------------------------------------------------------------
(* Live views: the roster.  While the page is told of every change, its     *)
(* roster is right, or it is asking anew, or it has yet to hear an event.    *)

RosterInv ==
  /\ roster.stage = "idle" => roster.seen
  /\ rosterSure =>
       /\ roster.seen /\ link \in sub
       /\ \/ roster.stage = "sent"
          \/ "presence" \in Range(queue[link])
          \/ roster.stage = "answered" /\ roster.answer = Online
          \/ roster.stage = "idle" /\ roster.data = Online

\* A page that has no connection is told of nothing.
LEMMA NilIsNotSubscribed == ASSUME LiveTyped  PROVE Nil \notin sub
  BY LiveAssumption DEF LiveTyped, LiveTypeOK

\* The page hears of a change, or there was none.
LEMMA RosterHears ==
  ASSUME RosterInv, NEW S, NEW told, Heard(told, S), Tell(told), UNCHANGED <<link, roster>>,
         link \in told.sub =>
           link \in sub /\ (Users(S) = Online \/ "presence" \in Range(told.queue[link]))
  PROVE  RosterInv'
<1> SUFFICES ASSUME rosterSure'  PROVE RosterInv'
  BY DEF RosterInv
<1>1. /\ rosterSure /\ link \in told.sub
      /\ told.gone = {} \/ "presence" \in Range(told.queue[link])
      /\ sub' = told.sub /\ queue' = told.queue
  BY DEF Tell
<1>2. Range(queue[link]) \subseteq Range(told.queue[link])
  BY <1>1 DEF Heard
<1>3. CASE "presence" \in Range(told.queue[link])
  BY <1>1, <1>3 DEF RosterInv
<1>4. CASE "presence" \notin Range(told.queue[link])
  <2>1. Users(S) \subseteq Users(told.sub) /\ Users(told.sub) \subseteq Users(S)
    BY <1>1, <1>4 DEF Heard, Users
  <2>2. Online' = Online
    BY <1>1, <1>4, <2>1 DEF Online, Users
  <2>. QED  BY <1>1, <1>2, <1>4, <2>2 DEF RosterInv
<1>. QED  BY <1>3, <1>4

LEMMA RosterKeptByConnect ==
  ASSUME LiveTyped, RosterInv, NEW u \in Reader, Connect(u)  PROVE RosterInv'
<1> DEFINE s == CHOOSE t \in Free(u) : TRUE
           S == sub \union {s}
           told == Published(S, S \intersect Others(s), "presence")
<1>1. PICK announced \in BOOLEAN : Opened(s, announced)
  BY DEF Connect
<1>2. s \in Stream /\ OwnerOf[s] = u /\ u # Viewer /\ UNCHANGED <<link, roster>>
  BY DEF Connect, Free, StreamsOf
<1> HIDE DEF s
<1>3. link \in Stream => OwnerOf[link] = Viewer
  BY LiveAssumption DEF LiveTyped, LiveTypeOK
<1>4. sub \subseteq Stream /\ sub \subseteq live /\ IsFiniteSet(live)
  BY DEF LiveTyped, LiveTypeOK
<1>5. S \in SUBSET Stream /\ IsFiniteSet(S)
  <2>1. IsFiniteSet(sub)
    BY <1>4, FS_Subset
  <2>. QED  BY <1>2, <1>4, <2>1, FS_AddElement
<1>6. link \in S => link \in sub /\ link \in S \intersect Others(s)
  BY <1>2, <1>3, <1>5 DEF Others
<1>7. CASE announced
  <2>1. Tell(told)
    BY <1>1, <1>7 DEF Opened
  <2> HIDE DEF S
  <2>2. Heard(told, S) /\ \A t \in told.sub \intersect (S \intersect Others(s)) : "presence" \in Range(told.queue[t])
    BY <1>5, PublishedIsHeard DEF LiveTyped, Kind
  <2> HIDE DEF told
  <2>3. told.sub \subseteq S
    BY <2>2 DEF Heard
  <2>4. link \in told.sub => link \in sub /\ "presence" \in Range(told.queue[link])
    BY <1>6, <2>2, <2>3
  <2>. QED  BY <1>2, <2>1, <2>2, <2>4, RosterHears
<1>8. CASE ~announced
  <2>1. /\ sub' = S /\ queue' = queue
        /\ rosterSure' = (rosterSure /\ Online = Users(S))
    BY <1>1, <1>8 DEF Opened
  <2>2. rosterSure' => Online' = Online
    BY <2>1 DEF Online
  <2>3. sub \subseteq sub'
    BY <2>1
  <2>. QED  BY <1>2, <2>1, <2>2, <2>3 DEF RosterInv
<1>. QED  BY <1>7, <1>8

LEMMA RosterKeptByPageConnect ==
  ASSUME LiveTyped, RosterInv, PageConnect  PROVE RosterInv'
<1>1. link = Nil /\ UNCHANGED roster
  BY DEF PageConnect
<1>2. ~rosterSure
  BY <1>1, NilIsNotSubscribed DEF RosterInv
<1>3. ~rosterSure'
  BY <1>2 DEF PageConnect, Opened, Tell
<1>. QED  BY <1>1, <1>3 DEF RosterInv

LEMMA RosterKeptByInvalidation ==
  ASSUME LiveTyped, RosterInv, NEW conn, RosterInvalidated(conn),
         conn \in sub => link' = conn, UNCHANGED sub
  PROVE  RosterInv'
<1>1. CASE roster.seen
  <2>1. roster' = [roster EXCEPT !.stage = "sent", !.answer = {}] /\ rosterSure' = (conn \in sub)
    BY <1>1 DEF RosterInvalidated
  <2>2. roster'.stage = "sent" /\ roster'.seen
    BY <1>1, <2>1 DEF LiveTyped, LiveTypeOK
  <2>. QED  BY <2>1, <2>2 DEF RosterInv
<1>2. CASE ~roster.seen
  <2>1. roster' = roster /\ rosterSure' = rosterSure
    BY <1>2 DEF RosterInvalidated
  <2>. QED  BY <1>2, <2>1 DEF RosterInv
<1>. QED  BY <1>1, <1>2

LEMMA RosterKeptByEnd ==
  ASSUME LiveTyped, RosterInv, NEW s \in Stream, StreamEnds(s)  PROVE RosterInv'
<1> DEFINE S == sub \ {s}
<1>1. Tell(Ended(s)) /\ UNCHANGED <<link, roster>>
  BY DEF StreamEnds, Ended
<1>2. /\ Heard(Ended(s), S)
      /\ OwnerOf[s] \notin Users(S) =>
           \A t \in Ended(s).sub \intersect Others(s) : "presence" \in Range(Ended(s).queue[t])
  BY EndedIsHeard
<1> DEFINE told == Ended(s)
<1>3. sub \subseteq Stream
  BY DEF LiveTyped, LiveTypeOK
<1>4. ASSUME link \in told.sub
      PROVE  link \in sub /\ (Users(S) = Online \/ "presence" \in Range(told.queue[link]))
  <2>1. link \in S
    BY <1>2, <1>4 DEF Heard
  <2>2. CASE OwnerOf[s] \in Users(S)
    BY <2>1, <2>2 DEF Online, Users
  <2>3. CASE OwnerOf[s] \notin Users(S)
    <3>1. OwnerOf[link] # OwnerOf[s]
      BY <2>1, <2>3 DEF Users
    <3>2. link \in Others(s)
      BY <1>3, <2>1, <3>1 DEF Others
    <3>. QED  BY <1>2, <1>4, <2>1, <2>3, <3>2
  <2>. QED  BY <2>2, <2>3
<1> HIDE DEF S, told
<1>5. Heard(told, S) /\ Tell(told)
  BY <1>1, <1>2 DEF S, told
<1>. QED  BY <1>1, <1>4, <1>5, RosterHears

LEMMA RosterKeptByDelivery ==
  ASSUME LiveTyped, RosterInv, NEW s \in Stream, Deliver(s)  PROVE RosterInv'
<1>1. UNCHANGED <<sub, link>>
  BY DEF Deliver
<1>2. queue \in [Stream -> Seq(Kind)] /\ queue[s] \in Seq(Kind) /\ queue[s] # <<>>
  BY DEF Deliver, LiveTyped, LiveTypeOK
<1>3. queue' = [queue EXCEPT ![s] = Tail(@)]
  BY DEF Deliver
<1>4. CASE s = link /\ RosterEvent(Head(queue[s]))
  <2>1. RosterInvalidated(s)
    BY <1>4 DEF Deliver
  <2>. QED  BY <1>1, <1>4, <2>1, RosterKeptByInvalidation
<1>5. CASE ~(s = link /\ RosterEvent(Head(queue[s])))
  <2>1. UNCHANGED <<roster, rosterSure>>
    BY <1>5 DEF Deliver
  <2>2. Online' = Online
    BY <1>1 DEF Online
  <2>3. link \in sub /\ "presence" \in Range(queue[link]) => "presence" \in Range(queue'[link])
    <3> SUFFICES ASSUME link \in sub, "presence" \in Range(queue[link])
                 PROVE  "presence" \in Range(queue'[link])
      OBVIOUS
    <3>1. link \in Stream
      BY DEF LiveTyped, LiveTypeOK
    <3>2. CASE link # s
      BY <1>2, <1>3, <3>1, <3>2
    <3>3. CASE link = s
      <4> DEFINE q == queue[s]
      <4>1. queue'[link] = Tail(q)
        BY <1>2, <1>3, <3>3
      <4>2. Head(q) # "presence"
        BY <1>5, <3>3 DEF RosterEvent
      <4>3. \E i \in 1..Len(q) : q[i] = "presence"
        BY <1>2, <3>3 DEF Range
      <4> HIDE DEF q
      <4>4. PICK i \in 1..Len(q) : q[i] = "presence"
        BY <4>3
      <4>5. q \in Seq(Kind) /\ q # <<>>
        BY <1>2 DEF q
      <4>6. i # 1
        BY <4>2, <4>4, <4>5
      <4>7. i - 1 \in DOMAIN Tail(q) /\ Tail(q)[i - 1] = q[i]
        BY <4>4, <4>5, <4>6
      <4>. QED  BY <4>1, <4>4, <4>7 DEF Range
    <3>. QED  BY <3>2, <3>3
  <2>. QED  BY <1>1, <2>1, <2>2, <2>3 DEF RosterInv
<1>. QED  BY <1>4, <1>5

LEMMA RosterKeptByBroadcast ==
  ASSUME LiveTyped, RosterInv, Publish \/ LockEvent  PROVE RosterInv'
<1>1. PICK told : Tell(told) /\ Heard(told, sub)
  BY Broadcast
<1>2. UNCHANGED <<link, roster>>
  BY DEF Publish, LockEvent
<1>3. told.sub \subseteq sub
  BY <1>1 DEF Heard
<1>4. link \in told.sub => link \in sub /\ Users(sub) = Online
  BY <1>3 DEF Online
<1>. QED  BY <1>1, <1>2, <1>4, RosterHears

LEMMA RosterKeptByFetch ==
  ASSUME LiveTyped, RosterInv, RosterRead \/ RosterReceive \/ Poll  PROVE RosterInv'
<1>1. UNCHANGED <<sub, queue, link>>
  BY DEF RosterRead, RosterReceive, Poll, Polled, brokerVars
<1>2. Online' = Online
  BY <1>1 DEF Online
<1>3. CASE RosterRead
  <2>1. roster'.stage = "answered" /\ roster'.answer = Online /\ roster'.seen = roster.seen
    BY <1>3 DEF RosterRead, LiveTyped, LiveTypeOK
  <2>2. rosterSure' = rosterSure
    BY <1>3 DEF RosterRead
  <2>. QED  BY <1>1, <1>2, <2>1, <2>2 DEF RosterInv
<1>4. CASE RosterReceive
  <2>1. /\ roster.stage = "answered" /\ rosterSure' = rosterSure
        /\ roster'.stage = "idle" /\ roster'.seen /\ roster'.data = roster.answer
    BY <1>4 DEF RosterReceive
  <2>. QED  BY <1>1, <1>2, <2>1 DEF RosterInv
<1>5. CASE Poll
  <2>1. /\ roster.stage = "idle" /\ rosterSure' = (link \in sub)
        /\ roster'.stage = "sent" /\ roster'.seen = roster.seen
    BY <1>5 DEF Poll, Polled, LiveTyped, LiveTypeOK
  <2>. QED  BY <1>1, <2>1 DEF RosterInv
<1>. QED  BY <1>3, <1>4, <1>5

\* The roster and the connection of the page stay as they are in all other steps.
LEMMA RosterKeptElsewhere ==
  ASSUME RosterInv, UNCHANGED <<sub, queue, link, roster, rosterSure>>  PROVE RosterInv'
<1>1. Online' = Online
  BY DEF Online
<1>. QED  BY <1>1 DEF RosterInv

LEMMA LiveNextKeepsRoster ==
  ASSUME LiveTyped, RosterInv, [LiveNext]_liveVars  PROVE RosterInv'
<1>1. ASSUME NEW u \in Reader, Connect(u)  PROVE RosterInv'
  BY <1>1, RosterKeptByConnect
<1>2. CASE PageConnect
  BY <1>2, RosterKeptByPageConnect
<1>3. CASE LinkLost
  <2>1. RosterInvalidated(Nil) /\ link' = Nil /\ sub' = sub
    BY <1>3 DEF LinkLost, brokerVars
  <2>. QED  BY <2>1, RosterKeptByInvalidation
<1>4. ASSUME NEW s \in Stream, StreamEnds(s) \/ Deliver(s)  PROVE RosterInv'
  BY <1>4, RosterKeptByEnd, RosterKeptByDelivery
<1>5. CASE Publish \/ LockEvent
  BY <1>5, RosterKeptByBroadcast
<1>6. CASE RosterRead \/ RosterReceive \/ Poll
  BY <1>6, RosterKeptByFetch
<1>7. CASE \/ \E u \in Reader, d \in Doc : Save(u, d) \/ Complete(u, d)
           \/ \E d \in Doc : Uncomplete(d)
           \/ \E u \in Reader, d \in Doc, state \in DraftState : WriteDraft(u, d, state)
           \/ RetentionPurge \/ \E to \in {"none", "filled", "skip"} : SendDraft(to)
           \/ ServeDraft \/ DraftAnswered \/ DraftDropped \/ DraftRead
           \/ FeedSelect \/ FeedCount \/ FeedReceive \/ FeedMore \/ FeedFails
           \/ UNCHANGED liveVars
  <2>1. UNCHANGED <<sub, queue, link, roster, rosterSure>>
    BY <1>7 DEF Save, Complete, Uncomplete, WriteDraft, RetentionPurge, SendDraft, ServeDraft,
                DraftAnswered, DraftDropped, DraftRead, FeedSelect, FeedCount, FeedReceive,
                FeedMore, FeedFails, brokerVars, pageVars, liveVars
  <2>. QED  BY <2>1, RosterKeptElsewhere
<1>. QED  BY <1>1, <1>2, <1>3, <1>4, <1>5, <1>6, <1>7 DEF LiveNext

\* The roster of a page that was told of every arrival and departure is right,
\* also when queues ran full and were dropped and a user had several connections.
THEOREM RosterStaysCurrent == LiveSpec => []RosterIsCurrent
<1>1. LiveInit => RosterInv
  BY DEF LiveInit, RosterInv
<1>2. LiveTyped /\ RosterInv /\ [LiveNext]_liveVars => RosterInv'
  BY LiveNextKeepsRoster
<1>3. RosterInv => RosterIsCurrent
  BY DEF RosterInv, RosterIsCurrent
<1>. QED  BY <1>1, <1>2, <1>3, LiveStaysTyped, PTL DEF LiveSpec

-----------------------------------------------------------------------------
(* Live views: the feed.  While the page is told of every change, what it   *)
(* shows or has fetched so far is the list as the database has it now, or   *)
(* an event or an answer that makes it ask anew is still under way.         *)

List == Listing(Viewer, tab)

\* The pages are the beginning of the list, and the first knows its length.
Reflects(pages) ==
  /\ Items(pages) = Start(List, PageSize * Len(pages))
  /\ pages # <<>> => pages[1].total = Len(List)

UpToDate ==
  /\ feed.ask.stage = "idle" => Reflects(feed.pages)
  /\ feed.ask.stage \in {"sent", "selected", "answered"} =>
       Reflects(feed.acc) /\ feed.ask.offset = Len(Items(feed.acc))
  /\ feed.ask.stage \in {"selected", "answered"} =>
       feed.ask.items = PageAt(List, feed.ask.offset)
  /\ feed.ask.stage = "answered" /\ feed.ask.offset = 0 => feed.ask.total = Len(List)

\* What the page has yet to hear.
FeedNews == owed # <<>> \/ own.crossed \/ FeedKind \intersect Range(queue[link]) # {}

\* The first fetch begins at the beginning, and a write changed nothing before it
\* was served.
FeedShape ==
  /\ feed.pages = <<>> => feed.acc = <<>> /\ feed.ask.offset = 0
  /\ own.crossed => own.stage = "done"

FeedInv ==
  /\ FeedShape
  /\ feedSure => link \in sub /\ (feed.missed # "nothing" \/ FeedNews \/ UpToDate)

LEMMA ListIsTyped == ASSUME LiveTyped  PROVE List \in Seq(Item) /\ Len(List) \in Nat
<1>1. List \in Seq(Item)
  BY ListingOf DEF List, LiveTyped, LiveTypeOK
<1>. QED  BY <1>1

\* The list depends on the drafts with references of the viewer alone.
LEMMA SameList ==
  ASSUME UNCHANGED <<ann, tab>>,
         \A d \in Doc : (draft'[Viewer][d] = "filled") = (draft[Viewer][d] = "filled")
  PROVE  List' = List
<1>1. \A d \in Doc : InTab(Viewer, tab, d)' = InTab(Viewer, tab, d)
  BY DEF InTab, InNew, InReview, InVerified
<1>2. {d \in Doc : InTab(Viewer, tab, d)}' = {d \in Doc : InTab(Viewer, tab, d)}
  BY <1>1
<1>3. \A d : StateOf(tab, d)' = StateOf(tab, d)
  BY DEF StateOf
<1>. QED  BY <1>2, <1>3 DEF List, Listing

LEMMA SameFeed ==
  ASSUME UNCHANGED feed, List' = List, UpToDate  PROVE UpToDate'
  BY DEF UpToDate, Reflects

\* The page hears of a change, or keeps what it has yet to hear.
LEMMA FeedHears ==
  ASSUME FeedInv, NEW S, NEW told, Heard(told, S), Tell(told),
         UNCHANGED <<ann, draft, tab, link, feed, own>>,
         link \in told.sub => link \in sub,
         link \in told.sub /\ owed # <<>> =>
           owed' # <<>> \/ FeedKind \intersect Range(told.queue[link]) # {}
  PROVE  FeedInv'
<1> SUFFICES ASSUME feedSure'
             PROVE  link' \in sub' /\ (feed'.missed # "nothing" \/ FeedNews' \/ UpToDate')
  BY DEF FeedInv, FeedShape
<1>1. feedSure /\ link \in told.sub /\ sub' = told.sub /\ queue' = told.queue
  BY DEF Tell
<1>2. Range(queue[link]) \subseteq Range(queue'[link])
  BY <1>1 DEF Heard
<1>3. link \in sub /\ (feed.missed # "nothing" \/ FeedNews \/ UpToDate)
  BY <1>1 DEF FeedInv
<1>4. CASE FeedNews
  BY <1>1, <1>2, <1>3, <1>4 DEF FeedNews
<1>5. CASE UpToDate
  <2>1. List' = List
    BY SameList
  <2>2. UpToDate'
    BY <1>5, <2>1, SameFeed
  <2>. QED  BY <1>1, <1>3, <2>2
<1>6. CASE feed.missed # "nothing"
  BY <1>1, <1>3, <1>6
<1>. QED  BY <1>3, <1>4, <1>5, <1>6

LEMMA ReflectsNothing == ASSUME LiveTyped  PROVE Reflects(<<>>) /\ Len(Items(<<>>)) = 0
<1>1. Items(<<>>) = <<>>
  <2>1. [items |-> <<>>, total |-> Nil] \in Page /\ <<>> \in Seq(Page)
    BY DEF Page
  <2>. QED  BY <2>1, ItemsOf
<1>2. \A list \in Seq(Item) : Start(list, 0) = <<>>
  <2> SUFFICES ASSUME NEW list \in Seq(Item)  PROVE Start(list, 0) = <<>>
    OBVIOUS
  <2>1. Start(list, 0) \in Seq(Item) /\ Len(Start(list, 0)) = 0
    BY StartOf
  <2>. QED  BY <2>1, EmptySeq
<1>3. PageSize * Len(<<>>) = 0
  BY FeedAssumption
<1>4. Items(<<>>) = Start(List, 0)
  BY <1>1, <1>2, ListIsTyped
<1>. QED  BY <1>1, <1>3, <1>4 DEF Reflects

\* A page that asks for its feed anew has nothing yet that could be out of date.
LEMMA FeedKeptByInvalidation ==
  ASSUME LiveTyped, FeedInv, NEW conn, FeedInvalidated(conn),
         conn \in sub => link' = conn, UNCHANGED <<ann, draft, tab, sub>>,
         own'.crossed => own'.stage = "done"
  PROVE  FeedInv'
<1>5. Reflects(<<>>)' /\ Len(Items(<<>>)) = 0
  <2>1. List' = List
    BY SameList
  <2>. QED  BY <2>1, ReflectsNothing DEF Reflects
<1>6. ASSUME feed'.acc = <<>>, feed'.ask.offset = 0, feed'.ask.stage \in {"none", "sent"}
      PROVE  UpToDate'
  <2>1. Reflects(feed.acc)' /\ feed'.ask.offset = Len(Items(feed'.acc))
    BY <1>5, <1>6
  <2>. QED  BY <1>6, <2>1 DEF UpToDate
<1>1. feed \in FeedQuery /\ feed.ask \in Ask
  BY DEF LiveTyped, LiveTypeOK, FeedQuery
<1>2. CASE ~FirstFetch
  <2>1. feed' = [feed EXCEPT !.acc = <<>>, !.ask = Sent(0), !.missed = "nothing"]
    BY <1>2 DEF FeedInvalidated
  <2>2. feed'.acc = <<>> /\ feed'.ask = Sent(0)
    BY <1>1, <2>1 DEF FeedQuery
  <2>3. feed'.ask.stage = "sent" /\ feed'.ask.offset = 0
    BY <2>2 DEF Sent
  <2>4. UpToDate'
    BY <1>6, <2>2, <2>3
  <2>5. feedSure' => link' \in sub'
    BY DEF FeedInvalidated
  <2>. QED  BY <2>2, <2>3, <2>4, <2>5 DEF FeedInv, FeedShape
<1>3. CASE FirstFetch /\ feed.ask.stage \in {"selected", "answered"}
  <2>1. feed' = [feed EXCEPT !.missed = "joined"]
    BY <1>3 DEF FeedInvalidated
  <2>2. /\ feed'.missed = "joined" /\ feed'.pages = feed.pages /\ feed'.acc = feed.acc
        /\ feed'.ask = feed.ask
    BY <1>1, <2>1 DEF FeedQuery
  <2>3. feedSure' => link' \in sub'
    BY DEF FeedInvalidated
  <2>. QED  BY <2>2, <2>3 DEF FeedInv, FeedShape
<1>4. CASE FirstFetch /\ feed.ask.stage \notin {"selected", "answered"}
  <2>1. feed' = feed /\ (feedSure' => link' \in sub')
    BY <1>4 DEF FeedInvalidated
  <2>2. feed.acc = <<>> /\ feed.ask.offset = 0
    BY <1>4 DEF FirstFetch, FeedInv, FeedShape
  <2>3. CASE feed.ask.stage \in {"none", "sent"}
    <3>1. UpToDate'
      BY <1>6, <2>1, <2>2, <2>3
    <3>. QED  BY <2>1, <2>2, <3>1 DEF FeedInv, FeedShape
  <2>4. CASE feed.ask.stage = "idle"
    <3>1. feed.pages = <<>>
      BY <1>4 DEF FirstFetch
    <3>2. feed'.acc = <<>> /\ feed'.ask.stage = "idle" /\ feed'.pages = <<>>
      BY <2>1, <2>2, <2>4, <3>1
    <3>3. UpToDate'
      BY <1>5, <3>2 DEF UpToDate
    <3>. QED  BY <2>1, <2>2, <3>3 DEF FeedInv, FeedShape
  <2>. QED  BY <1>1, <1>4, <2>3, <2>4 DEF Ask
<1>. QED  BY <1>2, <1>3, <1>4

LEMMA FeedKeptByConnect ==
  ASSUME LiveTyped, FeedInv, NEW u \in Reader, Connect(u)  PROVE FeedInv'
<1>1. tab = Nil /\ UNCHANGED <<ann, draft, owed, tab, link, feed, own>>
  BY DEF Connect, corpusVars
<1> DEFINE s == CHOOSE t \in Free(u) : TRUE
           S == sub \union {s}
           told == Published(S, S \intersect Others(s), "presence")
<1>2. PICK announced \in BOOLEAN : Opened(s, announced)
  BY DEF Connect
<1>3. s \in Stream /\ OwnerOf[s] # Viewer
  BY DEF Connect, Free, StreamsOf
<1>4. link \in sub \/ link \notin S
  <2>1. link # Nil => link \in PageStream
    BY DEF LiveTyped, LiveTypeOK
  <2> HIDE DEF s
  <2>2. link # s
    BY <1>3, <2>1, LiveAssumption
  <2>. QED  BY <2>2
<1> HIDE DEF s
<1>5. S \in SUBSET Stream /\ IsFiniteSet(S)
  <2>1. IsFiniteSet(sub) /\ sub \subseteq Stream
    BY FS_Subset DEF LiveTyped, LiveTypeOK
  <2>. QED  BY <1>3, <2>1, FS_AddElement
<1>6. CASE announced
  <2>1. Tell(told)
    BY <1>2, <1>6 DEF Opened
  <2> HIDE DEF S
  <2>2. Heard(told, S)
    BY <1>5, PublishedIsHeard DEF LiveTyped, Kind
  <2> HIDE DEF told
  <2>3. told.sub \subseteq S
    BY <2>2 DEF Heard
  <2>4. link \in told.sub => link \in sub
    BY <1>4, <2>3
  <2>. QED  BY <1>1, <2>1, <2>2, <2>4, FeedHears
<1>7. CASE ~announced
  <2>1. sub' = S /\ queue' = queue /\ feedSure' = feedSure
    BY <1>2, <1>7 DEF Opened
  <2>2. List' = List
    BY <1>1, SameList
  <2>3. UpToDate => UpToDate'
    BY <1>1, <2>2, SameFeed
  <2>4. FeedNews => FeedNews'
    BY <1>1, <2>1 DEF FeedNews
  <2>. QED  BY <1>1, <2>1, <2>3, <2>4 DEF FeedInv, FeedShape
<1>. QED  BY <1>6, <1>7

LEMMA FeedKeptByPageConnect == ASSUME LiveTyped, FeedInv, PageConnect  PROVE FeedInv'
<1>1. ~feedSure
  BY NilIsNotSubscribed DEF FeedInv, PageConnect
<1>2. ~feedSure' /\ UNCHANGED <<feed, own>>
  BY <1>1 DEF PageConnect, Opened, Tell
<1>. QED  BY <1>2 DEF FeedInv, FeedShape

LEMMA FeedKeptByEnd ==
  ASSUME LiveTyped, FeedInv, NEW s \in Stream, StreamEnds(s)  PROVE FeedInv'
<1>1. Tell(Ended(s)) /\ UNCHANGED <<ann, draft, owed, tab, link, feed, own>>
  BY DEF StreamEnds, Ended, corpusVars
<1> DEFINE told == Ended(s)
           S == sub \ {s}
<1>2. Heard(told, S)
  BY EndedIsHeard
<1>3. Tell(told)
  BY <1>1
<1> HIDE DEF told
<1>4. link \in told.sub => link \in sub
  BY <1>2 DEF Heard
<1> HIDE DEF S
<1>. QED  BY <1>1, <1>2, <1>3, <1>4, FeedHears

LEMMA FeedKeptByDelivery ==
  ASSUME LiveTyped, FeedInv, NEW s \in Stream, Deliver(s)  PROVE FeedInv'
<1>1. UNCHANGED <<ann, draft, owed, sub, tab, link, own>>
  BY DEF Deliver, corpusVars
<1>2. queue \in [Stream -> Seq(Kind)] /\ queue[s] \in Seq(Kind) /\ queue[s] # <<>>
  BY DEF Deliver, LiveTyped, LiveTypeOK
<1>3. queue' = [queue EXCEPT ![s] = Tail(@)]
  BY DEF Deliver
<1>4. CASE s = link /\ FeedEvent(Head(queue[s]))
  <2>1. FeedInvalidated(s) /\ (own'.crossed => own'.stage = "done")
    BY <1>1, <1>4 DEF Deliver, FeedInv, FeedShape
  <2>. QED  BY <1>1, <1>4, <2>1, FeedKeptByInvalidation
<1>5. CASE ~(s = link /\ FeedEvent(Head(queue[s])))
  <2>1. UNCHANGED <<feed, feedSure>>
    BY <1>5 DEF Deliver
  <2>2. UpToDate => UpToDate'
    <3>1. List' = List
      BY <1>1, SameList
    <3>. QED  BY <2>1, <3>1, SameFeed
  <2>3. ASSUME link \in sub, FeedKind \intersect Range(queue[link]) # {}
        PROVE  FeedKind \intersect Range(queue'[link]) # {}
    <3>1. link \in Stream
      BY <2>3 DEF LiveTyped, LiveTypeOK
    <3>2. CASE link # s
      BY <1>2, <1>3, <2>3, <3>1, <3>2
    <3>3. CASE link = s
      <4> DEFINE q == queue[s]
      <4>1. queue'[link] = Tail(q)
        BY <1>2, <1>3, <3>3
      <4>2. Head(q) \notin FeedKind
        BY <1>5, <3>3 DEF FeedEvent
      <4>3. \E i \in 1..Len(q) : q[i] \in FeedKind
        BY <1>2, <2>3, <3>3 DEF Range
      <4>4. q \in Seq(Kind) /\ q # <<>>
        BY <1>2
      <4> HIDE DEF q
      <4>5. PICK i \in 1..Len(q) : q[i] \in FeedKind
        BY <4>3
      <4>6. i # 1
        BY <4>2, <4>4, <4>5
      <4>7. i - 1 \in DOMAIN Tail(q) /\ Tail(q)[i - 1] = q[i]
        BY <4>4, <4>5, <4>6
      <4>. QED  BY <4>1, <4>5, <4>7 DEF Range
    <3>. QED  BY <3>2, <3>3
  <2>4. FeedNews /\ link \in sub => FeedNews'
    BY <1>1, <2>3 DEF FeedNews
  <2>. QED  BY <1>1, <2>1, <2>2, <2>4 DEF FeedInv, FeedShape
<1>. QED  BY <1>4, <1>5

LEMMA FeedKeptByBroadcast ==
  ASSUME LiveTyped, FeedInv, Publish \/ LockEvent  PROVE FeedInv'
<1>1. PICK told : /\ Tell(told) /\ Heard(told, sub)
                  /\ \A s \in told.sub : FeedKind \intersect Range(told.queue[s]) # {}
  BY Broadcast
<1>2. UNCHANGED <<ann, draft, tab, link, feed, own>>
  BY DEF Publish, LockEvent, corpusVars
<1>3. link \in told.sub => link \in sub
  BY <1>1 DEF Heard
<1>. QED  BY <1>1, <1>2, <1>3, FeedHears

LEMMA FeedKeptByWrite ==
  ASSUME FeedInv, NEW u, NEW d, Save(u, d) \/ Complete(u, d) \/ Uncomplete(d)  PROVE FeedInv'
<1>1. owed' # <<>>
  <2>1. owed' = <<"saved">> \/ owed' = <<"completed">> \/ owed' = <<"saved", "completed">>
    BY DEF Save, Complete, Uncomplete
  <2>2. <<"saved">> # <<>> /\ <<"completed">> # <<>> /\ <<"saved", "completed">> # <<>>
    OBVIOUS
  <2>. QED  BY <2>1, <2>2
<1>2. UNCHANGED <<feed, own, feedSure, link, sub>>
  BY DEF Save, Complete, Uncomplete, brokerVars, pageVars
<1>. QED  BY <1>1, <1>2 DEF FeedInv, FeedShape, FeedNews

\* A draft write that the page does not know of leaves its list alone or makes it
\* unsure.
LEMMA FeedKeptByDraft ==
  ASSUME LiveTyped, FeedInv, NEW u \in Reader, NEW d \in Doc, NEW state \in DraftState,
         WriteDraft(u, d, state)
  PROVE  FeedInv'
<1>1. /\ UNCHANGED <<ann, owed, sub, queue, tab, link, feed, own>>
      /\ draft' = [draft EXCEPT ![u][d] = state]
      /\ feedSure' = (feedSure /\ (u = Viewer => ~Crosses(u, d, state)))
  BY DEF WriteDraft, brokerVars
<1>2. draft \in [Reader -> [Doc -> DraftState]] /\ Viewer \in Reader
  BY LiveAssumption DEF LiveTyped, LiveTypeOK
<1>3. CASE u = Viewer /\ Crosses(u, d, state)
  BY <1>1, <1>3 DEF FeedInv, FeedShape
<1>4. CASE ~(u = Viewer /\ Crosses(u, d, state))
  <2>1. \A e \in Doc : (draft'[Viewer][e] = "filled") = (draft[Viewer][e] = "filled")
    BY <1>1, <1>2, <1>4 DEF Crosses
  <2>2. List' = List
    BY <1>1, <2>1, SameList
  <2>3. UpToDate => UpToDate'
    BY <1>1, <2>2, SameFeed
  <2>4. FeedNews => FeedNews'
    BY <1>1 DEF FeedNews
  <2>. QED  BY <1>1, <2>3, <2>4 DEF FeedInv, FeedShape
<1>. QED  BY <1>3, <1>4

\* A draft write of the page that moves its document keeps it waiting for the
\* answer, which makes it ask anew or unsure; so does an answer that is dropped.
LEMMA FeedKeptByOwnWrite ==
  ASSUME LiveTyped, FeedInv,
         \/ \E to \in {"none", "filled", "skip"} : SendDraft(to)
         \/ ServeDraft \/ DraftAnswered \/ DraftDropped \/ DraftRead
  PROVE  FeedInv'
<1>1. own \in OwnWrite /\ draft \in [Reader -> [Doc -> DraftState]]
  BY DEF LiveTyped, LiveTypeOK
<1>2. UNCHANGED <<ann, owed, sub, queue, tab, link>>
  BY DEF SendDraft, ServeDraft, DraftAnswered, DraftDropped, DraftRead, corpusVars, brokerVars
<1>3. \A cached : ~NoWrite(cached).crossed
  BY DEF NoWrite
<1>4. CASE (\E to \in {"none", "filled", "skip"} : SendDraft(to)) \/ DraftRead
  <2>1. UNCHANGED <<draft, feed, feedSure>> /\ own.stage = "idle"
    BY <1>4 DEF SendDraft, DraftRead, corpusVars
  <2>2. own'.crossed = own.crossed /\ ~own.crossed
    BY <1>1, <1>4, <2>1 DEF SendDraft, DraftRead, OwnWrite, FeedInv, FeedShape
  <2>3. UpToDate => UpToDate'
    BY <1>2, <2>1, SameList, SameFeed
  <2>4. FeedNews => FeedNews'
    BY <1>2, <2>2 DEF FeedNews
  <2>. QED  BY <1>2, <2>1, <2>2, <2>3, <2>4 DEF FeedInv, FeedShape
<1>5. CASE ServeDraft
  <2>1. PICK state \in DraftState :
          /\ draft' = [draft EXCEPT ![Viewer][Edited] = state]
          /\ own' = [own EXCEPT !.stage = "done", !.crossed = Crosses(Viewer, Edited, state)]
    BY <1>5 DEF ServeDraft, DraftState
  <2>2. own'.stage = "done" /\ own'.crossed = Crosses(Viewer, Edited, state)
    BY <1>1, <2>1 DEF OwnWrite
  <2>3. UNCHANGED <<feed, feedSure>> /\ ~own.crossed
    BY <1>5 DEF ServeDraft, FeedInv, FeedShape
  <2>4. ~Crosses(Viewer, Edited, state) /\ UpToDate => UpToDate'
    <3>1. ASSUME ~Crosses(Viewer, Edited, state)
          PROVE  \A e \in Doc : (draft'[Viewer][e] = "filled") = (draft[Viewer][e] = "filled")
      BY <1>1, <2>1, <3>1, LiveAssumption DEF Crosses
    <3>. QED  BY <1>2, <2>3, <3>1, SameList, SameFeed
  <2>5. FeedNews => FeedNews'
    BY <1>2, <2>3 DEF FeedNews
  <2>6. Crosses(Viewer, Edited, state) => FeedNews'
    BY <2>2 DEF FeedNews
  <2>. QED  BY <1>2, <2>2, <2>3, <2>4, <2>5, <2>6 DEF FeedInv, FeedShape
<1>6. CASE DraftAnswered /\ FeedInvalidated(link)
  <2>1. draft' = draft /\ (own'.crossed => own'.stage = "done")
    BY <1>3, <1>6 DEF DraftAnswered, corpusVars
  <2>. QED  BY <1>2, <1>6, <2>1, FeedKeptByInvalidation
<1>7. CASE DraftDropped \/ (DraftAnswered /\ ~FeedInvalidated(link))
  <2>1. /\ UNCHANGED <<draft, feed>> /\ feedSure' = (feedSure /\ ~own.crossed)
        /\ ~own'.crossed
    BY <1>3, <1>7 DEF DraftDropped, DraftAnswered, corpusVars
  <2>2. UpToDate => UpToDate'
    BY <1>2, <2>1, SameList, SameFeed
  <2>3. FeedNews /\ ~own.crossed => FeedNews'
    BY <1>2 DEF FeedNews
  <2>. QED  BY <1>2, <2>1, <2>2, <2>3 DEF FeedInv, FeedShape
<1>. QED  BY <1>4, <1>5, <1>6, <1>7

LEMMA FeedKeptByRetention == ASSUME LiveTyped, FeedInv, RetentionPurge  PROVE FeedInv'
<1>1. UNCHANGED <<ann, owed, sub, queue, tab, link, feed, own>>
  BY DEF RetentionPurge, brokerVars
<1>2. PICK D : /\ draft' = Undeleted(D)
               /\ feedSure' = (feedSure /\ \A d \in Doc :
                                <<Viewer, d>> \in D => ~Crosses(Viewer, d, "none"))
  BY DEF RetentionPurge
<1>3. CASE feedSure'
  <2>1. \A d \in Doc : <<Viewer, d>> \in D => draft[Viewer][d] # "filled"
    BY <1>2, <1>3 DEF Crosses
  <2>2. \A d \in Doc : (draft'[Viewer][d] = "filled") = (draft[Viewer][d] = "filled")
    BY <1>2, <2>1, LiveAssumption DEF Undeleted
  <2>3. List' = List
    BY <1>1, <2>2, SameList
  <2>4. UpToDate => UpToDate'
    BY <1>1, <2>3, SameFeed
  <2>5. FeedNews => FeedNews'
    BY <1>1 DEF FeedNews
  <2>. QED  BY <1>1, <1>2, <2>4, <2>5 DEF FeedInv, FeedShape
<1>4. CASE ~feedSure'
  BY <1>1, <1>4 DEF FeedInv, FeedShape
<1>. QED  BY <1>3, <1>4

LEMMA FeedKeptBySelect == ASSUME LiveTyped, UpToDate, FeedSelect  PROVE UpToDate'
<1>1. List' = List
  BY SameList DEF FeedSelect, corpusVars
<1> DEFINE items == PageAt(List, feed.ask.offset)
           stage == IF feed.ask.offset = 0 THEN "selected" ELSE "answered"
<1>2. feed.ask.stage = "sent" /\ feed \in FeedQuery
  BY DEF FeedSelect, LiveTyped, LiveTypeOK, FeedQuery
<1>3. feed' = [feed EXCEPT !.ask.items = items, !.ask.stage = stage]
  BY <1>2 DEF FeedSelect, List, FeedQuery, Ask
<1>4. stage = IF feed.ask.offset = 0 THEN "selected" ELSE "answered"
  OBVIOUS
<1> HIDE DEF stage
<1>5. /\ feed'.pages = feed.pages /\ feed'.acc = feed.acc /\ feed'.ask.stage = stage
      /\ feed'.ask.offset = feed.ask.offset /\ feed'.ask.items = items
  BY <1>2, <1>3 DEF FeedQuery, Ask
<1>6. Reflects(feed.acc) /\ feed.ask.offset = Len(Items(feed.acc))
  BY <1>2 DEF UpToDate
<1>7. Reflects(feed.acc)' /\ feed'.ask.offset = Len(Items(feed'.acc))
  BY <1>1, <1>5, <1>6 DEF Reflects
<1>8. feed'.ask.items = PageAt(List', feed'.ask.offset)
  BY <1>1, <1>5
<1>9. feed'.ask.stage # "idle" /\ ~(feed'.ask.stage = "answered" /\ feed'.ask.offset = 0)
  BY <1>4, <1>5
<1>. QED  BY <1>7, <1>8, <1>9 DEF UpToDate

LEMMA FeedKeptByCount == ASSUME LiveTyped, UpToDate, FeedCount  PROVE UpToDate'
<1>1. List' = List
  BY SameList DEF FeedCount, corpusVars
<1> DEFINE n == Len(List)
<1>2. feed.ask.stage = "selected" /\ feed \in FeedQuery
  BY DEF FeedCount, LiveTyped, LiveTypeOK, FeedQuery
<1>3. feed' = [feed EXCEPT !.ask.total = n, !.ask.stage = "answered"]
  BY DEF FeedCount, List
<1>4. n = Len(List)
  OBVIOUS
<1> HIDE DEF n
<1>5. /\ feed'.pages = feed.pages /\ feed'.acc = feed.acc /\ feed'.ask.stage = "answered"
      /\ feed'.ask.offset = feed.ask.offset /\ feed'.ask.items = feed.ask.items
      /\ feed'.ask.total = n
  BY <1>2, <1>3 DEF FeedQuery, Ask
<1>6. /\ Reflects(feed.acc) /\ feed.ask.offset = Len(Items(feed.acc))
      /\ feed.ask.items = PageAt(List, feed.ask.offset)
  BY <1>2 DEF UpToDate
<1>7. Reflects(feed.acc)' /\ feed'.ask.offset = Len(Items(feed'.acc))
  BY <1>1, <1>5, <1>6 DEF Reflects
<1>8. feed'.ask.items = PageAt(List', feed'.ask.offset) /\ feed'.ask.total = Len(List')
  BY <1>1, <1>4, <1>5, <1>6
<1>. QED  BY <1>5, <1>7, <1>8 DEF UpToDate

\* One page more, read where the pages before it end, and they are again the
\* beginning of the list.
LEMMA ReflectsMore ==
  ASSUME LiveTyped, NEW pages \in Seq(Page), NEW p \in Page, Reflects(pages),
         p.items = PageAt(List, Len(Items(pages))),
         pages = <<>> => p.total = Len(List)
  PROVE  Reflects(Append(pages, p))
<1> DEFINE got == Append(pages, p)
<1>1. PICK k \in Nat : k = Len(pages)
  OBVIOUS
<1>2. got \in Seq(Page) /\ Len(got) = k + 1 /\ got # <<>>
  BY <1>1
<1>3. PageSize \in Nat /\ PageSize * k \in Nat /\ PageSize * (k + 1) = PageSize * k + PageSize
  BY FeedAssumption
<1>4. Items(got) = Items(pages) \o p.items
  BY ItemsOf
<1>5. Items(got) = Start(List, PageSize * (k + 1))
  <2> DEFINE m == PageSize * k
  <2>1. Items(pages) = Start(List, m)
    BY <1>1 DEF Reflects
  <2>2. m \in Nat /\ PageSize * (k + 1) = m + PageSize
    BY <1>3
  <2> HIDE DEF m
  <2>3. Start(List, m) \o PageAt(List, Len(Start(List, m))) = Start(List, m + PageSize)
    BY <2>2, ListIsTyped, NextPage
  <2>4. Items(got) = Start(List, m) \o PageAt(List, Len(Start(List, m)))
    BY <1>4, <2>1
  <2>. QED  BY <2>2, <2>3, <2>4
<1>6. got[1].total = Len(List)
  <2>1. CASE k = 0
    <3>1. pages = <<>>
      BY <1>1, <2>1, EmptySeq
    <3>2. got[1] = p
      BY <3>1
    <3>. QED  BY <3>1, <3>2
  <2>2. CASE k # 0
    <3>1. pages # <<>> /\ got[1] = pages[1]
      BY <1>1, <2>2
    <3>. QED  BY <3>1 DEF Reflects
  <2>. QED  BY <2>1, <2>2
<1> HIDE DEF got
<1>7. Reflects(got)
  BY <1>2, <1>5, <1>6 DEF Reflects
<1>. QED  BY <1>7 DEF got

LEMMA FeedKeptByReceive ==
  ASSUME LiveTyped, FeedReceive
  PROVE  /\ feed'.pages # <<>>
         /\ feed'.missed = feed.missed /\ (UpToDate => UpToDate')
<1> DEFINE p == [items |-> feed.ask.items, total |-> feed.ask.total]
<1>1. List' = List
  BY SameList DEF FeedReceive, corpusVars
<1>2. feed.ask.stage = "answered" /\ feed \in FeedQuery
  BY DEF FeedReceive, LiveTyped, LiveTypeOK, FeedQuery
<1>3. p \in Page /\ feed.acc \in Seq(Page)
  BY <1>2 DEF FeedQuery, Ask, Page
<1>4. p.items = feed.ask.items /\ p.total = feed.ask.total
  OBVIOUS
<1> HIDE DEF p
<1>5. PICK got \in Seq(Page) : got = Append(feed.acc, p) /\ got # <<>>
  <2>1. Append(feed.acc, p) \in Seq(Page) /\ Append(feed.acc, p) # <<>>
    BY <1>3
  <2>. QED  BY <2>1
<1>6. \/ /\ feed' = [feed EXCEPT !.acc = got, !.ask = Sent(Len(Items(got)))]
         /\ Len(got) < Len(feed.pages)
      \/ feed' = [feed EXCEPT !.pages = got, !.acc = <<>>, !.ask = NoAsk]
  BY <1>5 DEF FeedReceive, p
<1>7. UpToDate => Reflects(got)
  <2> SUFFICES ASSUME UpToDate  PROVE Reflects(got)
    OBVIOUS
  <2>1. /\ Reflects(feed.acc) /\ feed.ask.offset = Len(Items(feed.acc))
        /\ p.items = PageAt(List, feed.ask.offset)
        /\ feed.ask.offset = 0 => p.total = Len(List)
    BY <1>2, <1>4 DEF UpToDate
  <2>2. feed.acc = <<>> => p.total = Len(List)
    <3>1. Items(<<>>) = <<>>
      BY <1>3, ItemsOf
    <3>. QED  BY <2>1, <3>1
  <2>3. p.items = PageAt(List, Len(Items(feed.acc)))
    BY <2>1
  <2>. QED  BY <1>3, <1>5, <2>1, <2>2, <2>3, ReflectsMore
<1>8. UpToDate => Reflects(got)'
  BY <1>1, <1>7 DEF Reflects
<1>9. CASE /\ feed' = [feed EXCEPT !.acc = got, !.ask = Sent(Len(Items(got)))]
           /\ Len(got) < Len(feed.pages)
  <2>1. /\ feed'.pages = feed.pages /\ feed'.acc = got /\ feed'.missed = feed.missed
        /\ feed'.ask.stage = "sent" /\ feed'.ask.offset = Len(Items(got))
    BY <1>2, <1>9 DEF FeedQuery, Sent
  <2>2. UpToDate => Reflects(feed.acc)'
    BY <1>8, <2>1 DEF Reflects
  <2>3. feed.pages # <<>>
    BY <1>2, <1>5, <1>9 DEF FeedQuery
  <2>. QED  BY <2>1, <2>2, <2>3 DEF UpToDate
<1>10. CASE feed' = [feed EXCEPT !.pages = got, !.acc = <<>>, !.ask = NoAsk]
  <2>1. feed'.pages = got /\ feed'.ask.stage = "idle" /\ feed'.missed = feed.missed
    BY <1>2, <1>10 DEF NoAsk, Sent, FeedQuery
  <2>2. UpToDate => Reflects(feed.pages)'
    BY <1>8, <2>1 DEF Reflects
  <2>. QED  BY <1>5, <2>1, <2>2 DEF UpToDate
<1>. QED  BY <1>6, <1>9, <1>10

\* A next page is asked for where the pages that are shown end; if a refetch is
\* cancelled for it, the page remembers it.
LEMMA FeedKeptByMore ==
  ASSUME LiveTyped, UpToDate, FeedMore  PROVE feed'.missed # "nothing" \/ UpToDate'
<1>1. List' = List
  BY SameList DEF FeedMore, corpusVars
<1>2. feed \in FeedQuery
  BY DEF LiveTyped, LiveTypeOK
<1>3. CASE feed.ask = NoAsk
  <2>1. /\ feed'.acc = feed.pages /\ feed'.ask.stage = "sent"
        /\ feed'.ask.offset = Len(Items(feed.pages))
    BY <1>2 DEF FeedMore, FeedQuery, Sent
  <2>2. Reflects(feed.pages)
    BY <1>3 DEF UpToDate, NoAsk, Sent
  <2>3. Reflects(feed.acc)'
    BY <1>1, <2>1, <2>2 DEF Reflects
  <2>. QED  BY <2>1, <2>3 DEF UpToDate
<1>4. CASE feed.ask # NoAsk
  BY <1>2, <1>4 DEF FeedMore, FeedQuery
<1>. QED  BY <1>3, <1>4

\* If a next page does not come, the pages before it are as good as they were.
LEMMA FeedKeptByFailure ==
  ASSUME LiveTyped, UpToDate, FeedFails  PROVE feed'.missed # "nothing" \/ UpToDate'
<1>1. List' = List
  BY SameList DEF FeedFails, corpusVars
<1>2. feed \in FeedQuery
  BY DEF LiveTyped, LiveTypeOK
<1>3. CASE FetchingNext
  <2>1. feed'.pages = feed.pages /\ feed'.ask = NoAsk
    BY <1>2 DEF FeedFails, FeedQuery
  <2>2. feed'.ask.stage = "idle"
    BY <2>1 DEF NoAsk, Sent
  <2>3. Reflects(feed.pages)
    BY <1>3 DEF FeedFails, FetchingNext, UpToDate
  <2>4. Reflects(feed.pages)'
    BY <1>1, <2>1, <2>3 DEF Reflects
  <2>. QED  BY <2>2, <2>4 DEF UpToDate
<1>4. CASE ~FetchingNext
  BY <1>2, <1>4 DEF FeedFails, FeedQuery
<1>. QED  BY <1>3, <1>4

LEMMA SelectIsInTheAsk ==
  ASSUME feed \in FeedQuery, FeedSelect
  PROVE  /\ feed'.pages = feed.pages /\ feed'.acc = feed.acc
         /\ feed'.missed = feed.missed /\ feed'.ask.offset = feed.ask.offset
<1> DEFINE items == PageAt(Listing(Viewer, tab), feed.ask.offset)
           stage == IF feed.ask.stage = "sent" /\ feed.ask.offset = 0 THEN "selected" ELSE "answered"
<1>1. feed' = [feed EXCEPT !.ask.items = items, !.ask.stage = stage]
  BY DEF FeedSelect, FeedQuery, Ask
<1> HIDE DEF items, stage
<1>. QED  BY <1>1 DEF FeedQuery, Ask

LEMMA FeedKeptByFetch ==
  ASSUME LiveTyped, FeedInv,
         FeedSelect \/ FeedCount \/ FeedReceive \/ FeedMore \/ FeedFails
  PROVE  FeedInv'
<1>1. UNCHANGED <<owed, own, queue, link, sub, feedSure>>
  BY DEF FeedSelect, FeedCount, FeedReceive, FeedMore, FeedFails, brokerVars
<1>2. FeedNews => FeedNews'
  BY <1>1 DEF FeedNews
<1>3. feed \in FeedQuery /\ feed.ask \in Ask
  BY DEF LiveTyped, LiveTypeOK, FeedQuery
<1>4. feed.missed # "nothing" => feed'.missed # "nothing"
  <2>1. CASE FeedReceive
    BY <2>1, FeedKeptByReceive
  <2>2. CASE FeedSelect
    BY <1>3, <2>2, SelectIsInTheAsk
  <2>3. CASE FeedCount
    BY <1>3, <2>3 DEF FeedCount, FeedQuery
  <2>4. CASE FeedMore
    <3>1. feed'.missed = IF feed.ask = NoAsk THEN feed.missed ELSE "scrolled"
      BY <1>3, <2>4 DEF FeedMore, FeedQuery
    <3>. QED  BY <3>1
  <2>5. CASE FeedFails
    <3>1. feed'.missed = IF FetchingNext THEN feed.missed ELSE "failed"
      BY <1>3, <2>5 DEF FeedFails, FeedQuery
    <3>. QED  BY <3>1
  <2>. QED  BY <2>1, <2>2, <2>3, <2>4, <2>5
<1>5. UpToDate => feed'.missed # "nothing" \/ UpToDate'
  BY FeedKeptBySelect, FeedKeptByCount, FeedKeptByReceive, FeedKeptByMore, FeedKeptByFailure
<1>6. FeedShape'
  <2>1. FeedShape
    BY DEF FeedInv
  <2>2. CASE FeedReceive
    BY <1>1, <2>1, <2>2, FeedKeptByReceive DEF FeedShape
  <2>3. CASE FeedSelect \/ FeedCount
    <3>1. feed'.pages = feed.pages /\ feed'.acc = feed.acc /\ feed'.ask.offset = feed.ask.offset
      <4>1. CASE FeedSelect
        BY <1>3, <4>1, SelectIsInTheAsk
      <4>2. CASE FeedCount
        BY <1>3, <4>2 DEF FeedCount, FeedQuery, Ask
      <4>. QED  BY <2>3, <4>1, <4>2
    <3>. QED  BY <1>1, <2>1, <3>1 DEF FeedShape
  <2>4. CASE FeedMore
    <3>1. feed'.pages # <<>>
      BY <1>3, <2>4 DEF FeedMore, FeedQuery
    <3>. QED  BY <1>1, <2>1, <3>1 DEF FeedShape
  <2>5. CASE FeedFails
    <3>1. feed'.acc = <<>> /\ feed'.ask.offset = 0
      BY <1>3, <2>5 DEF FeedFails, FeedQuery, NoAsk, Sent
    <3>. QED  BY <1>1, <2>1, <3>1 DEF FeedShape
  <2>. QED  BY <2>2, <2>3, <2>4, <2>5
<1>. QED  BY <1>1, <1>2, <1>4, <1>5, <1>6 DEF FeedInv

LEMMA LiveNextKeepsFeed ==
  ASSUME LiveTyped, FeedInv, [LiveNext]_liveVars  PROVE FeedInv'
<1>1. ASSUME NEW u \in Reader, Connect(u)  PROVE FeedInv'
  BY <1>1, FeedKeptByConnect
<1>2. CASE PageConnect
  BY <1>2, FeedKeptByPageConnect
<1>3. CASE LinkLost
  <2>1. /\ FeedInvalidated(Nil) /\ link' = Nil /\ UNCHANGED <<ann, draft, tab, sub>>
        /\ own'.crossed => own'.stage = "done"
    BY <1>3 DEF LinkLost, FeedInv, FeedShape, corpusVars, brokerVars
  <2>. QED  BY <2>1, FeedKeptByInvalidation
<1>4. ASSUME NEW s \in Stream, StreamEnds(s) \/ Deliver(s)  PROVE FeedInv'
  BY <1>4, FeedKeptByEnd, FeedKeptByDelivery
<1>5. ASSUME NEW u \in Reader, NEW d \in Doc, Save(u, d) \/ Complete(u, d)  PROVE FeedInv'
  BY <1>5, FeedKeptByWrite
<1>6. ASSUME NEW d \in Doc, Uncomplete(d)  PROVE FeedInv'
  BY <1>6, FeedKeptByWrite
<1>7. ASSUME NEW u \in Reader, NEW d \in Doc, NEW state \in DraftState, WriteDraft(u, d, state)
      PROVE  FeedInv'
  BY <1>7, FeedKeptByDraft
<1>8. CASE RetentionPurge
  BY <1>8, FeedKeptByRetention
<1>9. CASE Publish \/ LockEvent
  BY <1>9, FeedKeptByBroadcast
<1>10. CASE \/ \E to \in {"none", "filled", "skip"} : SendDraft(to)
            \/ ServeDraft \/ DraftAnswered \/ DraftDropped \/ DraftRead
  BY <1>10, FeedKeptByOwnWrite
<1>11. CASE FeedSelect \/ FeedCount \/ FeedReceive \/ FeedMore \/ FeedFails
  BY <1>11, FeedKeptByFetch
<1>12. CASE RosterRead \/ RosterReceive \/ Poll \/ UNCHANGED liveVars
  <2>1. UNCHANGED <<ann, draft, owed, sub, queue, tab, link, feed, own, feedSure>>
    BY <1>12 DEF RosterRead, RosterReceive, Poll, Polled, corpusVars, brokerVars, pageVars, liveVars
  <2>2. UpToDate => UpToDate'
    BY <2>1, SameList, SameFeed
  <2>3. FeedNews => FeedNews'
    BY <2>1 DEF FeedNews
  <2>. QED  BY <2>1, <2>2, <2>3 DEF FeedInv, FeedShape
<1>. QED  BY <1>1, <1>2, <1>3, <1>4, <1>5, <1>6, <1>7, <1>8, <1>9, <1>10, <1>11, <1>12 DEF LiveNext

LEMMA LiveInitIsCurrent == ASSUME LiveInit  PROVE FeedInv
<1>1. LiveTyped
  BY LiveInitIsTyped
<1>2. /\ feed.pages = <<>> /\ feed.acc = <<>> /\ feed.ask.offset = 0
      /\ feed.ask.stage \in {"none", "sent"} /\ ~own.crossed
  BY DEF LiveInit, Sent, NoWrite
<1>3. UpToDate
  <2>1. Reflects(feed.acc) /\ feed.ask.offset = Len(Items(feed.acc))
    BY <1>1, <1>2, ReflectsNothing
  <2>. QED  BY <1>2, <2>1 DEF UpToDate
<1>4. feedSure => link \in sub
  BY DEF LiveInit
<1>. QED  BY <1>2, <1>3, <1>4 DEF FeedInv, FeedShape

\* What a page that was told of every change shows at rest is the beginning of the
\* list as the database has it, although it was read page by page by offset, unless
\* its last full fetch was joined too late, cut short by scrolling or lost.
THEOREM FeedStaysCurrent == LiveSpec => []FeedIsCurrent
<1>1. LiveInit => FeedInv
  BY LiveInitIsCurrent
<1>2. LiveTyped /\ FeedInv /\ [LiveNext]_liveVars => FeedInv'
  BY LiveNextKeepsFeed
<1>3. FeedInv => FeedIsCurrent
  <2> SUFFICES ASSUME FeedInv, feed.missed = "nothing", feedSure, feed.pages # <<>>,
                      feed.ask = NoAsk, owed = <<>>, ~own.crossed,
                      FeedKind \intersect Range(queue[link]) = {}
               PROVE  /\ Items(feed.pages) = Start(List, PageSize * Len(feed.pages))
                      /\ feed.pages[1].total = Len(List)
    BY DEF FeedIsCurrent, ShowsTheList, List
  <2>1. UpToDate /\ feed.ask.stage = "idle"
    BY DEF FeedInv, FeedNews, NoAsk, Sent
  <2>. QED  BY <2>1 DEF UpToDate, Reflects
<1>. QED  BY <1>1, <1>2, <1>3, LiveStaysTyped, PTL DEF LiveSpec

\* Whoever asks and whatever the drafts are, a list holds exactly the documents of
\* its tab, each of them once, in the order _build_order_by gives them.
THEOREM ListsHoldTheirTabs ==
  LiveSpec => [](\A u \in Reader, t \in Tab :
    LET list == Listing(u, t)
        docs == {d \in Doc : InTab(u, t, d)}
    IN  /\ list \in Seq(Item)
        /\ {list[i].doc : i \in DOMAIN list} = docs
        /\ \A i, j \in DOMAIN list : i < j => Before(list[i].doc, list[j].doc))
<1> DEFINE Holds(u, t) ==
      LET list == Listing(u, t)
          docs == {d \in Doc : InTab(u, t, d)}
      IN  /\ list \in Seq(Item)
          /\ {list[i].doc : i \in DOMAIN list} = docs
          /\ \A i, j \in DOMAIN list : i < j => Before(list[i].doc, list[j].doc)
<1>1. LiveTyped => \A u \in Reader, t \in Tab : Holds(u, t)
  <2> SUFFICES ASSUME LiveTyped, NEW u \in Reader, NEW t \in Tab  PROVE Holds(u, t)
    OBVIOUS
  <2> DEFINE list == Listing(u, t)
             docs == {d \in Doc : InTab(u, t, d)}
  <2>1. /\ list \in Seq(Item)
        /\ \A i \in DOMAIN list : list[i].doc \in docs
        /\ \A d \in docs : \E i \in DOMAIN list : list[i].doc = d
        /\ \A i, j \in DOMAIN list : i < j => Before(list[i].doc, list[j].doc)
    BY ListingOf DEF LiveTyped, LiveTypeOK
  <2> HIDE DEF list, docs
  <2>2. {list[i].doc : i \in DOMAIN list} = docs
    BY <2>1
  <2>. QED  BY <2>1, <2>2 DEF list, docs
<1>. QED  BY <1>1, LiveStaysTyped, PTL
=============================================================================
