------------------------------ MODULE Accounts ------------------------------
(***************************************************************************)
(* Accounts, roles and sessions: backend/users (service, deps, routes),    *)
(* the account commands of backend/cli, and the first administrator that   *)
(* the server seeds when it boots.                                         *)
(*                                                                         *)
(* promote, demote and enable run in the thread pool, disable on the event *)
(* loop, the command line in a process of its own.  Every statement outside*)
(* of a transaction is a step.  Passwords and invite codes are left out.   *)
(***************************************************************************)
EXTENDS Naturals, FiniteSets

CONSTANTS
  User,    \* usernames
  Root,    \* BOOTSTRAP_ADMIN_USERNAME
  Slot,    \* requests of administrators that the server handles at a time
  None     \* no user

ASSUME UserAssumption == IsFiniteSet(User) /\ Root \in User /\ None \notin User

VARIABLES
  account,    \* users: the row of each username
  session,    \* users with a row of user_sessions that has not ended
  login,      \* users whose password was accepted and whose session is not written
  request,    \* requests under /api/admin/users
  cli,        \* the demote-admin that runs in the shell
  serving,    \* whether the server is up
  overtaken,  \* an account was changed on a reading that no longer held
  raced       \* users disabled, the last time, during a login of theirs

vars == <<account, session, login, request, cli, serving, overtaken, raced>>

Role == {"none", "user", "admin"}
Account == [role: Role, active: BOOLEAN]
Missing == [role |-> "none", active |-> FALSE]

Op == {"promote", "demote", "disable", "enable"}
Stage == {"idle", "accepted", "ensured", "read"}
Request == [op: Op, by: User, target: User, stage: Stage \ {"idle"}, role: Role]
           \union {[stage |-> "idle"]}
Idle == [stage |-> "idle"]

Command == [target: User \union {None}, count: Nat]
NoCommand == [target |-> None, count |-> 0]

TypeOK ==
  /\ account \in [User -> Account]
  /\ session \subseteq User
  /\ login \subseteq User
  /\ request \in [Slot -> Request]
  /\ cli \in Command
  /\ serving \in BOOLEAN
  /\ overtaken \in BOOLEAN
  /\ raced \subseteq User

\* The first boot has seeded the administrator.
Init ==
  /\ account = [u \in User |-> IF u = Root THEN [role |-> "admin", active |-> TRUE] ELSE Missing]
  /\ session = {}
  /\ login = {}
  /\ request = [s \in Slot |-> Idle]
  /\ cli = NoCommand
  /\ serving = TRUE
  /\ overtaken = FALSE
  /\ raced = {}

Registered(u) == account[u].role # "none"

IsAdmin(u) == account[u].role = "admin" /\ account[u].active

\* count_active_admins counts them.
ActiveAdmins == {u \in User : IsAdmin(u)}

-----------------------------------------------------------------------------
(* Users.                                                                  *)

Register(u) ==
  /\ serving
  /\ ~Registered(u)
  /\ account' = [account EXCEPT ![u] = [role |-> "user", active |-> TRUE]]
  /\ UNCHANGED <<session, login, request, cli, serving, overtaken, raced>>

\* login reads the account ...
LoginCheck(u) ==
  /\ serving
  /\ Registered(u) /\ account[u].active
  /\ login' = login \union {u}
  /\ UNCHANGED <<account, session, request, cli, serving, overtaken, raced>>

\* ... and inserts the session in a statement of its own.
LoginInsert(u) ==
  /\ u \in login
  /\ login' = login \ {u}
  /\ session' = session \union {u}
  /\ UNCHANGED <<account, request, cli, serving, overtaken, raced>>

\* logout, or a session past its age; other sessions of the user may remain.
SessionEnds(u) ==
  /\ serving
  /\ u \in session
  /\ session' = session \ {u}
  /\ UNCHANGED <<account, login, request, cli, serving, overtaken, raced>>

\* close_expired_sessions, in the transaction of a retention cycle.
SessionsClosed ==
  /\ serving
  /\ \E old \in SUBSET session : session' = session \ old
  /\ UNCHANGED <<account, login, request, cli, serving, overtaken, raced>>

-----------------------------------------------------------------------------
(* Requests of administrators.                                             *)

Advance(s, stage) == request' = [request EXCEPT ![s].stage = stage]

Finish(s) == request' = [request EXCEPT ![s] = Idle]

At(s, op, stage) == request[s].stage = stage /\ request[s].op = op

\* require_admin: the session joined with the account, and the role.
Accept(s, op, u, t) ==
  /\ serving
  /\ request[s] = Idle
  /\ u \in session /\ IsAdmin(u)
  /\ request' = [request EXCEPT ![s] =
       [op |-> op, by |-> u, target |-> t, stage |-> "accepted", role |-> "none"]]
  /\ UNCHANGED <<account, session, login, cli, serving, overtaken, raced>>

\* disable never leaves the event loop, so there is one at a time.
LoopFree(s) ==
  At(s, "disable", "accepted") =>
    \A r \in Slot : r # s => ~ (At(r, "disable", "ensured") \/ At(r, "disable", "read"))

\* _ensure_admin; NotAdmin ends the request.
Ensure(s) ==
  /\ request[s].stage = "accepted"
  /\ LoopFree(s)
  /\ IF IsAdmin(request[s].by) THEN Advance(s, "ensured") ELSE Finish(s)
  /\ UNCHANGED <<account, session, login, cli, serving, overtaken, raced>>

\* The row of the target; UserNotFound ends the request.
ReadTarget(s) ==
  LET t == request[s].target IN
  /\ request[s].stage = "ensured"
  /\ IF Registered(t) /\ (request[s].op = "demote" => account[t].role = "admin")
     THEN request' = [request EXCEPT ![s].stage = "read", ![s].role = account[t].role]
     ELSE Finish(s)
  /\ UNCHANGED <<account, session, login, cli, serving, overtaken, raced>>

\* The UPDATE of promote_admin and enable_user.
Promote(s) ==
  /\ At(s, "promote", "read")
  /\ account' = [account EXCEPT ![request[s].target].role = "admin"]
  /\ Finish(s)
  /\ UNCHANGED <<session, login, cli, serving, overtaken, raced>>

Enable(s) ==
  /\ At(s, "enable", "read")
  /\ account' = [account EXCEPT ![request[s].target].active = TRUE]
  /\ Finish(s)
  /\ UNCHANGED <<session, login, cli, serving, overtaken, raced>>

\* Mutant: the guard of the last administrator is off by one.
LastAdminMiscounted == Cardinality(ActiveAdmins) < 1

LastAdmin == Cardinality(ActiveAdmins) <= 1

\* The transaction of demote_admin; LastAdminCannotBeRemoved rolls it back.
Demote(s) ==
  /\ At(s, "demote", "read")
  /\ account' = IF LastAdmin THEN account
                ELSE [account EXCEPT ![request[s].target].role = "user"]
  /\ Finish(s)
  /\ UNCHANGED <<session, login, cli, serving, overtaken, raced>>

\* Mutant: the sessions are left to expire.
DisabledSessionsKept(t) == session

DisabledSessions(t) == session \ {t}

\* The transaction of disable_user, guarded by the role read before it.
Disable(s) ==
  LET t == request[s].target IN
  /\ At(s, "disable", "read")
  /\ IF request[s].role = "admin" /\ LastAdmin
     THEN UNCHANGED <<account, session, overtaken, raced>>
     ELSE /\ account' = [account EXCEPT ![t].active = FALSE]
          /\ session' = DisabledSessions(t)
          /\ overtaken' = (overtaken \/ account[t].role # request[s].role)
          /\ raced' = (raced \ {t}) \union (login \intersect {t})
  /\ Finish(s)
  /\ UNCHANGED <<login, cli, serving>>

-----------------------------------------------------------------------------
(* The command line: every statement commits by itself.                    *)

CommandPromote(u) ==
  /\ Registered(u)
  /\ account' = [account EXCEPT ![u].role = "admin"]
  /\ UNCHANGED <<session, login, request, cli, serving, overtaken, raced>>

\* reset-password: the hash, then the sessions are deleted.
CommandReset(u) ==
  /\ Registered(u)
  /\ session' = session \ {u}
  /\ UNCHANGED <<account, login, request, cli, serving, overtaken, raced>>

\* demote-admin: role and number of administrators, before the UPDATE.
CommandCount(u) ==
  /\ cli = NoCommand
  /\ account[u].role = "admin" /\ ~LastAdmin
  /\ cli' = [target |-> u, count |-> Cardinality(ActiveAdmins)]
  /\ UNCHANGED <<account, session, login, request, serving, overtaken, raced>>

CommandDemote ==
  /\ cli # NoCommand
  /\ cli' = NoCommand
  /\ account' = [account EXCEPT ![cli.target].role = "user"]
  /\ overtaken' = (overtaken \/ Cardinality(ActiveAdmins) # cli.count)
  /\ UNCHANGED <<session, login, request, serving, raced>>

-----------------------------------------------------------------------------
(* The server.                                                             *)

\* The server dies or is replaced; what it was doing is lost.
Die ==
  /\ serving
  /\ serving' = FALSE
  /\ login' = {}
  /\ request' = [s \in Slot |-> Idle]
  /\ UNCHANGED <<account, session, cli, overtaken, raced>>

\* The accounts after seed_bootstrap_admin: the administrator by that name is
\* activated, or inserted when there is no active administrator.
Seeded ==
  IF account[Root].role = "admin" \/ ActiveAdmins = {}
  THEN [account EXCEPT ![Root] = [role |-> "admin", active |-> TRUE]]
  ELSE account

\* An account by that name that is not an administrator's stops the boot.
Boot ==
  /\ ~serving
  /\ account[Root].role # "user"
  /\ serving' = TRUE
  /\ account' = Seeded
  /\ UNCHANGED <<session, login, request, cli, overtaken, raced>>

-----------------------------------------------------------------------------

UserStep(u) == Register(u) \/ LoginCheck(u) \/ LoginInsert(u) \/ SessionEnds(u)

RequestStep(s) ==
  \/ \E op \in Op, u, t \in User : Accept(s, op, u, t)
  \/ Ensure(s) \/ ReadTarget(s)
  \/ Promote(s) \/ Demote(s) \/ Disable(s) \/ Enable(s)

CommandStep ==
  \/ \E u \in User : CommandPromote(u) \/ CommandReset(u) \/ CommandCount(u)
  \/ CommandDemote

Next ==
  \/ \E u \in User : UserStep(u)
  \/ \E s \in Slot : RequestStep(s)
  \/ CommandStep
  \/ SessionsClosed
  \/ Die \/ Boot

Spec == Init /\ [][Next]_vars

-----------------------------------------------------------------------------
(* Properties.                                                             *)

(***************************************************************************)
(* Demotions and disablings that run at the same time, of administrators   *)
(* by each other, leave an active administrator, for as long as none of    *)
(* them is decided on a reading that another step has overtaken: the role  *)
(* that disable_user reads before its transaction, or the number that the  *)
(* command line counts before its UPDATE.                                  *)
(***************************************************************************)
AnAdminRemains == overtaken \/ ActiveAdmins # {}

(***************************************************************************)
(* Whoever is disabled is logged out: only a login that had accepted the   *)
(* password before the account was disabled leaves a session behind.       *)
(***************************************************************************)
DisabledAreLoggedOut ==
  \A u \in session : account[u].active \/ u \in raced

(***************************************************************************)
(* A boot that succeeds leaves an active administrator, whatever demotions *)
(* and disablings led up to it: restarting repairs a lock-out.             *)
(***************************************************************************)
BootFindsAdmin == [][~serving /\ serving' => ActiveAdmins' # {}]_vars

=============================================================================
