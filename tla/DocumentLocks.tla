--------------------------- MODULE DocumentLocks ---------------------------
(***************************************************************************)
(* The lease locks on documents: backend/locks (service, routes, sweep),   *)
(* the parts of backend/users that end sessions, and the lock side of the  *)
(* two handlers that write annotations.                                    *)
(*                                                                         *)
(* One process serves everything.  Handlers written `async def` run on the *)
(* event loop: their database statements follow each other without any     *)
(* other `async def` handler in between, and `loop` is the one that runs.  *)
(* Handlers written `def` (heartbeat, skip) run in a thread pool: their    *)
(* transaction may fall between two statements of the handler in `loop`.   *)
(* Authentication is a dependency that runs before the handler, so a       *)
(* request is authenticated first and served later.                        *)
(***************************************************************************)
EXTENDS Naturals

CONSTANTS
  User,          \* accounts that have passed training
  Doc,           \* rows of documents_meta
  LeaseSeconds,  \* values the setting lock.expires_seconds takes
  Horizon,       \* bound of the model: the clock stops here
  None           \* SQL NULL

ASSUME LeaseAssumption == LeaseSeconds \subseteq (Nat \ {0})
ASSUME HorizonAssumption == Horizon \in Nat
ASSUME NoneAssumption == None \notin User /\ None \notin Doc

VARIABLES
  now,       \* the wall clock that _now() reads
  locks,     \* document_locks: the row of each document, or NoLock
  active,    \* users.is_active
  session,   \* the user has a row in user_sessions that has not ended
  request,   \* an authenticated request of the user that is still to be served
  loop,      \* the handler on the event loop, between two of its statements
  lease,     \* expires_at last promised to the user for the document
  heard      \* the holder the last lock event on the document named

lockVars == <<now, locks, active, session, request, loop, lease, heard>>

Row == [user: User, expires: Nat]
NoLock == [user |-> None, expires |-> 0]

RequestOp == {"acquire", "heartbeat", "release", "skip", "write"}
NoRequest == [op |-> "none", doc |-> None]

LoopOp == {"acquire", "release", "force", "sweep", "write"}
Idle == [op |-> "idle", user |-> None, doc |-> None, held |-> None, at |-> 0]

TypeOK ==
  /\ now \in Nat
  /\ locks \in [Doc -> Row \union {NoLock}]
  /\ active \in [User -> BOOLEAN]
  /\ session \in [User -> BOOLEAN]
  /\ request \in [User -> [op: RequestOp, doc: Doc] \union {NoRequest}]
  /\ loop \in [op: LoopOp \union {"idle"}, user: User \union {None},
               doc: Doc \union {None}, held: User \union {None}, at: Nat]
  /\ lease \in [User -> [Doc -> Nat]]
  /\ heard \in [Doc -> User \union {None}]

Init ==
  /\ now = 1
  /\ locks = [d \in Doc |-> NoLock]
  /\ active = [u \in User |-> TRUE]
  /\ session = [u \in User |-> TRUE]
  /\ request = [u \in User |-> NoRequest]
  /\ loop = Idle
  /\ lease = [u \in User |-> [d \in Doc |-> 0]]
  /\ heard = [d \in Doc |-> None]

-----------------------------------------------------------------------------
(* What the service functions read and write.                              *)

\* The user get_lock reports: expired rows are ignored, not deleted.
Holder(d) ==
  IF locks[d] # NoLock /\ locks[d].expires >= now THEN locks[d].user ELSE None

\* The row that acquire and heartbeat write.
Renewed(u, s) == [user |-> u, expires |-> now + s]

\* Mutant: the second check is left out.
HeldByOtherIgnored(u, d) == FALSE

\* Another user's row with time left, the check made inside the write transactions.
HeldByOther(u, d) ==
  locks[d].user \notin {u, None} /\ locks[d].expires > now

\* The table after the rows of documents D that belong to u are deleted.
Without(u, D) ==
  [d \in Doc |-> IF d \in D /\ locks[d].user = u THEN NoLock ELSE locks[d]]

\* The user gives up what was promised on documents D.
Forgo(u, D) ==
  lease' = [lease EXCEPT ![u] = [d \in Doc |-> IF d \in D THEN 0 ELSE @[d]]]

Promise(u, d, s) == lease' = [lease EXCEPT ![u][d] = now + s]

Serve(u, op, d) ==
  /\ request[u] = [op |-> op, doc |-> d]
  /\ request' = [request EXCEPT ![u] = NoRequest]

Start(op, u, d, held) ==
  /\ loop = Idle
  /\ loop' = [op |-> op, user |-> u, doc |-> d, held |-> held, at |-> now]

Running(op, u, d) == loop.op = op /\ loop.user = u /\ loop.doc = d

-----------------------------------------------------------------------------
(* Time, sessions and authentication.                                      *)

Tick ==
  /\ now < Horizon
  /\ now' = now + 1
  /\ UNCHANGED <<locks, active, session, request, loop, lease, heard>>

Login(u) ==
  /\ active[u]
  /\ ~session[u]
  /\ session' = [session EXCEPT ![u] = TRUE]
  /\ UNCHANGED <<now, locks, active, request, loop, lease, heard>>

\* get_current_user accepts the session; the handler runs later.
Authenticate(u, op, d) ==
  /\ session[u] /\ active[u]
  /\ request[u] = NoRequest
  /\ request' = [request EXCEPT ![u] = [op |-> op, doc |-> d]]
  /\ UNCHANGED <<now, locks, active, session, loop, lease, heard>>

\* A session older than SESSION_MAX_AGE ends when it is next used.
SessionExpires(u) ==
  /\ session[u]
  /\ session' = [session EXCEPT ![u] = FALSE]
  /\ UNCHANGED <<now, locks, active, request, loop, lease, heard>>

\* The rows of u leave with its session, and one event is published for each.
DropAll(u) ==
  /\ loop = Idle
  /\ locks' = Without(u, Doc)
  /\ session' = [session EXCEPT ![u] = FALSE]
  /\ Forgo(u, Doc)
  /\ heard' = [d \in Doc |-> IF locks[d].user = u THEN None ELSE heard[d]]
  /\ UNCHANGED <<now, request, loop>>

Logout(u) ==
  /\ session[u]
  /\ DropAll(u)
  /\ UNCHANGED active

Disable(u) ==
  /\ DropAll(u)
  /\ active' = [active EXCEPT ![u] = FALSE]

Enable(u) ==
  /\ active' = [active EXCEPT ![u] = TRUE]
  /\ UNCHANGED <<now, locks, session, request, loop, lease, heard>>

-----------------------------------------------------------------------------
(* Handlers on the event loop.                                             *)

\* acquire: the transaction.  409 when another user holds the lock.
AcquireRefused(u, d) ==
  /\ loop = Idle
  /\ Serve(u, "acquire", d)
  /\ Holder(d) \notin {u, None}
  /\ UNCHANGED <<now, locks, active, session, loop, lease, heard>>

AcquireCommit(u, d, s) ==
  /\ Serve(u, "acquire", d)
  /\ Holder(d) \in {u, None}
  /\ now + s < Horizon
  /\ Start("acquire", u, d, None)
  /\ locks' = [locks EXCEPT ![d] = Renewed(u, s)]
  /\ Promise(u, d, s)
  /\ UNCHANGED <<now, active, session, heard>>

\* Mutant: only a lock on a document that peers take for free is announced.
AcquireAnswerWhenFree(u, d) ==
  /\ Running("acquire", u, d)
  /\ heard' = [heard EXCEPT ![d] =
                IF locks[d] # NoLock /\ @ = None THEN locks[d].user ELSE @]
  /\ loop' = Idle
  /\ UNCHANGED <<now, locks, active, session, request, lease>>

\* acquire: the row is read again and announced; a row that has gone meanwhile
\* fails the request before the event.
AcquireAnswer(u, d) ==
  /\ Running("acquire", u, d)
  /\ heard' = [heard EXCEPT ![d] = IF locks[d] = NoLock THEN @ ELSE locks[d].user]
  /\ loop' = Idle
  /\ UNCHANGED <<now, locks, active, session, request, lease>>

\* release: the route reads the lock before the service deletes it.
ReleaseBegin(u, d) ==
  /\ Serve(u, "release", d)
  /\ Start("release", u, d, IF Holder(d) = u THEN u ELSE None)
  /\ UNCHANGED <<now, locks, active, session, lease, heard>>

\* release: owner check and delete in one transaction, then the event that the
\* first read calls for.  The row of another user is a 404.
ReleaseCommit(u, d) ==
  /\ Running("release", u, d)
  /\ IF locks[d].user \in {u, None}
     THEN /\ locks' = Without(u, {d})
          /\ Forgo(u, {d})
          /\ heard' = [heard EXCEPT ![d] = IF loop.held # None THEN None ELSE @]
     ELSE UNCHANGED <<locks, lease, heard>>
  /\ loop' = Idle
  /\ UNCHANGED <<now, active, session, request>>

\* admin_force_release: 404 unless the lock is live when first read.
ForceBegin(d) ==
  /\ Holder(d) # None
  /\ Start("force", None, d, Holder(d))
  /\ UNCHANGED <<now, locks, active, session, request, lease, heard>>

\* admin_force_release: the delete is unconditional.
ForceCommit(d) ==
  /\ Running("force", None, d)
  /\ locks' = [locks EXCEPT ![d] = NoLock]
  /\ lease' = [u \in User |-> [lease[u] EXCEPT ![d] = 0]]
  /\ heard' = [heard EXCEPT ![d] = None]
  /\ loop' = Idle
  /\ UNCHANGED <<now, active, session, request>>

\* Mutant: the cutoff is taken once, when the task starts.
SweepBeginOldCutoff ==
  /\ loop = Idle
  /\ loop' = [Idle EXCEPT !.op = "sweep", !.at = 1]
  /\ UNCHANGED <<now, locks, active, session, request, lease, heard>>

\* sweep_expired: the clock is read before the transaction begins.
SweepBegin ==
  /\ Start("sweep", None, None, None)
  /\ UNCHANGED <<now, locks, active, session, request, lease, heard>>

\* Mutant: a row that expires at this very moment counts as expired.
ExpiredInclusive(at) == {d \in Doc : locks[d] # NoLock /\ locks[d].expires <= at}

Expired(at) == {d \in Doc : locks[d] # NoLock /\ locks[d].expires < at}

SweepCommit ==
  /\ Running("sweep", None, None)
  /\ locks' = [d \in Doc |-> IF d \in Expired(loop.at) THEN NoLock ELSE locks[d]]
  /\ heard' = [d \in Doc |-> IF d \in Expired(loop.at) THEN None ELSE heard[d]]
  /\ loop' = Idle
  /\ UNCHANGED <<now, active, session, request, lease>>

\* save_annotation and set_complete: the check before the transaction.
WriteBegin(u, d) ==
  /\ Serve(u, "write", d)
  /\ Holder(d) \in {u, None}
  /\ Start("write", u, d, IF Holder(d) = u THEN u ELSE None)
  /\ UNCHANGED <<now, locks, active, session, lease, heard>>

WriteRefused(u, d) ==
  /\ loop = Idle
  /\ Serve(u, "write", d)
  /\ Holder(d) \notin {u, None}
  /\ UNCHANGED <<now, locks, active, session, loop, lease, heard>>

\* The check inside the transaction, and release_if_held before COMMIT.
WriteCommit(u, d) ==
  /\ Running("write", u, d)
  /\ ~HeldByOther(u, d)
  /\ locks' = Without(u, {d})
  /\ Forgo(u, {d})
  /\ loop' = Idle
  /\ UNCHANGED <<now, active, session, request, heard>>

WriteConflict(u, d) ==
  /\ Running("write", u, d)
  /\ HeldByOther(u, d)
  /\ loop' = Idle
  /\ UNCHANGED <<now, locks, active, session, request, lease, heard>>

\* BEGIN IMMEDIATE gives up after busy_timeout: the handler ends, nothing written.
LoopBusy ==
  /\ loop.op \in LoopOp \ {"acquire"}
  /\ loop' = Idle
  /\ UNCHANGED <<now, locks, active, session, request, lease, heard>>

-----------------------------------------------------------------------------
(* Handlers in the thread pool: one transaction each, at any moment.       *)

\* Mutant: the owner is not checked again inside the transaction.
HeartbeatAnyRow(u, d, s) ==
  /\ Serve(u, "heartbeat", d)
  /\ locks[d] # NoLock
  /\ now + s < Horizon
  /\ locks' = [locks EXCEPT ![d] = Renewed(u, s)]
  /\ Promise(u, d, s)
  /\ UNCHANGED <<now, active, session, loop, heard>>

\* heartbeat: the owner may renew a row that has expired but is not swept yet.
Heartbeat(u, d, s) ==
  /\ Serve(u, "heartbeat", d)
  /\ locks[d].user = u
  /\ now + s < Horizon
  /\ locks' = [locks EXCEPT ![d] = Renewed(u, s)]
  /\ Promise(u, d, s)
  /\ UNCHANGED <<now, active, session, loop, heard>>

HeartbeatRefused(u, d) ==
  /\ Serve(u, "heartbeat", d)
  /\ locks[d].user # u
  /\ UNCHANGED <<now, locks, active, session, loop, lease, heard>>

\* skip: release_if_held, and deliberately no event.
Skip(u, d) ==
  /\ Serve(u, "skip", d)
  /\ locks' = Without(u, {d})
  /\ Forgo(u, {d})
  /\ UNCHANGED <<now, active, session, loop, heard>>

\* A request that fails before its transaction, or whose client is gone.
RequestLost(u) ==
  /\ request[u] # NoRequest
  /\ request' = [request EXCEPT ![u] = NoRequest]
  /\ UNCHANGED <<now, locks, active, session, loop, lease, heard>>

-----------------------------------------------------------------------------
AccountStep(u) ==
  \/ Login(u) \/ SessionExpires(u) \/ Logout(u) \/ Disable(u) \/ Enable(u)
  \/ RequestLost(u)

PoolStep(u, d) ==
  \/ \E s \in LeaseSeconds : Heartbeat(u, d, s)
  \/ HeartbeatRefused(u, d)
  \/ Skip(u, d)

AcquireStep(u, d) ==
  \/ \E s \in LeaseSeconds : AcquireCommit(u, d, s)
  \/ AcquireRefused(u, d)
  \/ AcquireAnswer(u, d)

ReleaseStep(u, d) == ReleaseBegin(u, d) \/ ReleaseCommit(u, d)

WriteStep(u, d) ==
  WriteBegin(u, d) \/ WriteRefused(u, d) \/ WriteCommit(u, d) \/ WriteConflict(u, d)

ForceStep(d) == ForceBegin(d) \/ ForceCommit(d)

Next ==
  \/ Tick
  \/ SweepBegin
  \/ SweepCommit
  \/ LoopBusy
  \/ \E d \in Doc : ForceStep(d)
  \/ \E u \in User : AccountStep(u)
  \/ \E u \in User, d \in Doc :
       \/ \E op \in RequestOp : Authenticate(u, op, d)
       \/ PoolStep(u, d)
       \/ AcquireStep(u, d)
       \/ ReleaseStep(u, d)
       \/ WriteStep(u, d)

Spec == Init /\ [][Next]_lockVars

(***************************************************************************)
(* The clock advances, a handler on the loop runs on, an authenticated     *)
(* request is served or lost, and the sweep task, which sleeps and wakes   *)
(* again for as long as the process lives, gets the loop and the write     *)
(* lock again and again (busy_timeout and the FIFO of ready callbacks).    *)
(* Users promise nothing.                                                  *)
(***************************************************************************)
LoopFinishes ==
  \/ LoopBusy
  \/ SweepCommit
  \/ \E d \in Doc : ForceCommit(d)
  \/ \E u \in User, d \in Doc :
       AcquireAnswer(u, d) \/ ReleaseCommit(u, d) \/ WriteCommit(u, d) \/ WriteConflict(u, d)

Served(u) ==
  \/ RequestLost(u)
  \/ \E d \in Doc : Serve(u, "acquire", d) /\ AcquireStep(u, d)
  \/ \E d \in Doc : Serve(u, "release", d) /\ ReleaseStep(u, d)
  \/ \E d \in Doc : Serve(u, "write", d) /\ WriteStep(u, d)
  \/ \E d \in Doc : PoolStep(u, d)

Fairness ==
  /\ WF_lockVars(Tick)
  /\ WF_lockVars(LoopFinishes)
  /\ SF_lockVars(SweepBegin)
  /\ SF_lockVars(SweepCommit)
  /\ \A u \in User : WF_lockVars(Served(u))

FairSpec == Spec /\ Fairness

-----------------------------------------------------------------------------
(* Properties.                                                             *)

(***************************************************************************)
(* A lease is honoured: until the time that acquire or heartbeat returned, *)
(* the row still belongs to that user, unless the user gave it up (release,*)
(* skip, save, complete, logout) or an administrator took it (force        *)
(* release, disable).  Neither another user's acquire nor a sweep that     *)
(* read the clock earlier may take it.                                     *)
(***************************************************************************)
LeaseHonoured ==
  \A u \in User, d \in Doc :
    lease[u][d] >= now => locks[d].user = u /\ locks[d].expires >= lease[u][d]

(***************************************************************************)
(* Peers are not misled about a held document: whenever no handler is half *)
(* way, the last lock event on a locked document named its holder, even    *)
(* though a skip releases in silence, an acquire may take over an expired  *)
(* row, and a heartbeat may revive one.                                    *)
(***************************************************************************)
HolderAnnounced ==
  loop = Idle => \A d \in Doc : locks[d] # NoLock => heard[d] = locks[d].user

(***************************************************************************)
(* No write under another user's lease: when save_annotation or            *)
(* set_complete commits, no other user has time left on a promise for that *)
(* document, though the promise may have been renewed (by a heartbeat that *)
(* revived an expired row) after the handler's first check.                *)
(***************************************************************************)
NoWriteUnderLease ==
  [][\A u, v \in User, d \in Doc :
       WriteCommit(u, d) /\ v # u => lease[v][d] <= now]_lockVars

(***************************************************************************)
(* The table of rows with expiry times, the sweep and the handlers         *)
(* implement the lock a user sees: one holder at a time, and never a       *)
(* hand-over from one user to another while the first lease runs.          *)
(***************************************************************************)
Lease == INSTANCE LockLease WITH holder <- [d \in Doc |-> Holder(d)]

ImplementsLease == Lease!Spec

(***************************************************************************)
(* A user without a session does not keep a document locked: requests that *)
(* were authenticated before the session ended may still take a lock, but  *)
(* nothing renews it, and the sweep removes it.                            *)
(***************************************************************************)
AbandonedLockIsFreed ==
  \A u \in User, d \in Doc :
    (~session[u] /\ locks[d].user = u) ~> (session[u] \/ locks[d].user # u)

=============================================================================
