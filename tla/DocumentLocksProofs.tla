------------------------ MODULE DocumentLocksProofs ------------------------
(***************************************************************************)
(* For any number of users and documents and any lease lengths: leases are *)
(* honoured, no write commits under another user's lease, peers are told  *)
(* who holds a document, and the table implements LockLease.               *)
(***************************************************************************)
EXTENDS DocumentLocks, TLAPS

\* The clock has started, and a sweep works with a time that has passed.
ClockOK == now >= 1 /\ loop.at <= now

\* LeaseHonoured alone is not inductive: a sweep whose cutoff lay in the future
\* would delete a row that is still promised.
IInv == TypeOK /\ ClockOK /\ LeaseHonoured

USE LeaseAssumption, NoneAssumption

LEMMA InitIInv == Init => IInv
BY DEF Init, IInv, TypeOK, ClockOK, LeaseHonoured, Row, NoLock, NoRequest, Idle

\* What an action may do to the locks and the promises without harm to a lease.
LEMMA DropKeepsLeases ==
  ASSUME IInv, NEW u \in User, NEW D \in SUBSET Doc,
         locks' = Without(u, D), Forgo(u, D), now' = now
  PROVE  /\ LeaseHonoured'
         /\ locks' \in [Doc -> Row \union {NoLock}]
         /\ lease' \in [User -> [Doc -> Nat]]
<1>1. /\ locks' \in [Doc -> Row \union {NoLock}]
      /\ lease' \in [User -> [Doc -> Nat]]
  BY DEF IInv, TypeOK, Without, Forgo, Row, NoLock
<1>2. ASSUME NEW v \in User, NEW d \in Doc, lease'[v][d] >= now'
      PROVE  locks'[d].user = v /\ locks'[d].expires >= lease'[v][d]
  <2>1. ~(v = u /\ d \in D)
    BY <1>2 DEF IInv, TypeOK, ClockOK, Forgo
  <2>2. lease'[v][d] = lease[v][d]
    BY <2>1 DEF IInv, TypeOK, Forgo
  <2>3. locks[d].user = v /\ locks[d].expires >= lease[v][d]
    BY <1>2, <2>2 DEF IInv, LeaseHonoured
  <2>4. locks'[d] = locks[d]
    BY <2>1, <2>3 DEF Without
  <2>. QED  BY <2>2, <2>3, <2>4
<1>. QED  BY <1>1, <1>2 DEF LeaseHonoured

LEMMA RenewKeepsLeases ==
  ASSUME IInv, NEW u \in User, NEW d \in Doc, NEW s \in LeaseSeconds,
         \A v \in User : v # u => ~(lease[v][d] >= now),
         locks' = [locks EXCEPT ![d] = Renewed(u, s)], Promise(u, d, s), now' = now
  PROVE  /\ LeaseHonoured'
         /\ locks' \in [Doc -> Row \union {NoLock}]
         /\ lease' \in [User -> [Doc -> Nat]]
<1>1. s \in Nat /\ now \in Nat
  BY DEF IInv, TypeOK
<1>2. /\ locks' \in [Doc -> Row \union {NoLock}]
      /\ lease' \in [User -> [Doc -> Nat]]
  BY <1>1 DEF IInv, TypeOK, Renewed, Promise, Row, NoLock
<1>3. ASSUME NEW v \in User, NEW e \in Doc, lease'[v][e] >= now'
      PROVE  locks'[e].user = v /\ locks'[e].expires >= lease'[v][e]
  <2>1. CASE e # d
    <3>1. lease'[v][e] = lease[v][e] /\ locks'[e] = locks[e]
      BY <2>1 DEF IInv, TypeOK, Promise
    <3>. QED  BY <3>1, <1>3 DEF IInv, LeaseHonoured
  <2>2. CASE e = d /\ v = u
    BY <1>1, <2>2 DEF IInv, TypeOK, Promise, Renewed
  <2>3. CASE e = d /\ v # u
    <3>1. lease'[v][e] = lease[v][e]
      BY <2>3 DEF IInv, TypeOK, Promise
    <3>. QED  BY <3>1, <2>3, <1>3
  <2>. QED  BY <2>1, <2>2, <2>3
<1>. QED  BY <1>2, <1>3 DEF LeaseHonoured

\* Who holds a live row by the record of promises.
LEMMA HolderOfLease ==
  ASSUME IInv, NEW v \in User, NEW d \in Doc, lease[v][d] >= now
  PROVE  Holder(d) = v
<1>1. locks[d].user = v /\ locks[d].expires >= lease[v][d]
  BY DEF IInv, LeaseHonoured
<1>2. locks[d] # NoLock /\ locks[d].expires >= now
  BY <1>1 DEF NoLock, IInv, TypeOK, Row
<1>. QED  BY <1>1, <1>2 DEF Holder

LEMMA NextIInv == IInv /\ [Next]_lockVars => IInv'
<1> SUFFICES ASSUME IInv, [Next]_lockVars PROVE IInv'
  OBVIOUS
<1> USE DEF IInv
<1>1. CASE UNCHANGED lockVars
  BY <1>1 DEF lockVars, TypeOK, ClockOK, LeaseHonoured
<1>2. CASE Tick
  BY <1>2 DEF Tick, TypeOK, ClockOK, LeaseHonoured
<1>3. CASE SweepBegin
  BY <1>3 DEF SweepBegin, Start, TypeOK, ClockOK, LeaseHonoured, LoopOp
<1>4. CASE SweepCommit
  <2>1. locks' \in [Doc -> Row \union {NoLock}] /\ heard' \in [Doc -> User \union {None}]
    BY <1>4 DEF SweepCommit, TypeOK
  <2>2. ASSUME NEW u \in User, NEW d \in Doc, lease[u][d] >= now
        PROVE  locks'[d] = locks[d]
    <3>1. locks[d].expires >= now
      BY <2>2 DEF LeaseHonoured, TypeOK, Row, NoLock
    <3>2. d \notin Expired(loop.at)
      BY <3>1 DEF Expired, ClockOK, TypeOK, Row, NoLock
    <3>. QED  BY <1>4, <3>2 DEF SweepCommit
  <2>3. LeaseHonoured'
    BY <1>4, <2>2 DEF SweepCommit, LeaseHonoured
  <2>. QED  BY <1>4, <2>1, <2>3 DEF SweepCommit, TypeOK, ClockOK, Idle
<1>5. CASE LoopBusy
  BY <1>5 DEF LoopBusy, TypeOK, ClockOK, LeaseHonoured, Idle
<1>6. ASSUME NEW d \in Doc, ForceBegin(d) PROVE IInv'
  <2>1. Holder(d) \in User \union {None}
    BY DEF Holder, TypeOK, Row, NoLock
  <2>. QED  BY <1>6, <2>1 DEF ForceBegin, Start, TypeOK, ClockOK, LeaseHonoured, LoopOp
<1>7. ASSUME NEW d \in Doc, ForceCommit(d) PROVE IInv'
  <2>1. /\ locks' \in [Doc -> Row \union {NoLock}]
        /\ lease' \in [User -> [Doc -> Nat]]
        /\ heard' \in [Doc -> User \union {None}]
    BY <1>7 DEF ForceCommit, TypeOK
  <2>2. LeaseHonoured'
    BY <1>7 DEF ForceCommit, TypeOK, ClockOK, LeaseHonoured
  <2>. QED  BY <1>7, <2>1, <2>2 DEF ForceCommit, TypeOK, ClockOK, Idle
<1>8. ASSUME NEW u \in User, AccountStep(u) PROVE IInv'
  <2>1. CASE Login(u)
    BY <2>1 DEF Login, TypeOK, ClockOK, LeaseHonoured
  <2>2. CASE SessionExpires(u)
    BY <2>2 DEF SessionExpires, TypeOK, ClockOK, LeaseHonoured
  <2>3. CASE DropAll(u) /\ (UNCHANGED active \/ active' = [active EXCEPT ![u] = FALSE])
    <3>1. /\ LeaseHonoured'
          /\ locks' \in [Doc -> Row \union {NoLock}]
          /\ lease' \in [User -> [Doc -> Nat]]
      BY <2>3, DropKeepsLeases DEF DropAll
    <3>2. heard' \in [Doc -> User \union {None}]
      BY <2>3 DEF DropAll, TypeOK
    <3>. QED  BY <2>3, <3>1, <3>2 DEF DropAll, TypeOK, ClockOK
  <2>4. CASE Enable(u)
    BY <2>4 DEF Enable, TypeOK, ClockOK, LeaseHonoured
  <2>5. CASE RequestLost(u)
    BY <2>5 DEF RequestLost, TypeOK, ClockOK, LeaseHonoured, NoRequest
  <2>. QED  BY <1>8, <2>1, <2>2, <2>3, <2>4, <2>5 DEF AccountStep, Logout, Disable
<1>9. ASSUME NEW u \in User, NEW d \in Doc, NEW op \in RequestOp, Authenticate(u, op, d)
      PROVE  IInv'
  BY <1>9 DEF Authenticate, TypeOK, ClockOK, LeaseHonoured
<1>10. ASSUME NEW u \in User, NEW d \in Doc, PoolStep(u, d) PROVE IInv'
  <2>1. ASSUME NEW s \in LeaseSeconds, Heartbeat(u, d, s) PROVE IInv'
    <3>1. \A v \in User : v # u => ~(lease[v][d] >= now)
      BY <2>1 DEF Heartbeat, LeaseHonoured
    <3>2. /\ LeaseHonoured'
          /\ locks' \in [Doc -> Row \union {NoLock}]
          /\ lease' \in [User -> [Doc -> Nat]]
      BY <2>1, <3>1, RenewKeepsLeases DEF Heartbeat
    <3>. QED  BY <2>1, <3>2 DEF Heartbeat, Serve, TypeOK, ClockOK
  <2>2. CASE HeartbeatRefused(u, d)
    BY <2>2 DEF HeartbeatRefused, Serve, TypeOK, ClockOK, LeaseHonoured
  <2>3. CASE Skip(u, d)
    <3>1. /\ LeaseHonoured'
          /\ locks' \in [Doc -> Row \union {NoLock}]
          /\ lease' \in [User -> [Doc -> Nat]]
      BY <2>3, DropKeepsLeases DEF Skip
    <3>. QED  BY <2>3, <3>1 DEF Skip, Serve, TypeOK, ClockOK
  <2>. QED  BY <1>10, <2>1, <2>2, <2>3 DEF PoolStep
<1>11. ASSUME NEW u \in User, NEW d \in Doc, AcquireStep(u, d) PROVE IInv'
  <2>1. ASSUME NEW s \in LeaseSeconds, AcquireCommit(u, d, s) PROVE IInv'
    <3>1. \A v \in User : v # u => ~(lease[v][d] >= now)
      BY <2>1, HolderOfLease DEF AcquireCommit
    <3>2. /\ LeaseHonoured'
          /\ locks' \in [Doc -> Row \union {NoLock}]
          /\ lease' \in [User -> [Doc -> Nat]]
      BY <2>1, <3>1, RenewKeepsLeases DEF AcquireCommit
    <3>3. loop' \in [op: LoopOp \union {"idle"}, user: User \union {None},
                     doc: Doc \union {None}, held: User \union {None}, at: Nat]
      BY <2>1 DEF AcquireCommit, Start, TypeOK, LoopOp
    <3>4. ClockOK'
      BY <2>1 DEF AcquireCommit, Start, TypeOK, ClockOK
    <3>. QED  BY <2>1, <3>2, <3>3, <3>4 DEF AcquireCommit, Serve, TypeOK
  <2>2. CASE AcquireRefused(u, d)
    BY <2>2 DEF AcquireRefused, Serve, TypeOK, ClockOK, LeaseHonoured
  <2>3. CASE AcquireAnswer(u, d)
    <3>1. heard' \in [Doc -> User \union {None}]
      BY <2>3 DEF AcquireAnswer, TypeOK, Row, NoLock
    <3>. QED  BY <2>3, <3>1 DEF AcquireAnswer, TypeOK, ClockOK, LeaseHonoured, Idle
  <2>. QED  BY <1>11, <2>1, <2>2, <2>3 DEF AcquireStep
<1>12. ASSUME NEW u \in User, NEW d \in Doc, ReleaseStep(u, d) PROVE IInv'
  <2>1. CASE ReleaseBegin(u, d)
    BY <2>1 DEF ReleaseBegin, Serve, Start, TypeOK, ClockOK, LeaseHonoured, LoopOp
  <2>2. CASE ReleaseCommit(u, d)
    <3>1. /\ LeaseHonoured'
          /\ locks' \in [Doc -> Row \union {NoLock}]
          /\ lease' \in [User -> [Doc -> Nat]]
      <4>1. CASE locks[d].user \in {u, None}
        BY <2>2, <4>1, DropKeepsLeases DEF ReleaseCommit
      <4>2. CASE locks[d].user \notin {u, None}
        BY <2>2, <4>2 DEF ReleaseCommit, TypeOK, LeaseHonoured
      <4>. QED  BY <4>1, <4>2
    <3>2. heard' \in [Doc -> User \union {None}]
      BY <2>2 DEF ReleaseCommit, TypeOK
    <3>. QED  BY <2>2, <3>1, <3>2 DEF ReleaseCommit, TypeOK, ClockOK, Idle
  <2>. QED  BY <1>12, <2>1, <2>2 DEF ReleaseStep
<1>13. ASSUME NEW u \in User, NEW d \in Doc, WriteStep(u, d) PROVE IInv'
  <2>1. CASE WriteBegin(u, d)
    BY <2>1 DEF WriteBegin, Serve, Start, TypeOK, ClockOK, LeaseHonoured, LoopOp
  <2>2. CASE WriteRefused(u, d)
    BY <2>2 DEF WriteRefused, Serve, TypeOK, ClockOK, LeaseHonoured
  <2>3. CASE WriteCommit(u, d)
    <3>1. /\ LeaseHonoured'
          /\ locks' \in [Doc -> Row \union {NoLock}]
          /\ lease' \in [User -> [Doc -> Nat]]
      BY <2>3, DropKeepsLeases DEF WriteCommit
    <3>2. TypeOK'
      BY <2>3, <3>1 DEF WriteCommit, TypeOK, Idle
    <3>3. ClockOK'
      BY <2>3 DEF WriteCommit, TypeOK, ClockOK, Idle
    <3>. QED  BY <3>1, <3>2, <3>3
  <2>4. CASE WriteConflict(u, d)
    BY <2>4 DEF WriteConflict, TypeOK, ClockOK, LeaseHonoured, Idle
  <2>. QED  BY <1>13, <2>1, <2>2, <2>3, <2>4 DEF WriteStep
<1>. QED
  BY <1>1, <1>2, <1>3, <1>4, <1>5, <1>6, <1>7, <1>8, <1>9, <1>10, <1>11, <1>12, <1>13
  DEF Next, ForceStep

(***************************************************************************)
(* Until the time acquire or heartbeat returned, the row stays with that   *)
(* user, whatever other users, their expired locks and the sweep do.       *)
(***************************************************************************)
THEOREM LeasesAreHonoured == Spec => [](TypeOK /\ LeaseHonoured)
<1>1. IInv => TypeOK /\ LeaseHonoured
  BY DEF IInv
<1>. QED  BY <1>1, InitIInv, NextIInv, PTL DEF Spec

(***************************************************************************)
(* The check inside the write transaction is enough: no save and no        *)
(* complete commits while another user has time left on a lease.           *)
(***************************************************************************)
THEOREM WritesRespectLeases == Spec => NoWriteUnderLease
<1>1. ASSUME IInv
      PROVE  \A u, v \in User, d \in Doc :
               WriteCommit(u, d) /\ v # u => lease[v][d] <= now
  <2>1. SUFFICES ASSUME NEW u \in User, NEW v \in User, NEW d \in Doc,
                        WriteCommit(u, d), v # u, ~(lease[v][d] <= now)
                 PROVE  FALSE
    OBVIOUS
  <2>2. locks[d].user = v /\ locks[d].expires >= lease[v][d] /\ lease[v][d] > now
    BY <1>1, <2>1 DEF IInv, TypeOK, LeaseHonoured
  <2>3. HeldByOther(u, d)
    BY <1>1, <2>1, <2>2 DEF HeldByOther, IInv, TypeOK, Row, NoLock
  <2>. QED  BY <2>1, <2>3 DEF WriteCommit
<1>. QED  BY <1>1, InitIInv, NextIInv, PTL DEF Spec, NoWriteUnderLease

-----------------------------------------------------------------------------
(* What peers were told.                                                   *)

\* Every locked document was announced with its holder, except the one whose
\* acquire has committed and has not published yet.
Announced ==
  \A d \in Doc : locks[d] # NoLock =>
    heard[d] = locks[d].user \/ (loop.op = "acquire" /\ loop.doc = d)

\* While acquire waits to publish no other handler of the loop runs, and the
\* handlers of the pool only keep the holder of a row or delete it.
LEMMA OwnersKept ==
  ASSUME Announced,
         \A d \in Doc : locks'[d] = NoLock \/ (locks[d] # NoLock /\ locks'[d].user = locks[d].user),
         \A d \in Doc : locks'[d] # NoLock => heard'[d] = heard[d],
         loop' = loop \/ loop.op # "acquire"
  PROVE  Announced'
BY DEF Announced

LEMMA NextAnnounced == IInv /\ Announced /\ [Next]_lockVars => Announced'
<1> SUFFICES ASSUME IInv, Announced, [Next]_lockVars PROVE Announced'
  OBVIOUS
<1>1. CASE UNCHANGED lockVars
  BY <1>1 DEF lockVars, Announced
<1>2. CASE Tick \/ SweepBegin \/ LoopBusy
  BY <1>2, OwnersKept DEF Tick, SweepBegin, Start, Idle, LoopBusy
<1>3. CASE SweepCommit
  BY <1>3, OwnersKept DEF SweepCommit, Running, IInv, TypeOK
<1>4. ASSUME NEW d \in Doc, ForceStep(d) PROVE Announced'
  <2>1. CASE ForceBegin(d)
    BY <2>1, OwnersKept DEF ForceBegin, Start, Idle
  <2>2. CASE ForceCommit(d)
    BY <2>2, OwnersKept DEF ForceCommit, Running, IInv, TypeOK
  <2>. QED  BY <1>4, <2>1, <2>2 DEF ForceStep
<1>5. ASSUME NEW u \in User, AccountStep(u) PROVE Announced'
  <2>1. CASE Login(u) \/ SessionExpires(u) \/ Enable(u) \/ RequestLost(u)
    BY <2>1, OwnersKept DEF Login, SessionExpires, Enable, RequestLost
  <2>2. CASE DropAll(u)
    <3>1. \A d \in Doc : locks'[d] \in {locks[d], NoLock}
      BY <2>2 DEF DropAll, Without
    <3>2. \A d \in Doc : locks'[d] # NoLock => heard'[d] = heard[d]
      BY <2>2 DEF DropAll, Without
    <3>. QED  BY <2>2, <3>1, <3>2, OwnersKept DEF DropAll
  <2>. QED  BY <1>5, <2>1, <2>2 DEF AccountStep, Logout, Disable
<1>6. ASSUME NEW u \in User, NEW d \in Doc, NEW op \in RequestOp, Authenticate(u, op, d)
      PROVE  Announced'
  BY <1>6, OwnersKept DEF Authenticate
<1>7. ASSUME NEW u \in User, NEW d \in Doc, PoolStep(u, d) PROVE Announced'
  <2>1. ASSUME NEW s \in LeaseSeconds, Heartbeat(u, d, s) PROVE Announced'
    <3>1. locks[d] # NoLock /\ Renewed(u, s).user = locks[d].user
      BY <2>1 DEF Heartbeat, Renewed, NoLock
    <3>. QED  BY <2>1, <3>1, OwnersKept DEF Heartbeat, IInv, TypeOK
  <2>2. CASE HeartbeatRefused(u, d)
    BY <2>2, OwnersKept DEF HeartbeatRefused
  <2>3. CASE Skip(u, d)
    BY <2>3, OwnersKept DEF Skip, Without
  <2>. QED  BY <1>7, <2>1, <2>2, <2>3 DEF PoolStep
<1>8. ASSUME NEW u \in User, NEW d \in Doc, AcquireStep(u, d) PROVE Announced'
  <2>1. ASSUME NEW s \in LeaseSeconds, AcquireCommit(u, d, s) PROVE Announced'
    <3>1. loop'.op = "acquire" /\ loop'.doc = d /\ loop.op = "idle"
      BY <2>1 DEF AcquireCommit, Start, Idle
    <3>2. \A e \in Doc : e # d => locks'[e] = locks[e] /\ heard'[e] = heard[e]
      BY <2>1 DEF AcquireCommit, IInv, TypeOK
    <3>. QED  BY <3>1, <3>2 DEF Announced
  <2>2. CASE AcquireRefused(u, d)
    BY <2>2, OwnersKept DEF AcquireRefused
  <2>3. CASE AcquireAnswer(u, d)
    BY <2>3 DEF AcquireAnswer, Running, Announced, IInv, TypeOK
  <2>. QED  BY <1>8, <2>1, <2>2, <2>3 DEF AcquireStep
<1>9. ASSUME NEW u \in User, NEW d \in Doc, ReleaseStep(u, d) PROVE Announced'
  <2>1. CASE ReleaseBegin(u, d)
    BY <2>1, OwnersKept DEF ReleaseBegin, Start, Idle
  <2>2. CASE ReleaseCommit(u, d) /\ locks[d].user \in {u, None}
    <3>1. \A e \in Doc : locks'[e] \in {locks[e], NoLock}
      BY <2>2 DEF ReleaseCommit, Without
    <3>2. locks'[d] = NoLock
      BY <2>2 DEF ReleaseCommit, Without, IInv, TypeOK, Row, NoLock
    <3>3. \A e \in Doc : e # d => heard'[e] = heard[e]
      BY <2>2 DEF ReleaseCommit, IInv, TypeOK
    <3>. QED  BY <2>2, <3>1, <3>2, <3>3, OwnersKept DEF ReleaseCommit, Running
  <2>3. CASE ReleaseCommit(u, d) /\ locks[d].user \notin {u, None}
    BY <2>3, OwnersKept DEF ReleaseCommit, Running
  <2>. QED  BY <1>9, <2>1, <2>2, <2>3 DEF ReleaseStep
<1>10. ASSUME NEW u \in User, NEW d \in Doc, WriteStep(u, d) PROVE Announced'
  <2>1. CASE WriteBegin(u, d) \/ WriteRefused(u, d)
    BY <2>1, OwnersKept DEF WriteBegin, WriteRefused, Start, Idle
  <2>2. CASE WriteCommit(u, d) \/ WriteConflict(u, d)
    BY <2>2, OwnersKept DEF WriteCommit, WriteConflict, Running, Without
  <2>. QED  BY <1>10, <2>1, <2>2 DEF WriteStep
<1>. QED
  BY <1>1, <1>2, <1>3, <1>4, <1>5, <1>6, <1>7, <1>8, <1>9, <1>10 DEF Next

(***************************************************************************)
(* The events of the lock routes tell the truth: with no handler half way, *)
(* whoever holds a row is whom the last event on the document named,       *)
(* although heartbeat and skip publish nothing and release, the forced     *)
(* release and the sweep decide by what they read earlier.                 *)
(***************************************************************************)
THEOREM PeersAreTold == Spec => []HolderAnnounced
<1>1. Init => Announced
  BY DEF Init, Announced
<1>2. Announced => HolderAnnounced
  BY DEF Announced, HolderAnnounced, Idle
<1>. QED  BY <1>1, <1>2, InitIInv, NextIInv, NextAnnounced, PTL DEF Spec

-----------------------------------------------------------------------------
(* The refinement.                                                         *)

\* The holder of a document in the next state: kept, or none, is no grant.
LEMMA EndingIsALeaseStep ==
  ASSUME \A d \in Doc : Holder(d)' \in {Holder(d), None}
  PROVE  Lease!Next
<1> DEFINE D == {d \in Doc : Holder(d)' = None}
<1>1. [d \in Doc |-> Holder(d)]' = [d \in Doc |-> IF d \in D THEN None ELSE Holder(d)]
  OBVIOUS
<1>. QED  BY <1>1 DEF Lease!Next, Lease!End

\* A renewal of a row by its owner, or of a document nobody holds.
LEMMA RenewalIsALeaseStep ==
  ASSUME IInv, NEW u \in User, NEW d \in Doc, NEW s \in LeaseSeconds,
         Holder(d) \in {u, None},
         locks' = [locks EXCEPT ![d] = Renewed(u, s)], now' = now
  PROVE  [Lease!Next]_[e \in Doc |-> Holder(e)]
<1> DEFINE h == [e \in Doc |-> Holder(e)]
<1>1. Holder(d)' = u
  <2>1. s \in Nat /\ now \in Nat /\ locks'[d] = [user |-> u, expires |-> now + s]
    BY DEF IInv, TypeOK, Renewed
  <2>2. locks'[d] # NoLock /\ locks'[d].expires >= now'
    BY <2>1 DEF NoLock
  <2>. QED  BY <2>1, <2>2 DEF Holder
<1>2. \A e \in Doc : e # d => Holder(e)' = Holder(e)
  BY DEF Holder, IInv, TypeOK
<1>3. CASE Holder(d) = u
  <2>1. h' = h
    BY <1>1, <1>2, <1>3
  <2>. QED  BY <2>1
<1>4. CASE Holder(d) = None
  <2>1. h' = [h EXCEPT ![d] = u] /\ h[d] = None
    BY <1>1, <1>2, <1>4
  <2>2. Lease!Grant(u, d)
    BY <2>1 DEF Lease!Grant
  <2>. QED  BY <2>2 DEF Lease!Next
<1>. QED  BY <1>3, <1>4

\* No other action writes a row, or turns the clock back.
LEMMA OtherStepsOnlyEnd ==
  ASSUME IInv, now' = now \/ now' = now + 1,
         \A d \in Doc : locks'[d] \in {locks[d], NoLock}
  PROVE  Lease!Next
<1>1. ASSUME NEW d \in Doc PROVE Holder(d)' \in {Holder(d), None}
  BY DEF Holder, IInv, TypeOK, Row, NoLock
<1>. QED  BY <1>1, EndingIsALeaseStep

LEMMA StepImplementsLease ==
  IInv /\ [Next]_lockVars => [Lease!Next]_[d \in Doc |-> Holder(d)]
<1> SUFFICES ASSUME IInv, [Next]_lockVars
             PROVE  [Lease!Next]_[d \in Doc |-> Holder(d)]
  OBVIOUS
<1>1. CASE \E u \in User, d \in Doc, s \in LeaseSeconds :
             AcquireCommit(u, d, s) \/ Heartbeat(u, d, s)
  <2> PICK u \in User, d \in Doc, s \in LeaseSeconds :
             AcquireCommit(u, d, s) \/ Heartbeat(u, d, s)
    BY <1>1
  <2>1. Holder(d) \in {u, None}
    BY DEF AcquireCommit, Heartbeat, Holder
  <2>. QED  BY <2>1, RenewalIsALeaseStep DEF AcquireCommit, Heartbeat
<1>2. CASE ~ \E u \in User, d \in Doc, s \in LeaseSeconds :
             AcquireCommit(u, d, s) \/ Heartbeat(u, d, s)
  <2> DEFINE Ends == /\ now' = now \/ now' = now + 1
                     /\ \A d \in Doc : locks'[d] \in {locks[d], NoLock}
  <2>1. ASSUME NEW u \in User, AccountStep(u) PROVE Ends
    BY <2>1 DEF AccountStep, Login, SessionExpires, Logout, Disable, DropAll, Enable,
                RequestLost, Without
  <2>2. ASSUME NEW u \in User, NEW d \in Doc, HeartbeatRefused(u, d) \/ Skip(u, d) PROVE Ends
    BY <2>2 DEF HeartbeatRefused, Skip, Without
  <2>3. ASSUME NEW u \in User, NEW d \in Doc, AcquireRefused(u, d) \/ AcquireAnswer(u, d)
        PROVE  Ends
    BY <2>3 DEF AcquireRefused, AcquireAnswer
  <2>4. ASSUME NEW u \in User, NEW d \in Doc, ReleaseStep(u, d) PROVE Ends
    BY <2>4 DEF ReleaseStep, ReleaseBegin, ReleaseCommit, Without
  <2>5. ASSUME NEW u \in User, NEW d \in Doc, WriteStep(u, d) PROVE Ends
    BY <2>5 DEF WriteStep, WriteBegin, WriteRefused, WriteCommit, WriteConflict, Without
  <2>6. ASSUME NEW d \in Doc, ForceStep(d) PROVE Ends
    BY <2>6 DEF ForceStep, ForceBegin, ForceCommit, IInv, TypeOK
  <2>7. ASSUME NEW u \in User, NEW d \in Doc, NEW op \in RequestOp, Authenticate(u, op, d)
        PROVE  Ends
    BY <2>7 DEF Authenticate
  <2>8. ASSUME SweepCommit PROVE Ends
    BY <2>8 DEF SweepCommit
  <2>9. ASSUME Tick \/ SweepBegin \/ LoopBusy \/ UNCHANGED lockVars PROVE Ends
    BY <2>9 DEF Tick, SweepBegin, LoopBusy, lockVars
  <2>10. ASSUME NEW u \in User, NEW d \in Doc, PoolStep(u, d) \/ AcquireStep(u, d)
         PROVE  Ends
    <3> HIDE DEF Ends
    <3>. QED  BY <1>2, <2>2, <2>3, <2>10 DEF PoolStep, AcquireStep
  <2> HIDE DEF Ends
  <2>11. Ends
    BY <2>1, <2>4, <2>5, <2>6, <2>7, <2>8, <2>9, <2>10 DEF Next
  <2>. QED  BY <2>11, OtherStepsOnlyEnd DEF Ends
<1>. QED  BY <1>1, <1>2

(***************************************************************************)
(* The lock table, with its expiry times, its sweep and its handlers,      *)
(* implements the lock of LockLease.                                       *)
(***************************************************************************)
THEOREM LocksImplementLease == Spec => ImplementsLease
<1>1. Init => Lease!Init
  BY DEF Init, Lease!Init, Holder
<1>. QED  BY <1>1, InitIInv, NextIInv, StepImplementsLease, PTL
          DEF Spec, ImplementsLease, Lease!Spec
=============================================================================
