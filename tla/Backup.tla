------------------------------- MODULE Backup -------------------------------
(* The backup cycle (src/backend/backup): a snapshot of the database, its    *)
(* names in the backup directory, the rotation, and the git repository that  *)
(* carries the directory to a remote one.                                    *)
(*                                                                           *)
(* The daily loop and the administrator's "run now" start cycles, in threads *)
(* of one process, under a lock.  A step of a cycle may raise, a command may *)
(* time out after the remote side did what it asked, the server may die and  *)
(* a deployment may start from an empty disk with the database restored from *)
(* the mirror.                                                               *)
EXTENDS Integers, Sequences, SequencesExt

CONSTANTS
  Nil,
  Tables,      \* number of tables in a snapshot, in alphabetical order
  Keep,        \* named snapshots that the rotation keeps
  MaxClock,    \* bound: minutes that pass
  MaxTransactions, \* bound: committed transactions
  MaxCycles,   \* bound: cycles started
  MaxFaults,   \* bound: steps that raise and deaths of the server
  MaxRedeploys \* bound: deployments on an empty disk

Caller == {"loop", "admin"}

ASSUME BackupAssumption ==
  /\ Tables \in Nat \ {0} /\ Keep \in Nat \ {0}
  /\ MaxClock \in Nat /\ MaxTransactions \in Nat /\ MaxCycles \in Nat
  /\ MaxFaults \in Nat /\ MaxRedeploys \in Nat
  /\ Nil \notin Nat \cup Caller

Position == {"idle", "dump", "rename", "latest", "rotate", "ensure", "config", "adopt",
             "commit", "push", "pushed"}

VARIABLES
  db,        \* the number of the last committed transaction
  clock,     \* the minute of utc_timestamp
  remoteSet, \* BACKUP_REPO_URL and GITHUB_PAT are set
  production,
  lock,      \* who holds _backup_cycle_lock
  cycle,     \* caller -> its cycle
  snaps,     \* the files <name>.json.gz, oldest first by modification time
  latest,    \* latest.json.gz
  repo,      \* the directory's .git
  remote,    \* the commits of the branch at the remote repository
  used,      \* what the bounds count
  \* History.
  acked,     \* cycles that reported success
  whole      \* ensure_initialized ran to its end on this disk

backupVars == <<db, clock, remoteSet, production, lock, cycle, snaps, latest, repo,
                remote, used, acked, whole>>

Bound == [cycles |-> MaxCycles, faults |-> MaxFaults, redeploys |-> MaxRedeploys,
          commits |-> MaxCycles + MaxRedeploys + 2]
Uses(b) == used[b] < Bound[b] /\ used' = [used EXCEPT ![b] = @ + 1]

\* A snapshot is, per table, the transaction whose state of it was read.
File == [name : (0..MaxClock) \X Nat, rows : Seq(Nat)]
NoRepo == [exists |-> FALSE, identity |-> FALSE, log |-> <<>>]
Idle == [at |-> "idle", name |-> Nil, began |-> Nil, seen |-> Nil, rows |-> <<>>]
Commit(files, newest) == [id |-> used["commits"] + 1, snaps |-> files, latest |-> newest]

BackupInit ==
  /\ db = 0 /\ clock = 0
  /\ remoteSet \in BOOLEAN /\ production \in BOOLEAN
  /\ lock = Nil
  /\ cycle = [c \in Caller |-> Idle]
  /\ snaps = <<>> /\ latest = Nil
  /\ repo = NoRepo
  /\ remote \in {<<>>, <<[id |-> 0, snaps |-> <<>>, latest |-> Nil]>>}
  /\ used = [b \in DOMAIN Bound |-> 0]
  /\ acked = {} /\ whole = FALSE

-----------------------------------------------------------------------------
(* One cycle. *)

At(c, position) == cycle[c].at = position
Goes(c, position) == cycle' = [cycle EXCEPT ![c].at = position]

\* The end of a cycle, with a result or an exception: the lock is given back.
Ends(c) == cycle' = [cycle EXCEPT ![c] = Idle] /\ lock' = Nil

Taken(minute) == {k \in 0..Len(snaps) : \E i \in DOMAIN snaps : snaps[i].name = <<minute, k>>}

\* _unique_snapshot_timestamp: the minute, or the minute with the first free number.
UniqueName == <<clock, CHOOSE k \in 0..Len(snaps) :
                          k \notin Taken(clock) /\ \A j \in 0..(k - 1) : j \in Taken(clock)>>

\* Mutant: no lock.
LockIgnored(c) == At(c, "idle")
LockFree(c) == At(c, "idle") /\ lock = Nil

\* run_backup_cycle up to the first read of the snapshot's transaction; in
\* production it fails at once when no remote is configured.
Start(c) ==
  /\ LockFree(c)
  /\ Uses("cycles")
  /\ production => remoteSet
  /\ lock' = c
  /\ cycle' = [cycle EXCEPT ![c] = [at |-> "dump", name |-> UniqueName, began |-> db,
                                    seen |-> Nil, rows |-> <<>>]]
  /\ UNCHANGED <<db, clock, remoteSet, production, snaps, latest, repo, remote,
                 acked, whole>>

\* Mutant: every table is read by itself.
StateReadNow(c) == db

\* BEGIN reads one state, whichever transactions commit meanwhile.
StateRead(c) == IF cycle[c].seen = Nil THEN db ELSE cycle[c].seen

\* The next table is streamed to the temporary file.
ReadTable(c) ==
  /\ At(c, "dump") /\ Len(cycle[c].rows) < Tables
  /\ cycle' = [cycle EXCEPT ![c].seen = StateRead(c), ![c].rows = Append(@, StateRead(c)),
                            ![c].at = IF Len(cycle[c].rows) + 1 = Tables THEN "rename" ELSE "dump"]
  /\ UNCHANGED <<db, clock, remoteSet, production, lock, snaps, latest, repo, remote,
                 used, acked, whole>>

\* The files at some places of the directory, in their order.
FilesAt(places) ==
  [k \in 1..Cardinality(places) |->
     snaps[CHOOSE i \in places : Cardinality({j \in places : j <= i}) = k]]

Others(name) == FilesAt({i \in DOMAIN snaps : snaps[i].name # name})

\* os.replace gives the finished temporary file its name.
Rename(c) ==
  LET file == [name |-> cycle[c].name, rows |-> cycle[c].rows]
  IN /\ At(c, "rename")
     /\ snaps' = Append(Others(cycle[c].name), file)
     /\ Goes(c, "latest")
     /\ UNCHANGED <<db, clock, remoteSet, production, lock, latest, repo, remote,
                    used, acked, whole>>

\* The copy, by a temporary file of its own.
CopyLatest(c) ==
  /\ At(c, "latest")
  /\ latest' = cycle[c].rows
  /\ Goes(c, "rotate")
  /\ UNCHANGED <<db, clock, remoteSet, production, lock, snaps, repo, remote,
                 used, acked, whole>>

Kept == (Len(snaps) - Keep + 1)..Len(snaps)

\* What the rotation leaves when some deletions fail (they are logged only).
Rotated(stay) == FilesAt({i \in DOMAIN snaps : i \in Kept \cup stay})

\* rotate_snapshots; without a remote the cycle ends there.
Rotate(c) ==
  /\ At(c, "rotate")
  /\ \E stay \in SUBSET (DOMAIN snaps \ Kept) :
       /\ snaps' = Rotated(stay)
       /\ IF stay = {} THEN UNCHANGED used ELSE Uses("faults")
  /\ IF remoteSet THEN Goes(c, "ensure") /\ UNCHANGED lock ELSE Ends(c)
  /\ UNCHANGED <<db, clock, remoteSet, production, latest, repo, remote, acked,
                 whole>>

-----------------------------------------------------------------------------
(* git_remote.py. *)

\* ensure_initialized: a directory with .git is taken as it is; else git init,
\* and what follows are commands of their own.
EnsureInitialized(c) ==
  /\ At(c, "ensure")
  /\ IF repo.exists
     THEN Goes(c, "commit") /\ UNCHANGED repo
     ELSE Goes(c, "config") /\ repo' = [NoRepo EXCEPT !.exists = TRUE]
  /\ UNCHANGED <<db, clock, remoteSet, production, lock, snaps, latest, remote,
                 used, acked, whole>>

Configure(c) ==
  /\ At(c, "config")
  /\ repo' = [repo EXCEPT !.identity = TRUE]
  /\ Goes(c, "adopt")
  /\ UNCHANGED <<db, clock, remoteSet, production, lock, snaps, latest, remote,
                 used, acked, whole>>

\* Mutant: every repository starts anew.
AdoptedNever == <<Commit(<<>>, Nil)>>

\* _adopt_existing_remote_history, or an empty first commit when the remote
\* repository has no branch.  The directory holds the new snapshot by now.
Adopted == IF remote = <<>> THEN <<Commit(<<>>, Nil)>> ELSE remote

Adopt(c) ==
  /\ At(c, "adopt")
  /\ Uses("commits")
  /\ repo' = [repo EXCEPT !.log = Adopted]
  /\ whole' = TRUE
  /\ Goes(c, "commit")
  /\ UNCHANGED <<db, clock, remoteSet, production, lock, snaps, latest, remote,
                 acked>>

\* git add, git commit: the tree is the directory.  It fails without an identity.
CommitAll(c) ==
  /\ At(c, "commit")
  /\ repo.identity
  /\ Uses("commits")
  /\ repo' = [repo EXCEPT !.log = Append(@, Commit(snaps, latest))]
  /\ Goes(c, "push")
  /\ UNCHANGED <<db, clock, remoteSet, production, lock, snaps, latest, remote,
                 acked, whole>>

\* The remote repository takes a push that extends its branch.
FastForward == IsPrefix(remote, repo.log)

Push(c) ==
  /\ At(c, "push")
  /\ FastForward
  /\ remote' = repo.log
  /\ Goes(c, "pushed")
  /\ UNCHANGED <<db, clock, remoteSet, production, lock, snaps, latest, repo, used,
                 acked, whole>>

\* backup_success, and the answer of the route.
Succeed(c) ==
  /\ At(c, "pushed")
  /\ acked' = acked \cup {[name |-> cycle[c].name, rows |-> cycle[c].rows,
                           began |-> cycle[c].began]}
  /\ Ends(c)
  /\ UNCHANGED <<db, clock, remoteSet, production, snaps, latest, repo, remote, used,
                 whole>>

\* backup_failed: a refused commit or push, or a step that raises where it
\* stands; after "pushed", the answer to a push that was carried out is lost.
Refused(c) == \/ At(c, "commit") /\ ~repo.identity
              \/ At(c, "push") /\ ~FastForward

\* Mutant: a failed copy of the latest file is logged only.
RaisesLater(c) == IF At(c, "latest") THEN Goes(c, "rotate") /\ UNCHANGED lock ELSE Ends(c)
Raises(c) == Ends(c)

Fail(c) ==
  /\ ~At(c, "idle")
  /\ \/ Refused(c) /\ UNCHANGED used
     \/ ~Refused(c) /\ Uses("faults")
  /\ Raises(c)
  /\ UNCHANGED <<db, clock, remoteSet, production, snaps, latest, repo, remote,
                 acked, whole>>

-----------------------------------------------------------------------------
(* Around the cycles. *)

\* A request commits.
Write ==
  /\ db < MaxTransactions
  /\ db' = db + 1
  /\ UNCHANGED <<clock, remoteSet, production, lock, cycle, snaps, latest, repo, remote,
                 used, acked, whole>>

Minute ==
  /\ clock < MaxClock
  /\ clock' = clock + 1
  /\ UNCHANGED <<db, remoteSet, production, lock, cycle, snaps, latest, repo, remote,
                 used, acked, whole>>

\* The process dies with the threads of its cycles.
Crash ==
  /\ lock # Nil
  /\ Uses("faults")
  /\ lock' = Nil
  /\ cycle' = [c \in Caller |-> Idle]
  /\ UNCHANGED <<db, clock, remoteSet, production, snaps, latest, repo, remote,
                 acked, whole>>

\* An empty disk; the database comes back from the mirror, which may trail.
Redeploy ==
  /\ Uses("redeploys")
  /\ lock' = Nil
  /\ cycle' = [c \in Caller |-> Idle]
  /\ snaps' = <<>> /\ latest' = Nil
  /\ repo' = NoRepo
  /\ db' \in 0..db
  /\ whole' = FALSE
  /\ UNCHANGED <<clock, remoteSet, production, remote, acked>>

Step(c) ==
  \/ Start(c) \/ ReadTable(c) \/ Rename(c) \/ CopyLatest(c) \/ Rotate(c)
  \/ EnsureInitialized(c) \/ Configure(c) \/ Adopt(c) \/ CommitAll(c) \/ Push(c)
  \/ Succeed(c) \/ Fail(c)

BackupNext ==
  \/ \E c \in Caller : Step(c)
  \/ Write \/ Minute \/ Crash \/ Redeploy

BackupSpec == BackupInit /\ [][BackupNext]_backupVars

-----------------------------------------------------------------------------
(* Properties. *)

Version(rows) == Len(rows) = Tables /\ \A i, j \in DOMAIN rows : rows[i] = rows[j]
Tree(files, newest) ==
  /\ \A i \in DOMAIN files : Version(files[i].rows)
  /\ \A i, j \in DOMAIN files : files[i].name = files[j].name => i = j
  /\ newest # Nil => Version(newest)

\* Whatever commits while a snapshot is read and wherever a cycle ends, every
\* file a restore could pick, on the disk or in a commit of the remote
\* repository, is one committed state in full (service.py:119-185).
SnapshotsAreWhole ==
  /\ Tree(snaps, latest)
  /\ \A k \in DOMAIN remote : Tree(remote[k].snaps, remote[k].latest)

\* A backup that was reported as a success can be restored from the remote
\* repository, by its name and as "latest" of its commit, and holds every
\* transaction that had been committed when it started.
AckedBackupIsRemote ==
  \A a \in acked :
    /\ a.rows[1] >= a.began
    /\ \E k \in DOMAIN remote :
         /\ remote[k].latest = a.rows
         /\ \E i \in DOMAIN remote[k].snaps : remote[k].snaps[i] = [name |-> a.name, rows |-> a.rows]

\* `latest` in a commit is the newest of its named snapshots: a cycle that
\* failed between the two files is not pushed before they agree again.
LatestIsNewest ==
  \A k \in DOMAIN remote :
    remote[k].snaps # <<>> => remote[k].latest = Last(remote[k].snaps).rows

\* After an initialisation that ran to its end, the remote branch is a past of
\* the local one: whatever failed before, also with its answer lost, the next
\* push is accepted and carries what had not arrived (git_remote.py:138-215).
NextPushIsAccepted == whole => IsPrefix(remote, repo.log)

=============================================================================
