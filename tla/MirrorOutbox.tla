---------------------------- MODULE MirrorOutbox ----------------------------
(***************************************************************************)
(* The outbox that feeds the Neon mirror: the triggers that queue every    *)
(* row write, backend/mirror (dispatcher, neon_client, health) and the     *)
(* part of the boot in backend/main that restores from the mirror.         *)
(*                                                                         *)
(* One iteration of the dispatcher reads a batch of the queue and then,    *)
(* row by row, calls Neon (which commits by itself) and records the answer *)
(* locally; requests commit, and the process may die, between any two of   *)
(* these statements.                                                       *)
(***************************************************************************)
EXTENDS Naturals, Sequences, FiniteSets

CONSTANTS
  Row,           \* primary keys of the mirrored tables
  Parent,        \* the row a row references (ON DELETE CASCADE), or None
  Statement,     \* the sequences of rows one transaction writes
  Document,      \* rows of documents_meta and its two reference tables
  Work,          \* rows of the tables in ANNOTATION_STATE_TABLES
  Val,           \* contents of a row
  Seeded,        \* rows that exist at the start, locally and in the mirror
  Initial,       \* their contents
  None,          \* no such row; the process that holds no pid file
  Batch,         \* NEON_MIRROR_BATCH_SIZE
  MaxRetries,    \* MAX_RETRIES
  Pid,           \* process numbers
  NextPid,       \* the number the next process gets
  MaxWrites,     \* bound of the model: row writes
  MaxFailures,   \* bound of the model: calls to Neon that fail
  MaxErrors,     \* bound of the model: iterations that end on a local error
  MaxKills,      \* bound of the model: deaths of the process, the disk kept
  MaxLosses,     \* bound of the model: deaths with the disk lost
  MaxStops,      \* bound of the model: orderly shutdowns
  MaxRequeues    \* bound of the model: requeues by an administrator

ASSUME RowAssumption ==
  /\ Parent \in [Row -> Row \union {None}]
  /\ \A r \in Row : Parent[r] # None => Parent[Parent[r]] = None
  /\ None \notin Row
  /\ Document \subseteq Row /\ Work \subseteq Row /\ Seeded \subseteq Row
  /\ \A r \in Seeded : Parent[r] # None => Parent[r] \in Seeded
ASSUME StatementAssumption ==
  \A s \in Statement : s \in Seq(Row) /\ \A j, k \in DOMAIN s : s[j] = s[k] => j = k
ASSUME FamilyAssumption ==
  \A s \in Statement : \A j, k \in DOMAIN s : Parent[s[j]] # s[k]
ASSUME ValAssumption == None \notin Val /\ Initial \in Val
ASSUME RetryAssumption == Batch \in Nat \ {0} /\ MaxRetries \in Nat \ {0}
ASSUME BoundAssumption ==
  /\ MaxWrites \in Nat /\ MaxFailures \in Nat /\ MaxErrors \in Nat /\ MaxKills \in Nat
  /\ MaxLosses \in Nat /\ MaxStops \in Nat /\ MaxRequeues \in Nat
ASSUME PidAssumption == None \notin Pid /\ NextPid \in [Pid -> Pid]

VARIABLES
  local,     \* the contents of each row in SQLite
  outbox,    \* _outbox by id
  last,      \* the last id given out
  mirror,    \* the contents of each row in Neon
  batch,     \* ids the dispatcher has read and not yet recorded
  answer,    \* what Neon answered for the least id of the batch
  process,   \* the server process: see ProcessState
  pid,       \* its number
  pidFile,   \* the number in .mirror-dispatcher.pid, or None
  troubled,  \* rows with a write that was refused, delayed or dropped
  reached,   \* ids of the writes that Neon has committed
  spare      \* what is left of the bounds

vars == <<local, outbox, last, mirror, batch, answer, process, pid, pidFile,
          troubled, reached, spare>>

Entry == [row: Row, val: Val \union {None}, delivered: BOOLEAN,
          retries: 0..MaxRetries, error: BOOLEAN, due: BOOLEAN]

Answer == {"none", "ok", "transient", "permanent"}

\* "mute" serves requests without a dispatcher; "lost" is dead with its disk.
ProcessState == {"up", "mute", "down", "lost"}

TypeOK ==
  /\ local \in [Row -> Val \union {None}]
  /\ mirror \in [Row -> Val \union {None}]
  /\ last \in Nat
  /\ DOMAIN outbox \subseteq 1..last
  /\ \A i \in DOMAIN outbox : outbox[i] \in Entry
  /\ batch \subseteq DOMAIN outbox
  /\ answer \in Answer
  /\ process \in ProcessState
  /\ pid \in Pid
  /\ pidFile \in Pid \union {None}
  /\ troubled \subseteq Row
  /\ reached \subseteq 1..last
  /\ spare \in [{"failures", "errors", "kills", "losses", "stops", "requeues"} -> Nat]

Empty == [i \in {} |-> None]

Init ==
  /\ local = [r \in Row |-> IF r \in Seeded THEN Initial ELSE None]
  /\ mirror = local
  /\ outbox = Empty
  /\ last = 0
  /\ batch = {}
  /\ answer = "none"
  /\ process = "up"
  /\ pid \in Pid
  /\ pidFile = pid
  /\ troubled = {}
  /\ reached = {}
  /\ spare = [failures |-> MaxFailures, errors |-> MaxErrors, kills |-> MaxKills,
              losses |-> MaxLosses, stops |-> MaxStops, requeues |-> MaxRequeues]

Spend(kind) ==
  /\ spare[kind] > 0
  /\ spare' = [spare EXCEPT ![kind] = @ - 1]

Serving == process \in {"up", "mute"}

-----------------------------------------------------------------------------
(* The writing side: triggers and requests. *)

Undelivered == {i \in DOMAIN outbox : ~outbox[i].delivered}
Dead == {i \in Undelivered : outbox[i].retries >= MaxRetries}

\* The trigger of a table: one more row of _outbox, in the same transaction.
Queued(r, v) == [row |-> r, val |-> v, delivered |-> FALSE, retries |-> 0,
                 error |-> FALSE, due |-> FALSE]

\* SQLite enforces the references: a row needs its parent to exist, and a
\* parent is deleted after its children.
ReferencesHold(r, v) ==
  IF v = None THEN \A c \in Row : Parent[c] = r => local[c] = None
  ELSE Parent[r] # None => local[Parent[r]] # None

Write(s, v) ==
  /\ Serving
  /\ last + Len(s) <= MaxWrites
  /\ \A k \in DOMAIN s : local[s[k]] # v /\ ReferencesHold(s[k], v)
  /\ local' = [r \in Row |-> IF \E k \in DOMAIN s : s[k] = r THEN v ELSE local[r]]
  /\ last' = last + Len(s)
  /\ outbox' = [i \in DOMAIN outbox \union ((last + 1)..(last + Len(s))) |->
                  IF i > last THEN Queued(s[i - last], v) ELSE outbox[i]]
  /\ UNCHANGED <<reached, mirror, batch, answer, process, pid, pidFile, troubled, spare>>

\* requeue_dead_letter: dead rows get their retries back.
Requeue ==
  /\ Serving
  /\ Dead # {}
  /\ Spend("requeues")
  /\ outbox' = [i \in DOMAIN outbox |->
                  IF i \in Dead THEN [outbox[i] EXCEPT !.retries = 0, !.error = FALSE]
                  ELSE outbox[i]]
  /\ UNCHANGED <<reached, local, last, mirror, batch, answer, process, pid, pidFile, troubled>>

-----------------------------------------------------------------------------
(* One iteration of the dispatcher. *)

\* Mutant: a row that failed is never drained again.
EligibleUnlessError == {i \in Undelivered : outbox[i].retries < MaxRetries /\ ~outbox[i].error}

\* DRAIN_SQL_WITH_BACKOFF
Eligible == {i \in Undelivered : outbox[i].retries < MaxRetries
                                 /\ (outbox[i].error => outbox[i].due)}

\* `datetime(created_at, '+' || (1 << retry_count) || ' seconds')` passes.
BackoffElapses(i) ==
  /\ i \in Undelivered /\ outbox[i].error /\ ~outbox[i].due
  /\ outbox' = [outbox EXCEPT ![i].due = TRUE]
  /\ UNCHANGED <<reached, local, last, mirror, batch, answer, process, pid, pidFile, troubled, spare>>

\* Mutant: ORDER BY id DESC.
DrainedNewestFirst(b) ==
  /\ b \subseteq Eligible
  /\ \A i \in b, j \in Eligible \ b : i > j
  /\ Cardinality(b) = IF Cardinality(Eligible) < Batch THEN Cardinality(Eligible) ELSE Batch

\* ORDER BY id LIMIT batch
Drained(b) ==
  /\ b \subseteq Eligible
  /\ \A i \in b, j \in Eligible \ b : i < j
  /\ Cardinality(b) = IF Cardinality(Eligible) < Batch THEN Cardinality(Eligible) ELSE Batch

Drain ==
  /\ process = "up"
  /\ batch = {}
  /\ Eligible # {}
  /\ \E b \in SUBSET Eligible : Drained(b) /\ batch' = b
  /\ UNCHANGED <<reached, local, outbox, last, mirror, answer, process, pid, pidFile, troubled, spare>>

IsNext(i) == i \in batch /\ \A j \in batch : i <= j

\* Mutant: ON CONFLICT DO NOTHING.
AppliedOnce(r, v) ==
  [x \in Row |-> IF x = r /\ (v = None \/ mirror[x] = None) THEN v
                 ELSE IF v = None /\ Parent[x] = r THEN None ELSE mirror[x]]

\* What Neon does with a row: an upsert, or a delete that cascades.
Applied(r, v) ==
  [x \in Row |-> IF x = r THEN v
                 ELSE IF v = None /\ Parent[x] = r THEN None ELSE mirror[x]]

\* Neon refuses a row whose parent it does not have (SQLSTATE 23503).
Refused(r, v) == v # None /\ Parent[r] # None /\ mirror[Parent[r]] = None

\* neon.apply for the next row, which Neon commits at once.
Apply(i) ==
  LET e == outbox[i] IN
  /\ IsNext(i) /\ answer = "none"
  /\ IF Refused(e.row, e.val)
     THEN answer' = "permanent" /\ mirror' = mirror
     ELSE answer' = "ok" /\ mirror' = Applied(e.row, e.val)
  /\ reached' = IF answer' = "ok" THEN reached \union {i} ELSE reached
  /\ UNCHANGED <<local, outbox, last, batch, process, pid, pidFile, troubled, spare>>

\* The call fails: Neon is unreachable or refuses the row for its schema, or
\* it commits the row and the connection breaks before the answer.
ApplyFails(i) ==
  LET e == outbox[i] IN
  /\ IsNext(i) /\ answer = "none"
  /\ Spend("failures")
  /\ \/ answer' \in {"transient", "permanent"} /\ UNCHANGED <<mirror, reached>>
     \/ /\ ~Refused(e.row, e.val)
        /\ answer' = "transient"
        /\ mirror' = Applied(e.row, e.val)
        /\ reached' = reached \union {i}
  /\ UNCHANGED <<local, outbox, last, batch, process, pid, pidFile, troubled>>

\* _process_one_row records the answer.
MarkDelivered(i) ==
  /\ IsNext(i) /\ answer = "ok"
  /\ outbox' = [outbox EXCEPT ![i].delivered = TRUE, ![i].error = FALSE]
  /\ batch' = batch \ {i}
  /\ answer' = "none"
  /\ UNCHANGED <<reached, local, last, mirror, process, pid, pidFile, troubled, spare>>

\* The backoff counts from created_at, so it may have elapsed already.
MarkFailed(i) ==
  /\ IsNext(i) /\ answer \in {"transient", "permanent"}
  /\ \E due \in BOOLEAN :
       outbox' = [outbox EXCEPT
         ![i].retries = IF answer = "permanent" THEN MaxRetries ELSE @ + 1,
         ![i].error = TRUE,
         ![i].due = due]
  /\ batch' = batch \ {i}
  /\ answer' = "none"
  /\ troubled' = troubled \union {outbox[i].row}
  /\ UNCHANGED <<reached, local, last, mirror, process, pid, pidFile, spare>>

\* A statement on SQLite raises: run_dispatcher logs and starts over.
IterationFails ==
  /\ batch # {}
  /\ Spend("errors")
  /\ batch' = {}
  /\ answer' = "none"
  /\ UNCHANGED <<reached, local, outbox, last, mirror, process, pid, pidFile, troubled>>

-----------------------------------------------------------------------------
(* The process: shutdown, death and boot. *)

\* The lifespan shutdown; a batch in its thread is finished before the exit.
Stop ==
  /\ Serving
  /\ batch = {}
  /\ Spend("stops")
  /\ process' = "down"
  /\ pidFile' = IF process = "up" THEN None ELSE pidFile
  /\ UNCHANGED <<reached, local, outbox, last, mirror, batch, answer, pid, troubled>>

Kill ==
  /\ Serving
  /\ Spend("kills")
  /\ process' = "down"
  /\ batch' = {}
  /\ answer' = "none"
  /\ UNCHANGED <<reached, local, outbox, last, mirror, pid, pidFile, troubled>>

\* The container goes and its disk with it; rows of the mirror remain.
LoseDisk ==
  /\ Serving
  /\ Spend("losses")
  /\ process' = "lost"
  /\ local' = [r \in Row |-> None]
  /\ outbox' = Empty
  /\ batch' = {}
  /\ answer' = "none"
  /\ pidFile' = None
  /\ troubled' = {}
  /\ UNCHANGED <<reached, last, mirror, pid>>

\* "One-off outbox cleanup", on every boot.
Purged == {i \in Undelivered : outbox[i].row \in Document}

\* Mutant: only the work is looked at.
RestoreDueForWork ==
  (\A r \in Work : local[r] = None) /\ (\E r \in Work : mirror[r] # None)

\* The local database looks empty, or has lost the work the mirror has.
RestoreDue ==
  LET empty == \A r \in Work : local[r] = None IN
  \/ process = "lost"
  \/ empty /\ (\A r \in Document : local[r] = None)
  \/ empty /\ (\E r \in Work : mirror[r] # None)

\* _acquire_dispatcher_lock: the process of the file is alive only when the
\* new process has its number, since no other one runs.
Start(p) ==
  /\ pid' = p
  /\ IF pidFile = p
     THEN process' = "mute" /\ pidFile' = pidFile
     ELSE process' = "up" /\ pidFile' = p

\* The lifespan startup.  A restore takes one snapshot of the mirror in one
\* transaction and leaves the queue as it is.
Boot ==
  /\ process \in {"down", "lost"}
  /\ outbox' = [i \in DOMAIN outbox \ Purged |-> outbox[i]]
  /\ local' = IF RestoreDue THEN mirror ELSE local
  /\ troubled' = IF RestoreDue THEN {outbox[i].row : i \in Undelivered \ Purged}
                 ELSE troubled \union {outbox[i].row : i \in Purged}
  /\ Start(NextPid[pid])
  /\ UNCHANGED <<reached, last, mirror, batch, answer, spare>>

\* Neon cannot be reached: the restore is left out, and without a disk the
\* process gives up.
BootWithoutNeon ==
  /\ process = "down"
  /\ RestoreDue
  /\ Spend("failures")
  /\ outbox' = [i \in DOMAIN outbox \ Purged |-> outbox[i]]
  /\ troubled' = troubled \union {outbox[i].row : i \in Purged}
  /\ Start(NextPid[pid])
  /\ UNCHANGED <<reached, local, last, mirror, batch, answer>>

-----------------------------------------------------------------------------

Dispatch ==
  \/ Drain
  \/ \E i \in batch : Apply(i) \/ ApplyFails(i) \/ MarkDelivered(i) \/ MarkFailed(i)

Next ==
  \/ \E s \in Statement, v \in Val \union {None} : Write(s, v)
  \/ Requeue
  \/ \E i \in DOMAIN outbox : BackoffElapses(i)
  \/ Dispatch
  \/ IterationFails
  \/ Stop \/ Kill \/ LoseDisk
  \/ Boot \/ BootWithoutNeon

Spec == Init /\ [][Next]_vars

\* The dispatcher's loop goes on, time passes, and the supervisor restarts
\* the process (docker-compose: unless-stopped).
FairSpec ==
  /\ Spec
  /\ WF_vars(Dispatch)
  /\ WF_vars(Boot)
  /\ \A i \in 1..MaxWrites : WF_vars(BackoffElapses(i))

-----------------------------------------------------------------------------
(* Properties. *)

\* Neither the row nor the row it references has had a write that was
\* refused, retried, or dropped by a boot.
Undisturbed(r) == r \notin troubled /\ Parent[r] \notin troubled

\* However often the dispatcher dies between Neon's commit and its own record,
\* whatever other rows suffer and whatever a boot does, a row that was not
\* disturbed itself is the same on both sides once nothing of it is queued.
UndisturbedRowIsCurrent ==
  process # "lost" =>
    \A r \in Row :
      Undisturbed(r) /\ (\A i \in Undelivered : outbox[i].row # r)
        => mirror[r] = local[r]

\* Neon refuses a row for want of its parent only when the row or its parent
\* was disturbed before: the order of the queue never asks for a child first.
RefusalHasACause ==
  \A i \in batch :
    IsNext(i) /\ answer = "none" /\ Refused(outbox[i].row, outbox[i].val)
      => ~Undisturbed(outbox[i].row)

\* The table as an asynchronous replica: the writes that Neon has not
\* committed yet are the lag.
Lag == [i \in Undelivered \ reached |-> [row |-> outbox[i].row, val |-> outbox[i].val]]

Abstract == INSTANCE Replica WITH lag <- Lag

\* While Neon answers every call, and no boot purges or restores, deaths and
\* errors between the two commits are invisible: the mirror trails the local
\* database one row write at a time, in order (dispatcher.py, "in commit
\* order").
ImplementsReplica == Abstract!RSpec

\* Every queued row is delivered, given up, or gone with a purge or the disk
\* (docs/neon-mirror.md: the row stays in the outbox and the dispatcher
\* retries).
QueueDrains ==
  \A i \in 1..MaxWrites : i \in Undelivered ~> i \notin Undelivered \/ i \in Dead

\* docs/neon-mirror.md, "Every committed write [...] is also applied" and "a
\* re-firing transient failure does no harm beyond a few extra Neon round
\* trips": with the queue empty the mirror has what the local database has.
DrainedQueueMeansEqual ==
  process # "lost" /\ Undelivered = {} => mirror = local

=============================================================================
