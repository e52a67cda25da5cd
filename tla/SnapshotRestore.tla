--------------------------- MODULE SnapshotRestore --------------------------
(* The restore of a snapshot (src/backend/backup/restore.py), by the         *)
(* administrator's route into the live database or by the command line into  *)
(* a new one.                                                                *)
(*                                                                           *)
(* A restore is one transaction that empties and refills the tables of the   *)
(* snapshot in alphabetical order, with the references checked at its        *)
(* commit.  Emptying a table cascades at once, also into tables that were    *)
(* refilled before it.  Two triggers may abort it: one protects documents    *)
(* with human work, the other keeps predictions of unknown models out.       *)
(* Six tables stand for all: they have every kind of reference, on both      *)
(* sides of the table they refer to.                                         *)
EXTENDS Integers, FiniteSets, Sequences

CONSTANTS
  User, Doc, None,
  Untrusted, \* in a prediction: its provenance is not one of the trusted ones
  MaxWrites  \* bound: rows written or deleted by requests

ASSUME RestoreAssumption ==
  /\ {None, Untrusted} \cap (User \cup Doc) = {} /\ None # Untrusted
  /\ MaxWrites \in Nat

\* The tables in the order of a snapshot.
Order == <<"annotations", "badges_earned", "documents_meta", "drafts",
           "model_predictions", "users">>
Durable == {Order[i] : i \in DOMAIN Order}
Runtime == {"document_locks", "user_sessions"}
Table == Durable \cup Runtime

\* The tables that are younger than the oldest snapshots.
Young == {"model_predictions"}

\* References: ON DELETE CASCADE to documents_meta and to users, SET NULL.
OfDocument == {"annotations", "drafts", "model_predictions", "document_locks"}
OfUser == {"badges_earned", "drafts", "document_locks", "user_sessions"}
Attributed == {"annotations"}

\* A row is the document and the user it is about; of a prediction, the
\* document and whether its model is trusted.
RowsOf(t) ==
  CASE t = "documents_meta" -> Doc \X {None}
    [] t = "model_predictions" -> Doc \X {None, Untrusted}
    [] t \in {"users", "badges_earned", "user_sessions"} -> {None} \X User
    [] t = "annotations" -> Doc \X (User \cup {None})
    [] OTHER -> Doc \X User

Row == (Doc \cup {None}) \X (User \cup {None, Untrusted})
Database == [Table -> SUBSET Row]

\* No file, and a restore that is rolled back, are not a database.
ASSUME NoneIsNoDatabase == None \notin Database

\* Primary keys that are shorter than the row.
Clash(t, r) ==
  IF t \in {"annotations", "document_locks", "model_predictions"}
  THEN {x \in RowsOf(t) : x[1] = r[1]} ELSE {}

\* The migrations a database has seen, as far as they tell here: v17 brought the
\* young tables, v19 the guard of human work and v20 that of predictions.
Latest == 21

VARIABLES
  file,     \* the database at DB_PATH: table -> rows, or None
  schema,   \* the last migration it has seen
  snapshots, \* the newest snapshot, if there is one
  serving,  \* the server runs
  cli,      \* restore-from-github: "idle", or "moved" between its steps
  aside,    \* the newest database kept as corrupt-<time>.db.bak; older ones are not touched
  writes,   \* rows written or deleted so far, for the bound
  \* History.
  report,   \* the restore that succeeded last, until something else happens
  before    \* the database the command moved away, until the server runs again

vars == <<file, schema, snapshots, serving, cli, aside, writes, report, before>>

EmptyDatabase == [t \in Table |-> {}]
Documents(db) == {r[1] : r \in db["documents_meta"]}
Users(db) == {r[2] : r \in db["users"]}

Referential(db) ==
  /\ \A t \in OfDocument : \A r \in db[t] : r[1] \in Documents(db)
  /\ \A t \in OfUser : \A r \in db[t] : r[2] \in Users(db)
  /\ \A t \in Attributed : \A r \in db[t] : r[2] \in Users(db) \cup {None}

Init ==
  /\ file = EmptyDatabase
  /\ schema \in {16, 18, Latest}
  /\ snapshots = {}
  /\ serving = TRUE
  /\ cli = "idle" /\ aside = {} /\ writes = 0
  /\ report = None /\ before = None

-----------------------------------------------------------------------------
(* The restore. *)

\* v0019: a document with human work is not deleted.
Guarded(db, t) ==
  /\ t = "documents_meta"
  /\ \E h \in {"annotations", "drafts"} : \E r \in db[h] : r[1] \in Documents(db)

\* v0020: a prediction whose provenance is not trusted is not inserted.
Distrusted(t, rows) == t = "model_predictions" /\ \E r \in rows : r[2] = Untrusted

\* Mutant: references are not enforced.
EmptiedAlone(db, t) == [db EXCEPT ![t] = {}]

\* DELETE FROM t, with what it sets off in the other tables.
Emptied(db, t) ==
  [x \in Table |->
     CASE x = t -> {}
       [] t = "documents_meta" /\ x \in OfDocument -> {r \in db[x] : r[1] \notin Documents(db)}
       [] t = "users" /\ x \in OfUser -> {r \in db[x] : r[2] \notin Users(db)}
       [] t = "users" /\ x \in Attributed ->
            {<<r[1], IF r[2] \in Users(db) THEN None ELSE r[2]>> : r \in db[x]}
       [] OTHER -> db[x]]

\* Mutant: rows are replaced one by one.
RefilledOver(db, t, snapshot, known) ==
  IF db = None \/ t \notin DOMAIN snapshot \cap known THEN db
  ELSE [db EXCEPT ![t] = snapshot[t] \cup {r \in @ : Clash(t, r) \cap snapshot[t] = {}}]

\* A table of the snapshot, unless this database does not have it.
Refilled(db, t, snapshot, known) ==
  IF db = None \/ t \notin DOMAIN snapshot \cap known THEN db
  ELSE IF Guarded(db, t) \/ Distrusted(t, snapshot[t]) THEN None
  ELSE [Emptied(db, t) EXCEPT ![t] = snapshot[t]]

\* Sessions and locks go, also those of users outside of the snapshot.
Cleared(db) == [t \in Table |-> IF t \in Runtime THEN {} ELSE db[t]]

\* restore_from_snapshot: the database it commits, or None when it rolls back.
Restored(db, snapshot, known) ==
  LET after[i \in 0..Len(Order)] ==
        IF i = 0 THEN db ELSE Refilled(after[i - 1], Order[i], snapshot, known)
      filled == after[Len(Order)]
      final == IF filled = None THEN None ELSE Cleared(filled)
  IN IF final # None /\ Referential(final) THEN final ELSE None

Known == IF schema >= 17 THEN Durable ELSE Durable \ Young

-----------------------------------------------------------------------------
(* The application, as far as a restore can tell. *)

Idles == UNCHANGED <<serving, cli, aside, before>>

Writes == writes < MaxWrites /\ writes' = writes + 1

\* A request writes a row whose references exist; predictions that are not
\* trusted were written before v20, and the migration left them.
WriteRow(t, r) ==
  /\ serving /\ Writes
  /\ t \in Known \cup Runtime
  /\ schema >= 20 => ~Distrusted(t, {r})
  /\ LET changed == [file EXCEPT ![t] = (@ \ Clash(t, r)) \cup {r}]
     IN changed # file /\ Referential(changed) /\ file' = changed
  /\ report' = None
  /\ UNCHANGED <<schema, snapshots>> /\ Idles

\* Drafts, sessions, locks and predictions are deleted.
DeleteRow(t, r) ==
  /\ serving /\ Writes
  /\ t \in {"drafts", "model_predictions"} \cup Runtime /\ r \in file[t]
  /\ file' = [file EXCEPT ![t] = @ \ {r}]
  /\ report' = None
  /\ UNCHANGED <<schema, snapshots>> /\ Idles

\* A backup cycle (module Backup) reads one committed state.
TakeSnapshot ==
  /\ serving
  /\ snapshots' = {[t \in Known |-> file[t]]}
  /\ UNCHANGED <<file, schema, writes, report>> /\ Idles

\* The route of the present release, for an administrator who is logged in; on
\* an exception, the transaction is rolled back.
RouteRestore(s) ==
  /\ serving /\ schema = Latest
  /\ file["user_sessions"] # {}
  /\ LET after == Restored(file, s, Known)
     IN /\ after # None
        /\ file' = after
        /\ report' = [by |-> "route", snapshot |-> s, from |-> file]
  /\ UNCHANGED <<schema, snapshots, writes>> /\ Idles

StopServer ==
  /\ serving
  /\ serving' = FALSE
  /\ UNCHANGED <<file, schema, snapshots, cli, aside, writes, report, before>>

\* A boot applies the migrations; without a file it starts from an empty one.
StartServer ==
  /\ ~serving /\ cli = "idle"
  /\ serving' = TRUE /\ schema' = Latest
  /\ file' = IF file = None THEN EmptyDatabase ELSE file
  /\ report' = None /\ before' = None
  /\ UNCHANGED <<snapshots, cli, aside, writes>>

-----------------------------------------------------------------------------
(* cli.py restore-from-github, with the server stopped. *)

CliMove ==
  /\ ~serving /\ cli = "idle"
  /\ cli' = "moved"
  /\ aside' = IF file = None THEN aside ELSE {file}
  /\ before' = IF file = None THEN before ELSE [db |-> file, schema |-> schema]
  /\ file' = None
  /\ report' = None
  /\ UNCHANGED <<schema, snapshots, serving, writes>>

\* The moved file gets its name back.
\* Mutant: the new file is removed last.
PutBackThenUnlinked(own) == IF own = None THEN None ELSE IF file = None THEN own.db ELSE None
PutBack(own) == IF own = None THEN None ELSE own.db

\* The clone fails, has no such snapshot, or the operator declines; or the
\* migrations or the restore raise, and the new file is removed.
CliFails ==
  /\ cli = "moved"
  /\ cli' = "idle"
  /\ file' = PutBack(before)
  /\ aside' = IF before = None THEN aside ELSE aside \ {before.db}
  /\ schema' = IF before = None THEN schema ELSE before.schema
  /\ UNCHANGED <<snapshots, serving, writes, report, before>>

\* Mutant: a new database has an administrator.
NewDatabaseSeeded == [EmptyDatabase EXCEPT !["users"] = {<<None, CHOOSE u \in User : TRUE>>}]
NewDatabase == EmptyDatabase

\* The new database is created and migrated.
CliCreate ==
  /\ cli = "moved" /\ file = None
  /\ file' = NewDatabase
  /\ schema' = Latest
  /\ UNCHANGED <<snapshots, serving, cli, aside, writes, report, before>>

CliRestore(s) ==
  /\ cli = "moved" /\ file # None /\ schema = Latest
  /\ LET after == Restored(file, s, Known)
     IN /\ after # None
        /\ file' = after
        /\ report' = [by |-> "cli", snapshot |-> s, from |-> file]
  /\ cli' = "idle"
  /\ UNCHANGED <<schema, snapshots, serving, aside, writes, before>>

\* The command is killed; a second one may start from what it left.
CliDies ==
  /\ cli = "moved"
  /\ cli' = "idle"
  /\ UNCHANGED <<file, schema, snapshots, serving, aside, writes, report, before>>

Next ==
  \/ \E t \in Table : \E r \in RowsOf(t) : WriteRow(t, r) \/ DeleteRow(t, r)
  \/ TakeSnapshot
  \/ \E s \in snapshots : RouteRestore(s) \/ CliRestore(s)
  \/ StopServer \/ StartServer
  \/ CliMove \/ CliFails \/ CliCreate \/ CliDies

Spec == Init /\ [][Next]_vars

-----------------------------------------------------------------------------
(* Properties. *)

\* A restore is rolled back for two reasons and no other: human work on a
\* document that the database has (in the snapshot, refilled by then, or a draft
\* not yet replaced), and a prediction in the snapshot that the guard of v0020
\* keeps out.  References never stand in its way.
RefusalIsTheGuard ==
  file # None /\ schema = Latest =>
    \A s \in snapshots :
      Restored(file, s, Known) = None <=>
        \/ \E r \in s["annotations"] \cup file["drafts"] : r[1] \in Documents(file)
        \/ "model_predictions" \in DOMAIN s
           /\ Distrusted("model_predictions", s["model_predictions"])

Lost(s, t, from) ==
  IF t \in OfUser THEN {r \in s[t] : r[2] \in Users(from)} ELSE {}
Detached(s, t, from) ==
  {<<r[1], IF r[2] \in Users(from) THEN None ELSE r[2]>> : r \in s[t]}

\* A restore that reports success leaves, of the tables of its snapshot, the
\* rows of the snapshot and nothing else, except for users that the database
\* had before: of those, everything in a table that sorts before "users" and
\* cascades from it is lost again, and their annotations lose their author.
LossIsOfFormerUsers ==
  report # None =>
    LET s == report.snapshot
    IN \A t \in DOMAIN s \cap Known :
         file[t] = IF t \in Attributed THEN Detached(s, t, report.from)
                   ELSE s[t] \ Lost(s, t, report.from)

\* Into a new database, as the command does it, the restore is exact.
CommandRestoresExactly ==
  report # None /\ report.by = "cli" =>
    \A t \in Durable : file[t] = IF t \in DOMAIN report.snapshot THEN report.snapshot[t] ELSE {}

\* However the command ends or dies, and is started again, the database it
\* found stays on the disk, under its own name or as a backup.
FormerDatabaseIsKept == before # None => before.db \in aside \cup {file}
=============================================================================
