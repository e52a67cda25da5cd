---------------------------- MODULE BackupProofs ----------------------------
(* Two parts of backend/backup.  The restore, for any users, documents and   *)
(* contents: the database that the restore command found is never lost,      *)
(* however often the command fails, dies and is started again; only the two  *)
(* guards roll a restore back, and always do; and a restore that             *)
(* succeeds leaves exactly what the order of its tables lets it keep.  The   *)
(* backup cycle, for any number of tables, kept snapshots, cycles and faults: *)
(* what a restore could pick is whole, what was acknowledged is in the remote *)
(* repository, and the next push is accepted.                                *)
EXTENDS SnapshotRestore, Backup, FiniteSetTheorems, WellFoundedInduction, TLAPS

\* Between its steps the command has the former database aside, and while the
\* server runs nothing is owed to it any more.
Owed ==
  before # None =>
    /\ ~serving
    /\ before.db # None
    /\ cli = "moved" \/ file = None => before.db \in aside
    /\ before.db \in aside \cup {file}

IInv == Owed /\ (cli = "moved" => ~serving)

LEMMA InitIInv == Init => IInv
BY DEF Init, IInv, Owed

LEMMA CommandStepsKeep ==
  ASSUME IInv, CliMove \/ CliFails \/ CliCreate \/ CliDies \/ \E s \in snapshots : CliRestore(s)
  PROVE  IInv'
<1>1. CASE CliMove
  <2>1. CASE file = None
    BY <1>1, <2>1 DEF IInv, Owed, CliMove
  <2>2. CASE file # None
    <3>1. before' = [db |-> file, schema |-> schema] /\ aside' = {file}
          /\ ~serving /\ serving' = serving
      BY <1>1, <2>2 DEF CliMove
    <3>2. before'.db = file
      BY <3>1
    <3>. QED  BY <2>2, <3>1, <3>2 DEF IInv, Owed
  <2>. QED  BY <2>1, <2>2
<1>2. CASE CliFails
  <2>1. /\ cli = "moved" /\ cli' = "idle" /\ before' = before /\ serving' = serving
        /\ before # None => file' = before.db
    BY <1>2 DEF CliFails, PutBack
  <2>. QED  BY <2>1 DEF IInv, Owed
<1>3. CASE CliCreate
  BY <1>3 DEF IInv, Owed, CliCreate
<1>4. CASE CliDies
  BY <1>4 DEF IInv, Owed, CliDies
<1>5. CASE \E s \in snapshots : CliRestore(s)
  BY <1>5 DEF IInv, Owed, CliRestore
<1>. QED  BY <1>1, <1>2, <1>3, <1>4, <1>5

LEMMA ServerStepsKeep ==
  ASSUME IInv,
         \/ \E t \in Table : \E r \in RowsOf(t) : WriteRow(t, r) \/ DeleteRow(t, r)
         \/ TakeSnapshot \/ StopServer \/ StartServer
         \/ \E s \in snapshots : RouteRestore(s)
  PROVE  IInv'
<1>1. CASE StartServer
  BY <1>1 DEF IInv, Owed, StartServer
<1>2. CASE ~StartServer
  <2>1. serving /\ UNCHANGED <<before, cli>>
    BY <1>2 DEF WriteRow, DeleteRow, TakeSnapshot, StopServer, RouteRestore, Idles
  <2>2. before = None /\ cli # "moved"
    BY <2>1 DEF IInv, Owed
  <2>. QED  BY <2>1, <2>2 DEF IInv, Owed
<1>. QED  BY <1>1, <1>2

\* However the command fails or dies between its steps and whatever is run
\* after it, the database it found stays on the disk until the server runs
\* again (cli.py, cmd_restore_from_github).
THEOREM FormerDatabaseStays == Spec => []FormerDatabaseIsKept
<1>1. IInv /\ [Next]_vars => IInv'
  <2> SUFFICES ASSUME IInv, [Next]_vars  PROVE IInv'
    OBVIOUS
  <2>1. CASE UNCHANGED vars
    BY <2>1 DEF IInv, Owed, vars
  <2>2. CASE Next
    BY <2>2, CommandStepsKeep, ServerStepsKeep DEF Next
  <2>. QED  BY <2>1, <2>2
<1>2. IInv => FormerDatabaseIsKept
  BY DEF IInv, Owed, FormerDatabaseIsKept
<1>. QED  BY <1>1, <1>2, InitIInv, PTL DEF Spec
-----------------------------------------------------------------------------
(* What a restore computes.                                                 *)

Sound(d) == d \in Database /\ Referential(d)

\* A snapshot is a sound database without its runtime tables, and perhaps
\* without the young ones.
IsSnapshot(s) ==
  /\ DOMAIN s \in {Durable, Durable \ Young}
  /\ \A t \in DOMAIN s : s[t] \subseteq Row
  /\ \A t \in OfDocument \cap DOMAIN s : \A r \in s[t] : r[1] \in Documents(s)
  /\ \A t \in OfUser \cap DOMAIN s : \A r \in s[t] : r[2] \in Users(s)
  /\ \A t \in Attributed : \A r \in s[t] : r[2] \in Users(s) \cup {None}

\* There is human work on a document that the database has.
Blocked(old, s) == \E r \in s["annotations"] \cup old["drafts"] : r[1] \in Documents(old)

\* A prediction of the snapshot does not pass the guard of v0020.
KeptOut(s, known) ==
  "model_predictions" \in DOMAIN s \cap known /\ Distrusted("model_predictions", s["model_predictions"])

\* What the restore leaves of a snapshot s in a database old.
Outcome(old, s, known) ==
  [t \in Table |->
     IF t \in DOMAIN s \cap known
     THEN IF t \in Attributed THEN Detached(s, t, old) ELSE s[t] \ Lost(s, t, old)
     ELSE {}]

LEMMA TableNames ==
  /\ Durable = {"annotations", "badges_earned", "documents_meta", "drafts",
                "model_predictions", "users"}
  /\ Table = Durable \cup {"document_locks", "user_sessions"}
  /\ Len(Order) = 6
<1>1. DOMAIN Order = {1, 2, 3, 4, 5, 6} /\ Len(Order) = 6
  BY DEF Order
<1>. QED  BY <1>1 DEF Durable, Table, Runtime, Order

LEMMA EmptiedIsDatabase ==
  ASSUME NEW old \in Database, NEW t \in Table  PROVE Emptied(old, t) \in Database
<1>1. ASSUME NEW x \in Table  PROVE Emptied(old, t)[x] \subseteq Row
  <2>1. old[x] \subseteq Row
    BY DEF Database
  <2>2. ASSUME NEW r \in Row
        PROVE  <<r[1], IF r[2] \in Users(old) THEN None ELSE r[2]>> \in Row
    BY <2>2 DEF Row
  <2>3. {<<r[1], IF r[2] \in Users(old) THEN None ELSE r[2]>> : r \in old[x]} \subseteq Row
    BY <2>1, <2>2
  <2>. QED  BY <2>1, <2>3 DEF Emptied
<1>2. Emptied(old, t) = [x \in Table |-> Emptied(old, t)[x]]
  BY DEF Emptied
<1>. QED  BY <1>1, <1>2 DEF Database

\* One table after the other: a guard stops it, or the table is the
\* snapshot's and the others are what the cascade leaves of them.
LEMMA RefillsOne ==
  ASSUME NEW old \in Database, NEW s, IsSnapshot(s), NEW known \in SUBSET Durable,
         NEW t \in DOMAIN s \cap known
  PROVE  /\ Guarded(old, t) \/ Distrusted(t, s[t]) => Refilled(old, t, s, known) = None
         /\ ~Guarded(old, t) /\ ~Distrusted(t, s[t]) =>
              /\ Refilled(old, t, s, known) \in Database
              /\ \A x \in Table : Refilled(old, t, s, known)[x] =
                                    IF x = t THEN s[t] ELSE Emptied(old, t)[x]
<1>1. old # None /\ t \in Table /\ s[t] \in SUBSET Row
  BY NoneIsNoDatabase DEF IsSnapshot, Table
<1>2. Emptied(old, t) \in Database
  BY <1>1, EmptiedIsDatabase
<1>3. [Emptied(old, t) EXCEPT ![t] = s[t]] \in Database
  BY <1>1, <1>2 DEF Database
<1>4. \A x \in Table : [Emptied(old, t) EXCEPT ![t] = s[t]][x] =
                          IF x = t THEN s[t] ELSE Emptied(old, t)[x]
  BY <1>2 DEF Database
<1>. QED  BY <1>1, <1>3, <1>4 DEF Refilled

LEMMA TablesInOrder ==
  /\ Order[1] = "annotations" /\ Order[2] = "badges_earned" /\ Order[3] = "documents_meta"
  /\ Order[4] = "drafts" /\ Order[5] = "model_predictions" /\ Order[6] = "users"
BY DEF Order

\* The loop over the tables, unrolled.
LEMMA SixTables ==
  ASSUME NEW old, NEW s, NEW known, NEW d1, NEW d2, NEW d3, NEW d4, NEW d5, NEW d6,
         d1 = Refilled(old, "annotations", s, known),
         d2 = Refilled(d1, "badges_earned", s, known),
         d3 = Refilled(d2, "documents_meta", s, known),
         d4 = Refilled(d3, "drafts", s, known),
         d5 = Refilled(d4, "model_predictions", s, known),
         d6 = Refilled(d5, "users", s, known)
  PROVE  LET final == IF d6 = None THEN None ELSE Cleared(d6)
         IN Restored(old, s, known) = IF final # None /\ Referential(final) THEN final ELSE None
<1> DEFINE after[i \in 0..Len(Order)] ==
             IF i = 0 THEN old ELSE Refilled(after[i - 1], Order[i], s, known)
<1> DEFINE F == [i \in 0..6 |-> CASE i = 0 -> old [] i = 1 -> d1 [] i = 2 -> d2 [] i = 3 -> d3
                                  [] i = 4 -> d4 [] i = 5 -> d5 [] i = 6 -> d6]
<1> DEFINE Turn(f) == [i \in 0..6 |-> IF i = 0 THEN old ELSE Refilled(f[i - 1], Order[i], s, known)]
<1>1. F[0] = old /\ F[1] = d1 /\ F[2] = d2 /\ F[3] = d3 /\ F[4] = d4 /\ F[5] = d5 /\ F[6] = d6
  OBVIOUS
<1>2. \A i \in 0..6 : F[i] = IF i = 0 THEN old ELSE Refilled(F[i - 1], Order[i], s, known)
  <2> HIDE DEF F
  <2> SUFFICES ASSUME NEW i \in 0..6, i # 0
               PROVE  F[i] = Refilled(F[i - 1], Order[i], s, known)
    BY <1>1
  <2>1. CASE i = 1
    BY <2>1, <1>1, TablesInOrder
  <2>2. CASE i = 2
    BY <2>2, <1>1, TablesInOrder
  <2>3. CASE i = 3
    BY <2>3, <1>1, TablesInOrder
  <2>4. CASE i = 4
    BY <2>4, <1>1, TablesInOrder
  <2>5. CASE i = 5
    BY <2>5, <1>1, TablesInOrder
  <2>6. CASE i = 6
    BY <2>6, <1>1, TablesInOrder
  <2>. QED  BY <2>1, <2>2, <2>3, <2>4, <2>5, <2>6
<1>3. F = Turn(F)
  BY <1>2
<1>4. after = Turn(after)
  <2>1. Len(Order) = 6
    BY TableNames
  <2>2. after = CHOOSE f : f = Turn(f)
    BY <2>1
  <2> HIDE DEF after, F, Turn
  <2>. QED  BY <1>3, <2>2
<1>5. \A i \in 1..6 : after[i] = Refilled(after[i - 1], Order[i], s, known)
  <2> HIDE DEF after
  <2>. QED  BY <1>4
<1>6. after[0] = old
  <2> HIDE DEF after
  <2>. QED  BY <1>4
<1>7. after[6] = d6
  <2> HIDE DEF after, F, Turn
  <2>1. after[1] = d1
    BY <1>5, <1>6, TablesInOrder
  <2>2. after[2] = d2
    BY <1>5, <2>1, TablesInOrder
  <2>3. after[3] = d3
    BY <1>5, <2>2, TablesInOrder
  <2>4. after[4] = d4
    BY <1>5, <2>3, TablesInOrder
  <2>5. after[5] = d5
    BY <1>5, <2>4, TablesInOrder
  <2>. QED  BY <1>5, <2>5, TablesInOrder
<1>8. Restored(old, s, known) =
        LET final == IF after[6] = None THEN None ELSE Cleared(after[6])
        IN IF final # None /\ Referential(final) THEN final ELSE None
  BY TableNames DEF Restored
<1>. QED
  <2> HIDE DEF after
  <2>. QED  BY <1>7, <1>8

\* A table after all of them: the snapshot's rows, without what the cascades
\* took; the tables that were not refilled are empty.
LEMMA RefillsAll ==
  ASSUME NEW old, Sound(old), NEW s, IsSnapshot(s), NEW known \in {Durable, Durable \ Young},
         NEW d1, NEW d2, NEW d3, NEW d4, NEW d5, NEW d6,
         d1 = Refilled(old, "annotations", s, known),
         d2 = Refilled(d1, "badges_earned", s, known),
         d3 = Refilled(d2, "documents_meta", s, known),
         d4 = Refilled(d3, "drafts", s, known),
         d5 = Refilled(d4, "model_predictions", s, known),
         d6 = Refilled(d5, "users", s, known)
  PROVE  IF Blocked(old, s) \/ KeptOut(s, known) THEN d6 = None
         ELSE d6 \in Database /\ Cleared(d6) = Outcome(old, s, known)
<1>1. /\ DOMAIN s \cap known \subseteq Durable /\ Durable \ Young \subseteq DOMAIN s \cap known
      /\ known \in SUBSET Durable /\ old \in Database /\ Referential(old)
  BY DEF IsSnapshot, Sound
<1>2. \A t \in Table : t \in DOMAIN s => s[t] \subseteq Row
  BY DEF IsSnapshot
<1>3. /\ d1 \in Database
      /\ \A x \in Table : d1[x] = IF x = "annotations" THEN s[x] ELSE old[x]
  <2>1. ~Guarded(old, "annotations") /\ ~Distrusted("annotations", s["annotations"])
          /\ "annotations" \in DOMAIN s \cap known
    BY <1>1, TableNames DEF Guarded, Distrusted, Young
  <2>2. \A x \in Table : x # "annotations" => Emptied(old, "annotations")[x] = old[x]
    BY DEF Emptied
  <2>. QED  BY <1>1, <2>1, <2>2, RefillsOne
<1>4. /\ d2 \in Database
      /\ \A x \in Table : d2[x] = IF x \in {"annotations", "badges_earned"} THEN s[x] ELSE old[x]
  <2>1. ~Guarded(d1, "badges_earned") /\ ~Distrusted("badges_earned", s["badges_earned"])
          /\ "badges_earned" \in DOMAIN s \cap known
    BY <1>1, TableNames DEF Guarded, Distrusted, Young
  <2>2. \A x \in Table : x # "badges_earned" => Emptied(d1, "badges_earned")[x] = d1[x]
    BY DEF Emptied
  <2>. QED  BY <1>1, <1>3, <2>1, <2>2, RefillsOne
<1>5. Documents(d2) = Documents(old) /\ (Guarded(d2, "documents_meta") <=> Blocked(old, s))
  <2>1. /\ d2["documents_meta"] = old["documents_meta"] /\ d2["drafts"] = old["drafts"]
        /\ d2["annotations"] = s["annotations"]
    BY <1>4, TableNames
  <2>. QED  BY <2>1 DEF Documents, Guarded, Blocked
<1>6. "documents_meta" \in DOMAIN s \cap known /\ ~Distrusted("documents_meta", s["documents_meta"])
  BY <1>1, TableNames DEF Distrusted, Young
<1>7. CASE Blocked(old, s)
  <2>1. d3 = None
    BY <1>1, <1>4, <1>5, <1>6, <1>7, RefillsOne
  <2>2. d4 = None /\ d5 = None /\ d6 = None
    BY <2>1 DEF Refilled
  <2>. QED  BY <1>7, <2>2
<1>8. CASE ~Blocked(old, s)
  <2>1. /\ d3 \in Database
        /\ d3["annotations"] = s["annotations"]
        /\ \A t \in {"documents_meta", "badges_earned"} : d3[t] = s[t]
        /\ \A t \in {"drafts", "model_predictions", "document_locks"} : d3[t] = {}
        /\ \A t \in {"users", "user_sessions"} : d3[t] = old[t]
    <3>1. /\ d3 \in Database
          /\ \A x \in Table : d3[x] = IF x = "documents_meta" THEN s[x] ELSE Emptied(d2, "documents_meta")[x]
      BY <1>1, <1>4, <1>5, <1>6, <1>8, RefillsOne
    <3>2. \A x \in Table : x # "documents_meta" =>
            Emptied(d2, "documents_meta")[x] =
              IF x \in OfDocument THEN {r \in d2[x] : r[1] \notin Documents(old)} ELSE d2[x]
      BY <1>5 DEF Emptied
    <3>3. {r \in s["annotations"] : r[1] \notin Documents(old)} = s["annotations"]
      BY <1>8 DEF Blocked
    <3>4. \A x \in OfDocument : {r \in old[x] : r[1] \notin Documents(old)} = {}
      BY <1>1 DEF Referential
    <3>5. \A x \in Table : x # "documents_meta" =>
            d3[x] = IF x \in OfDocument THEN {r \in d2[x] : r[1] \notin Documents(old)} ELSE d2[x]
      BY <3>1, <3>2
    <3>6. d3["annotations"] = s["annotations"]
      <4>1. "annotations" \in Table /\ "annotations" \in OfDocument
        BY TableNames DEF OfDocument
      <4>2. d2["annotations"] = s["annotations"]
        BY <1>4, <4>1
      <4>. QED  BY <3>3, <3>5, <4>1, <4>2
    <3>7. ASSUME NEW t \in {"drafts", "model_predictions", "document_locks"}  PROVE d3[t] = {}
      <4>1. t \in Table /\ t \in OfDocument /\ t \notin {"annotations", "badges_earned", "documents_meta"}
        BY TableNames DEF OfDocument
      <4>2. d2[t] = old[t]
        BY <1>4, <4>1
      <4>. QED  BY <3>4, <3>5, <4>1, <4>2
    <3>8. ASSUME NEW t \in {"badges_earned", "users", "user_sessions"}
          PROVE  d3[t] = IF t = "badges_earned" THEN s[t] ELSE old[t]
      <4>1. t \in Table /\ t \notin OfDocument /\ t # "documents_meta" /\ t # "annotations"
        BY TableNames DEF OfDocument
      <4>2. d2[t] = IF t = "badges_earned" THEN s[t] ELSE old[t]
        BY <1>4, <4>1
      <4>. QED  BY <3>5, <4>1, <4>2
    <3>9. d3["documents_meta"] = s["documents_meta"]
      BY <3>1, TableNames
    <3>. QED  BY <3>1, <3>6, <3>7, <3>8, <3>9
  <2>2. /\ d4 \in Database
        /\ \A x \in Table : d4[x] = IF x = "drafts" THEN s[x] ELSE d3[x]
    <3>1. ~Guarded(d3, "drafts") /\ ~Distrusted("drafts", s["drafts"])
          /\ "drafts" \in DOMAIN s \cap known
      BY <1>1, TableNames DEF Guarded, Distrusted, Young
    <3>2. \A x \in Table : x # "drafts" => Emptied(d3, "drafts")[x] = d3[x]
      BY DEF Emptied
    <3>. QED  BY <1>1, <2>1, <3>1, <3>2, RefillsOne
  <2>0. CASE KeptOut(s, known)
    <3>1. d5 = None
      BY <1>1, <2>0, <2>2, RefillsOne DEF KeptOut
    <3>2. d6 = None
      BY <3>1 DEF Refilled
    <3>. QED  BY <2>0, <3>2
  <2>00. SUFFICES ASSUME ~KeptOut(s, known)
                  PROVE  d6 \in Database /\ Cleared(d6) = Outcome(old, s, known)
    BY <1>8, <2>0
  <2>3. /\ d5 \in Database
        /\ \A x \in Table : x # "model_predictions" => d5[x] = d4[x]
        /\ d5["model_predictions"] =
             IF "model_predictions" \in DOMAIN s \cap known THEN s["model_predictions"] ELSE {}
    <3>1. CASE "model_predictions" \in DOMAIN s \cap known
      <4>1. ~Guarded(d4, "model_predictions") /\ ~Distrusted("model_predictions", s["model_predictions"])
        BY <2>00, <3>1 DEF Guarded, KeptOut
      <4>2. \A x \in Table : x # "model_predictions" => Emptied(d4, "model_predictions")[x] = d4[x]
        BY DEF Emptied
      <4>. QED  BY <1>1, <2>2, <3>1, <4>1, <4>2, RefillsOne, TableNames
    <3>2. CASE "model_predictions" \notin DOMAIN s \cap known
      <4>1. d5 = d4
        BY <3>2 DEF Refilled
      <4>. QED  BY <2>1, <2>2, <3>2, <4>1, TableNames
    <3>. QED  BY <3>1, <3>2
  <2>4. Users(d5) = Users(old)
    BY <2>1, <2>2, <2>3, TableNames DEF Users
  <2>5. /\ d6 \in Database
        /\ \A x \in Table : d6[x] = IF x = "users" THEN s[x] ELSE Emptied(d5, "users")[x]
    <3>1. ~Guarded(d5, "users") /\ ~Distrusted("users", s["users"])
          /\ "users" \in DOMAIN s \cap known
      BY <1>1, TableNames DEF Guarded, Distrusted, Young
    <3>. QED  BY <1>1, <2>3, <3>1, RefillsOne
  <2>6. \A x \in Table : x # "users" =>
          Emptied(d5, "users")[x] =
            IF x \in OfUser THEN {r \in d5[x] : r[2] \notin Users(old)}
            ELSE IF x \in Attributed THEN Detached(d5, x, old) ELSE d5[x]
    BY <2>4 DEF Emptied, Detached, OfUser, Attributed
  <2>7. \A x \in Table : Cleared(d6)[x] = Outcome(old, s, known)[x]
    <3>1. Cleared(d6)["annotations"] = Outcome(old, s, known)["annotations"]
      <4>1. /\ "annotations" \in Table /\ "annotations" \notin OfUser /\ "annotations" \in Attributed
            /\ "annotations" \in DOMAIN s \cap known /\ "annotations" \notin Runtime
        BY <1>1, TableNames DEF OfUser, Attributed, Young, Runtime
      <4>2. d5["annotations"] = s["annotations"]
        BY <2>1, <2>2, <2>3, <4>1
      <4>3. d6["annotations"] = Detached(d5, "annotations", old)
        BY <2>5, <2>6, <4>1
      <4>4. d6["annotations"] = Detached(s, "annotations", old)
        BY <4>2, <4>3 DEF Detached
      <4>. QED  BY <4>1, <4>4 DEF Cleared, Outcome
    <3>2. ASSUME NEW t \in {"badges_earned", "drafts"}
          PROVE  Cleared(d6)[t] = Outcome(old, s, known)[t]
      <4>1. d5[t] = s[t] /\ t \in OfUser /\ t \in DOMAIN s \cap known /\ t \in Table
            /\ t \notin Attributed /\ t \notin Runtime /\ t # "users"
        BY <1>1, <2>1, <2>2, <2>3, TableNames DEF OfUser, Young, Attributed, Runtime
      <4>2. d6[t] = {r \in s[t] : r[2] \notin Users(old)}
        <5>1. d6[t] = Emptied(d5, "users")[t]
          BY <2>5, <4>1
        <5>2. Emptied(d5, "users")[t] = {r \in d5[t] : r[2] \notin Users(old)}
          BY <2>6, <4>1
        <5>. QED  BY <4>1, <5>1, <5>2
      <4>3. Cleared(d6)[t] = d6[t]
        BY <4>1 DEF Cleared
      <4>4. Outcome(old, s, known)[t] = s[t] \ {r \in s[t] : r[2] \in Users(old)}
        BY <4>1 DEF Outcome, Lost
      <4>. QED  BY <4>2, <4>3, <4>4
    <3>3. ASSUME NEW t \in {"documents_meta", "users"}
          PROVE  Cleared(d6)[t] = Outcome(old, s, known)[t]
      <4>1. d6[t] = s[t] /\ t \notin OfUser /\ t \in DOMAIN s \cap known /\ t \in Table
            /\ t \notin Attributed /\ t \notin Runtime
        BY <1>1, <2>1, <2>2, <2>3, <2>5, <2>6, TableNames DEF OfUser, Young, Attributed, Runtime
      <4>. QED  BY <4>1 DEF Cleared, Outcome, Lost
    <3>4. Cleared(d6)["model_predictions"] = Outcome(old, s, known)["model_predictions"]
      <4>1. d6["model_predictions"] =
              IF "model_predictions" \in DOMAIN s \cap known THEN s["model_predictions"] ELSE {}
        BY <2>3, <2>5, <2>6, TableNames DEF OfUser, Attributed
      <4>. QED  BY <4>1, TableNames DEF Cleared, Outcome, Lost, OfUser, Attributed, Runtime
    <3>5. ASSUME NEW t \in Runtime  PROVE Cleared(d6)[t] = Outcome(old, s, known)[t]
      <4>1. t \notin Durable /\ t \in Table
        BY TableNames DEF Runtime
      <4>. QED  BY <1>1, <4>1 DEF Cleared, Outcome
    <3>. QED  BY <3>1, <3>2, <3>3, <3>4, <3>5, TableNames DEF Runtime
  <2>8. Cleared(d6) = Outcome(old, s, known)
    BY <2>7 DEF Cleared, Outcome
  <2>. QED  BY <2>5, <2>8
<1>. QED  BY <1>7, <1>8

LEMMA OutcomeIsSound ==
  ASSUME NEW old, NEW s, IsSnapshot(s), NEW known \in {Durable, Durable \ Young}
  PROVE  Sound(Outcome(old, s, known)) /\ Outcome(old, s, known) # None
<1> DEFINE out == Outcome(old, s, known)
<1>1. Durable \ Young \subseteq DOMAIN s \cap known /\ DOMAIN s \subseteq Durable
  BY DEF IsSnapshot
<1>2. ASSUME NEW t \in Table  PROVE out[t] \subseteq Row
  <2>1. CASE t \in DOMAIN s \cap known
    <3>1. s[t] \subseteq Row
      BY <2>1 DEF IsSnapshot
    <3>2. ASSUME NEW r \in Row
          PROVE  <<r[1], IF r[2] \in Users(old) THEN None ELSE r[2]>> \in Row
      BY <3>2 DEF Row
    <3>3. Detached(s, t, old) \subseteq Row
      BY <3>1, <3>2 DEF Detached
    <3>. QED  BY <2>1, <3>1, <3>3 DEF Outcome
  <2>2. CASE t \notin DOMAIN s \cap known
    BY <2>2 DEF Outcome
  <2>. QED  BY <2>1, <2>2
<1>3. out \in Database
  BY <1>2 DEF Database, Outcome
<1>4. out["documents_meta"] = s["documents_meta"] /\ out["users"] = s["users"]
  <2>1. ASSUME NEW t \in {"documents_meta", "users"}  PROVE out[t] = s[t]
    <3>1. t \notin OfUser /\ t \in DOMAIN s \cap known /\ t \in Table /\ t \notin Attributed
      BY <1>1, TableNames DEF OfUser, Young, Attributed
    <3>. QED  BY <3>1 DEF Outcome, Lost
  <2>. QED  BY <2>1
<1>5. Documents(out) = Documents(s) /\ Users(out) = Users(s)
  BY <1>4 DEF Documents, Users
<1>6. ASSUME NEW t \in OfDocument, NEW r \in out[t]  PROVE r[1] \in Documents(s)
  <2>1. t \in Table /\ t \in DOMAIN s \cap known
    BY <1>1, TableNames DEF OfDocument, Outcome
  <2>2. \E q \in s[t] : q[1] = r[1]
    BY <1>6, <2>1 DEF Outcome, Detached, Lost
  <2>. QED  BY <2>1, <2>2 DEF IsSnapshot
<1>7. ASSUME NEW t \in OfUser, NEW r \in out[t]  PROVE r[2] \in Users(s)
  <2>1. t \in Table /\ t \in DOMAIN s \cap known /\ t \notin Attributed
    BY <1>1, TableNames DEF OfUser, Attributed, Outcome
  <2>2. r \in s[t]
    BY <2>1 DEF Outcome
  <2>. QED  BY <2>1, <2>2 DEF IsSnapshot
<1>8. ASSUME NEW t \in Attributed, NEW r \in out[t]  PROVE r[2] \in Users(s) \cup {None}
  <2>1. t \in Table /\ t \in DOMAIN s \cap known
    BY <1>1, TableNames DEF Attributed, Young
  <2>2. PICK q \in s[t] : r = <<q[1], IF q[2] \in Users(old) THEN None ELSE q[2]>>
    BY <2>1 DEF Outcome, Detached
  <2>. QED  BY <2>2 DEF IsSnapshot
<1>9. Referential(out)
  BY <1>5, <1>6, <1>7, <1>8 DEF Referential
<1>. QED  BY <1>3, <1>9, NoneIsNoDatabase DEF Sound

\* What a restore commits, for every database and every snapshot.
LEMMA RestoreCommits ==
  ASSUME NEW old, Sound(old), NEW s, IsSnapshot(s), NEW known \in {Durable, Durable \ Young}
  PROVE  Restored(old, s, known) =
           IF Blocked(old, s) \/ KeptOut(s, known) THEN None ELSE Outcome(old, s, known)
<1> DEFINE d1 == Refilled(old, "annotations", s, known)
           d2 == Refilled(d1, "badges_earned", s, known)
           d3 == Refilled(d2, "documents_meta", s, known)
           d4 == Refilled(d3, "drafts", s, known)
           d5 == Refilled(d4, "model_predictions", s, known)
           d6 == Refilled(d5, "users", s, known)
<1>1. d1 = Refilled(old, "annotations", s, known)
  OBVIOUS
<1>2. d2 = Refilled(d1, "badges_earned", s, known)
  OBVIOUS
<1>3. d3 = Refilled(d2, "documents_meta", s, known)
  OBVIOUS
<1>4. d4 = Refilled(d3, "drafts", s, known)
  OBVIOUS
<1>5. d5 = Refilled(d4, "model_predictions", s, known)
  OBVIOUS
<1>6. d6 = Refilled(d5, "users", s, known)
  OBVIOUS
<1> HIDE DEF d1, d2, d3, d4, d5, d6
<1>7. IF Blocked(old, s) \/ KeptOut(s, known) THEN d6 = None
      ELSE d6 \in Database /\ Cleared(d6) = Outcome(old, s, known)
  BY <1>1, <1>2, <1>3, <1>4, <1>5, <1>6, RefillsAll
<1>8. Restored(old, s, known) =
        LET final == IF d6 = None THEN None ELSE Cleared(d6)
        IN IF final # None /\ Referential(final) THEN final ELSE None
  BY <1>1, <1>2, <1>3, <1>4, <1>5, <1>6, SixTables
<1>. QED  BY <1>7, <1>8, OutcomeIsSound, NoneIsNoDatabase DEF Sound
-----------------------------------------------------------------------------
(* What every restore leaves.                                               *)

\* The databases and the snapshot are sound, and the command restores into a
\* new, migrated database.
AllSound ==
  /\ serving => file # None
  /\ file # None => Sound(file)
  /\ before # None => Sound(before.db)
  /\ \A s \in snapshots : IsSnapshot(s)
  /\ cli = "moved" => ~serving /\ report = None /\ (file # None => file = EmptyDatabase /\ schema = Latest)

RInv == AllSound /\ LossIsOfFormerUsers /\ CommandRestoresExactly

LEMMA KnownTables == Known \in {Durable, Durable \ Young}
BY DEF Known

LEMMA EmptyIsSound == Sound(EmptyDatabase) /\ EmptyDatabase # None
<1>1. EmptyDatabase \in Database
  BY DEF EmptyDatabase, Database
<1>2. \A t \in Table : EmptyDatabase[t] = {}
  BY DEF EmptyDatabase
<1>3. OfDocument \cup OfUser \cup Attributed \subseteq Table
  BY TableNames DEF OfDocument, OfUser, Attributed
<1>. QED  BY <1>1, <1>2, <1>3, NoneIsNoDatabase DEF Sound, Referential

LEMMA RowsAreRows == \A t : RowsOf(t) \subseteq Row
<1> TAKE t
<1>1. /\ Doc \X {None} \subseteq Row /\ {None} \X User \subseteq Row
      /\ Doc \X (User \cup {None}) \subseteq Row /\ Doc \X User \subseteq Row
      /\ Doc \X {None, Untrusted} \subseteq Row
  BY DEF Row
<1>. QED  BY <1>1 DEF RowsOf

\* What a restore reports is true of the database it commits.
LEMMA RestoreKeeps ==
  ASSUME NEW old, Sound(old), NEW s, IsSnapshot(s), Restored(old, s, Known) # None
  PROVE  /\ Sound(Restored(old, s, Known))
         /\ \A t \in DOMAIN s \cap Known :
              Restored(old, s, Known)[t] = IF t \in Attributed THEN Detached(s, t, old)
                                          ELSE s[t] \ Lost(s, t, old)
         /\ old = EmptyDatabase /\ schema = Latest =>
              \A t \in Durable :
                Restored(old, s, Known)[t] = IF t \in DOMAIN s THEN s[t] ELSE {}
<1>1. Restored(old, s, Known) = Outcome(old, s, Known)
  BY RestoreCommits, KnownTables
<1>2. Sound(Outcome(old, s, Known))
  BY OutcomeIsSound, KnownTables
<1>3. DOMAIN s \subseteq Table /\ DOMAIN s \subseteq Durable /\ Durable \subseteq Table
  BY DEF IsSnapshot, Table
<1>4. \A t \in DOMAIN s \cap Known :
        Outcome(old, s, Known)[t] = IF t \in Attributed THEN Detached(s, t, old) ELSE s[t] \ Lost(s, t, old)
  BY <1>3 DEF Outcome
<1>5. ASSUME old = EmptyDatabase, schema = Latest, NEW t \in Durable
      PROVE  Outcome(old, s, Known)[t] = IF t \in DOMAIN s THEN s[t] ELSE {}
  <2>1. Known = Durable
    BY <1>5 DEF Known, Latest
  <2>2. Users(old) = {}
    BY <1>5, TableNames DEF Users, EmptyDatabase
  <2>3. CASE t \in DOMAIN s
    <3>1. Lost(s, t, old) = {}
      BY <2>2 DEF Lost
    <3>2. Detached(s, t, old) = s[t]
      <4>1. \A r \in s[t] : r = <<r[1], r[2]>>
        BY <2>3 DEF IsSnapshot, Row
      <4>. QED  BY <2>2, <4>1 DEF Detached
    <3>. QED  BY <1>4, <2>1, <2>3, <3>1, <3>2
  <2>4. CASE t \notin DOMAIN s
    BY <1>3, <2>4 DEF Outcome
  <2>. QED  BY <2>3, <2>4
<1>. QED  BY <1>1, <1>2, <1>4, <1>5

LEMMA InitRInv == Init => RInv
BY EmptyIsSound DEF Init, RInv, AllSound, LossIsOfFormerUsers, CommandRestoresExactly

LEMMA WritesKeep ==
  ASSUME RInv, NEW t \in Table, NEW r \in RowsOf(t), WriteRow(t, r) \/ DeleteRow(t, r)
  PROVE  RInv'
<1>1. Sound(file) /\ serving /\ serving' = serving /\ cli # "moved" /\ cli' = cli /\ report' = None
      /\ UNCHANGED <<schema, snapshots, before>>
  BY DEF RInv, AllSound, WriteRow, DeleteRow, Idles
<1>2. Sound(file') /\ file' # None
  <2>1. CASE WriteRow(t, r)
    <3>1. file' = [file EXCEPT ![t] = (@ \ Clash(t, r)) \cup {r}] /\ Referential(file')
      BY <2>1 DEF WriteRow
    <3>2. r \in Row /\ file[t] \subseteq Row
      BY <1>1, RowsAreRows DEF Sound, Database
    <3>3. file' \in Database
      BY <1>1, <3>1, <3>2 DEF Sound, Database
    <3>. QED  BY <3>1, <3>3, NoneIsNoDatabase DEF Sound
  <2>2. CASE DeleteRow(t, r)
    <3>1. file' = [file EXCEPT ![t] = @ \ {r}] /\ t \in {"drafts", "model_predictions"} \cup Runtime
      BY <2>2 DEF DeleteRow
    <3>2. file' \in Database
      BY <1>1, <3>1 DEF Sound, Database
    <3>3. \A x \in Table : file'[x] \subseteq file[x]
      BY <1>1, <3>1 DEF Sound, Database
    <3>4. file'["documents_meta"] = file["documents_meta"] /\ file'["users"] = file["users"]
      BY <1>1, <3>1, TableNames DEF Sound, Database, Runtime
    <3>5. Documents(file') = Documents(file) /\ Users(file') = Users(file)
      BY <3>4 DEF Documents, Users
    <3>6. OfDocument \cup OfUser \cup Attributed \subseteq Table
      BY TableNames DEF OfDocument, OfUser, Attributed
    <3>7. Referential(file')
      BY <1>1, <3>3, <3>5, <3>6 DEF Sound, Referential
    <3>. QED  BY <3>2, <3>7, NoneIsNoDatabase DEF Sound
  <2>. QED  BY <2>1, <2>2
<1>. QED  BY <1>1, <1>2 DEF RInv, AllSound, LossIsOfFormerUsers, CommandRestoresExactly

LEMMA SnapshotKeeps == ASSUME RInv, TakeSnapshot  PROVE RInv'
<1>1. /\ Sound(file) /\ serving /\ cli # "moved" /\ snapshots' = {[t \in Known |-> file[t]]}
      /\ UNCHANGED <<file, schema, report, serving, cli, before>>
  BY DEF RInv, AllSound, TakeSnapshot, Idles
<1>2. IsSnapshot([t \in Known |-> file[t]])
  <2> DEFINE s == [t \in Known |-> file[t]]
  <2>1. DOMAIN s = Known /\ \A t \in Known : s[t] = file[t]
    OBVIOUS
  <2>2. "documents_meta" \in Known /\ "users" \in Known /\ Attributed \subseteq Known /\ Known \subseteq Table
    BY KnownTables, TableNames DEF Young, Attributed
  <2> HIDE DEF s
  <2>3. Documents(s) = Documents(file) /\ Users(s) = Users(file)
    BY <2>1, <2>2 DEF Documents, Users
  <2>4. \A t \in Known : s[t] \subseteq Row
    BY <1>1, <2>1, <2>2 DEF Sound, Database
  <2>5. IsSnapshot(s)
    BY <1>1, <2>1, <2>2, <2>3, <2>4, KnownTables DEF IsSnapshot, Sound, Referential
  <2>. QED  BY <2>5 DEF s
<1>. QED
  BY <1>1, <1>2 DEF RInv, AllSound, LossIsOfFormerUsers, CommandRestoresExactly, Known

LEMMA RestoresKeep ==
  ASSUME RInv, NEW s \in snapshots, RouteRestore(s) \/ CliRestore(s)  PROVE RInv'
<1>1. /\ file # None /\ Sound(file) /\ IsSnapshot(s) /\ Restored(file, s, Known) # None
      /\ file' = Restored(file, s, Known)
      /\ UNCHANGED <<schema, snapshots, serving, before>>
      /\ cli' # "moved"
  BY DEF RInv, AllSound, RouteRestore, CliRestore, Idles
<1>2. report' = [by |-> IF RouteRestore(s) THEN "route" ELSE "cli", snapshot |-> s, from |-> file]
      \/ report' = [by |-> "cli", snapshot |-> s, from |-> file]
  BY DEF RouteRestore, CliRestore
<1>3. report'.snapshot = s /\ report'.from = file
  BY <1>2
<1>4. report'.by = "cli" => file = EmptyDatabase /\ schema = Latest
  <2>1. CASE RouteRestore(s)
    BY <2>1 DEF RouteRestore
  <2>2. CASE CliRestore(s)
    BY <2>2 DEF CliRestore, RInv, AllSound
  <2>. QED  BY <2>1, <2>2
<1>5. AllSound'
  BY <1>1, RestoreKeeps DEF RInv, AllSound
<1>6. LossIsOfFormerUsers'
  BY <1>1, <1>3, RestoreKeeps DEF LossIsOfFormerUsers, Known
<1>7. CommandRestoresExactly'
  BY <1>1, <1>3, <1>4, RestoreKeeps DEF CommandRestoresExactly
<1>. QED  BY <1>5, <1>6, <1>7 DEF RInv

LEMMA OtherStepsKeep ==
  ASSUME RInv, StopServer \/ StartServer \/ CliMove \/ CliFails \/ CliCreate \/ CliDies
  PROVE  RInv'
<1>1. CASE StopServer
  <2>1. /\ ~serving' /\ serving
        /\ UNCHANGED <<file, schema, snapshots, cli, report, before>>
    BY <1>1 DEF StopServer
  <2>2. AllSound'
    BY <2>1 DEF RInv, AllSound
  <2>3. LossIsOfFormerUsers' /\ CommandRestoresExactly'
    BY <2>1 DEF RInv, LossIsOfFormerUsers, CommandRestoresExactly, Known
  <2>. QED  BY <2>2, <2>3 DEF RInv
<1>2. CASE StartServer
  BY <1>2, EmptyIsSound DEF StartServer, RInv, AllSound, LossIsOfFormerUsers, CommandRestoresExactly
<1>3. CASE CliMove
  <2>1. /\ ~serving' /\ file' = None /\ report' = None /\ snapshots' = snapshots
        /\ before' # None => Sound(before'.db)
    BY <1>3 DEF CliMove, RInv, AllSound
  <2>. QED  BY <2>1 DEF RInv, AllSound, LossIsOfFormerUsers, CommandRestoresExactly
<1>4. CASE CliFails
  BY <1>4 DEF CliFails, PutBack, RInv, AllSound, LossIsOfFormerUsers, CommandRestoresExactly
<1>5. CASE CliCreate
  BY <1>5, EmptyIsSound
     DEF CliCreate, NewDatabase, RInv, AllSound, LossIsOfFormerUsers, CommandRestoresExactly
<1>6. CASE CliDies
  BY <1>6 DEF CliDies, RInv, AllSound, LossIsOfFormerUsers, CommandRestoresExactly, Known
<1>. QED  BY <1>1, <1>2, <1>3, <1>4, <1>5, <1>6

LEMMA StepRInv == RInv /\ [Next]_vars => RInv'
<1> SUFFICES ASSUME RInv, [Next]_vars  PROVE RInv'
  OBVIOUS
<1>1. CASE UNCHANGED vars
  BY <1>1 DEF vars, RInv, AllSound, LossIsOfFormerUsers, CommandRestoresExactly, Known
<1>2. CASE Next
  BY <1>2, WritesKeep, SnapshotKeeps, RestoresKeep, OtherStepsKeep DEF Next
<1>. QED  BY <1>1, <1>2

\* A restore that reports success has left exactly what the order of its
\* tables lets it keep (restore.py, restore_from_snapshot): the reason why a
\* restore over a database with users loses some of what they had.
THEOREM WhatARestoreLoses == Spec => []LossIsOfFormerUsers
<1>1. RInv => LossIsOfFormerUsers
  BY DEF RInv
<1>. QED  BY <1>1, InitRInv, StepRInv, PTL DEF Spec

\* The restore of the command, into the database it created, is exact
\* (cli.py, cmd_restore_from_github).
THEOREM TheCommandIsExact == Spec => []CommandRestoresExactly
<1>1. RInv => CommandRestoresExactly
  BY DEF RInv
<1>. QED  BY <1>1, InitRInv, StepRInv, PTL DEF Spec

\* No reference between tables ever rolls a restore back, only the trigger
\* that protects documents with human work (v0019) and the one that keeps out
\* predictions of unknown provenance (v0020), and those always do.
THEOREM OnlyTheGuardsRefuse == Spec => []RefusalIsTheGuard
<1>1. RInv => RefusalIsTheGuard
  <2> SUFFICES ASSUME RInv, file # None, schema = Latest, NEW s \in snapshots
               PROVE  Restored(file, s, Known) = None <=> Blocked(file, s) \/ KeptOut(s, Durable)
    <3>1. ASSUME RInv, NEW s \in snapshots
          PROVE  "model_predictions" \in DOMAIN s <=> "model_predictions" \in DOMAIN s \cap Durable
      BY <3>1 DEF IsSnapshot, RInv, AllSound
    <3>. QED  BY <3>1 DEF RefusalIsTheGuard, Blocked, KeptOut
  <2>1. Sound(file) /\ IsSnapshot(s)
    BY DEF RInv, AllSound
  <2>2. Known = Durable
    BY DEF Known, Latest
  <2>. QED  BY <2>1, <2>2, RestoreCommits, OutcomeIsSound
<1>. QED  BY <1>1, InitRInv, StepRInv, PTL DEF Spec

-----------------------------------------------------------------------------
(* The backup cycle: lemmas about its helpers.                              *)

LEMMA LeastNumber ==
  ASSUME NEW T, T \subseteq Nat, T # {}  PROVE \E x \in T : \A y \in T : x <= y
<1>1. \E x \in T : \A y \in T : <<y, x>> \notin OpToRel(<, Nat)
  BY NatLessThanWellFounded, WFMin
<1>2. PICK x \in T : \A y \in T : <<y, x>> \notin OpToRel(<, Nat)
  BY <1>1
<1>3. \A y \in T : x \in Nat /\ y \in Nat /\ ~(y < x)
  BY <1>2 DEF OpToRel
<1>4. \A y \in T : x <= y
  BY <1>3
<1>. QED  BY <1>4

\* Counting upwards through a set of places meets every number up to its size,
\* and the size itself at the last place only.
LEMMA Ranks ==
  ASSUME NEW n \in Nat, NEW S \in SUBSET (1..n)
  PROVE  /\ IsFiniteSet(S) /\ Cardinality(S) \in Nat
         /\ \A k \in 1..Cardinality(S) : \E i \in S : Cardinality({j \in S : j <= i}) = k
         /\ \A i, x \in S : Cardinality({j \in S : j <= i}) = Cardinality(S) => x <= i
<1> DEFINE R(i) == {j \in S : j <= i}
           f == [i \in S |-> Cardinality(R(i))]
<1>1. IsFiniteSet(S) /\ Cardinality(S) \in Nat /\ \A i : IsFiniteSet(R(i)) /\ Cardinality(R(i)) \in Nat
  <2>1. IsFiniteSet(1..n)
    BY FS_Interval
  <2>2. IsFiniteSet(S)
    BY <2>1, FS_Subset
  <2>3. \A i : R(i) \in SUBSET S
    OBVIOUS
  <2>. QED  BY <2>2, <2>3, FS_Subset, FS_CardinalityType
<1>2. ASSUME NEW i \in S  PROVE Cardinality(R(i)) \in 1..Cardinality(S)
  <2>1. R(i) \in SUBSET S /\ i \in R(i)
    OBVIOUS
  <2>2. Cardinality(R(i)) # 0
    BY <1>1, <2>1, FS_EmptySet
  <2>. QED  BY <1>1, <2>1, <2>2, FS_Subset
<1>3. ASSUME NEW i \in S, NEW x \in S, i < x  PROVE Cardinality(R(i)) # Cardinality(R(x))
  <2>1. \A j \in S : j \in 1..n
    OBVIOUS
  <2>2. R(i) \in SUBSET R(x) /\ x \in R(x) /\ x \notin R(i)
    <3>1. \A j \in S : j <= i => j <= x
      BY <1>3, <2>1
    <3>2. x <= x /\ ~(x <= i)
      BY <1>3, <2>1
    <3>. QED  BY <3>1, <3>2
  <2>3. IsFiniteSet(R(x))
    BY <1>1
  <2> HIDE DEF R
  <2>4. Cardinality(R(x)) = Cardinality(R(i)) => R(x) = R(i)
    BY <2>2, <2>3, FS_Subset
  <2>. QED  BY <2>2, <2>4
<1>4. f \in Injection(S, 1..Cardinality(S))
  <2>1. \A i, x \in S : i = x \/ i < x \/ x < i
    OBVIOUS
  <2>2. \A i, x \in S : f[i] = f[x] => i = x
    BY <1>3, <2>1
  <2>3. f \in [S -> 1..Cardinality(S)]
    BY <1>2
  <2>. QED  BY <2>2, <2>3 DEF Injection, IsInjective
<1>5. Cardinality(1..Cardinality(S)) = Cardinality(S) /\ IsFiniteSet(1..Cardinality(S))
  BY <1>1, FS_Interval
<1>6. f \in Surjection(S, 1..Cardinality(S))
  BY <1>4, <1>5, FS_Injection
<1>7. \A k \in 1..Cardinality(S) : \E i \in S : Cardinality(R(i)) = k
  BY <1>6 DEF Surjection
<1>8. ASSUME NEW i \in S, NEW x \in S, Cardinality(R(i)) = Cardinality(S)  PROVE x <= i
  <2>1. R(i) \in SUBSET S
    OBVIOUS
  <2>2. R(i) = S
    BY <1>1, <1>8, <2>1, FS_Subset
  <2>. QED  BY <2>2
<1>. QED  BY <1>1, <1>7, <1>8

\* What is left of the directory are files of it, each once, in their order;
\* the newest is the newest if it is among them.
LEMMA FilesLeft ==
  ASSUME snaps \in Seq(File), NEW places \in SUBSET DOMAIN snaps
  PROVE  /\ FilesAt(places) \in Seq(File) /\ Len(FilesAt(places)) = Cardinality(places)
         /\ \E p \in [DOMAIN FilesAt(places) -> places] :
              /\ \A k \in DOMAIN FilesAt(places) : FilesAt(places)[k] = snaps[p[k]]
              /\ \A k, l \in DOMAIN FilesAt(places) : p[k] = p[l] => k = l
         /\ Len(snaps) \in places =>
              FilesAt(places) # <<>> /\ Last(FilesAt(places)) = Last(snaps)
<1> DEFINE n == Cardinality(places)
           Rank(i) == Cardinality({j \in places : j <= i})
           P(k) == CHOOSE i \in places : Rank(i) = k
           left == FilesAt(places)
<1>1. Len(snaps) \in Nat /\ places \in SUBSET (1..Len(snaps))
  OBVIOUS
<1>2. left = [k \in 1..n |-> snaps[P(k)]]
  BY DEF FilesAt
<1>3. /\ n = Cardinality(places) /\ n \in Nat /\ IsFiniteSet(places)
      /\ \A k \in 1..n : \E i \in places : Rank(i) = k
      /\ \A i, x \in places : Rank(i) = n => x <= i
  BY <1>1, Ranks
<1> HIDE DEF Rank
<1>4. ASSUME NEW k \in 1..n
      PROVE  P(k) \in places /\ Rank(P(k)) = k
  <2>1. \E i \in places : Rank(i) = k
    BY <1>3
  <2>. QED  BY <2>1
<1> HIDE DEF P, n, left
<1>5. \A k, l \in 1..n : P(k) = P(l) => k = l
  BY <1>4
<1>6. Len(snaps) \in places => n >= 1 /\ n \in 1..n /\ P(n) = Len(snaps)
  <2> SUFFICES ASSUME Len(snaps) \in places  PROVE n >= 1 /\ n \in 1..n /\ P(n) = Len(snaps)
    OBVIOUS
  <2>1. n # 0
    BY <1>3, FS_EmptySet
  <2>2. n \in Nat
    BY <1>3
  <2>3. n >= 1 /\ n \in 1..n
    BY <2>1, <2>2
  <2>4. P(n) \in places /\ Rank(P(n)) = n
    BY <1>4, <2>3
  <2>5. Len(snaps) <= P(n)
    BY <1>3, <2>4
  <2>6. P(n) \in 1..Len(snaps)
    BY <1>1, <2>4
  <2>7. P(n) = Len(snaps)
    BY <1>1, <2>5, <2>6
  <2>. QED  BY <2>3, <2>7
<1>7. \A k \in 1..n : snaps[P(k)] \in File
  BY <1>1, <1>4
<1>8. left \in Seq(File) /\ Len(left) = n /\ DOMAIN left = 1..n
  <2> DEFINE q == [k \in 1..n |-> snaps[P(k)]]
  <2>1. q \in [1..n -> File]
    BY <1>7
  <2>2. q \in Seq(File) /\ Len(q) = n /\ DOMAIN q = 1..n
    <3> HIDE DEF q
    <3>. QED  BY <1>3, <2>1
  <2>. QED  BY <1>2, <2>2
<1>9. \E p \in [DOMAIN left -> places] :
        /\ \A k \in DOMAIN left : left[k] = snaps[p[k]]
        /\ \A k, l \in DOMAIN left : p[k] = p[l] => k = l
  <2> DEFINE p == [k \in 1..n |-> P(k)]
  <2>1. p \in [DOMAIN left -> places] /\ \A k \in 1..n : p[k] = P(k)
    BY <1>4, <1>8
  <2> HIDE DEF p
  <2>2. \A k \in DOMAIN left : left[k] = snaps[p[k]]
    BY <1>2, <1>8, <2>1
  <2>3. \A k, l \in DOMAIN left : p[k] = p[l] => k = l
    BY <1>5, <1>8, <2>1
  <2>. QED  BY <2>1, <2>2, <2>3
<1>10. Len(snaps) \in places => left # <<>> /\ Last(left) = Last(snaps)
  BY <1>2, <1>6, <1>8 DEF Last
<1>. QED  BY <1>3, <1>8, <1>9, <1>10 DEF left

\* What is left of good files is good.
LEMMA TreeLeft ==
  ASSUME snaps \in Seq(File), Tree(snaps, latest), NEW places \in SUBSET DOMAIN snaps
  PROVE  Tree(FilesAt(places), latest)
<1> DEFINE left == FilesAt(places)
<1>1. PICK p \in [DOMAIN left -> places] :
        /\ \A k \in DOMAIN left : left[k] = snaps[p[k]]
        /\ \A k, l \in DOMAIN left : p[k] = p[l] => k = l
  BY FilesLeft
<1> HIDE DEF left
<1>2. \A k \in DOMAIN left : p[k] \in DOMAIN snaps
  BY <1>1
<1>3. Tree(left, latest)
  BY <1>1, <1>2 DEF Tree
<1>. QED  BY <1>3 DEF left

\* Nothing is removed where every place is kept.
LEMMA AllFilesLeft == ASSUME snaps \in Seq(File)  PROVE FilesAt(DOMAIN snaps) = snaps
<1>1. Len(snaps) \in Nat /\ DOMAIN snaps = 1..Len(snaps)
  OBVIOUS
<1>0. \A n \in Nat : Cardinality(1..n) = n
  BY FS_Interval
<1>2. Cardinality(1..Len(snaps)) = Len(snaps)
  BY <1>0, <1>1
<1>3. ASSUME NEW i \in 1..Len(snaps)  PROVE Cardinality({j \in 1..Len(snaps) : j <= i}) = i
  <2>1. {j \in 1..Len(snaps) : j <= i} = 1..i /\ i \in Nat /\ i >= 1
    BY <1>1
  <2>2. Cardinality(1..i) = i
    BY <2>1, FS_Interval
  <2>. QED  BY <2>1, <2>2
<1>4. \A k \in 1..Len(snaps) :
        (CHOOSE i \in 1..Len(snaps) : Cardinality({j \in 1..Len(snaps) : j <= i}) = k) = k
  <2> DEFINE Rank(i) == Cardinality({j \in 1..Len(snaps) : j <= i})
  <2>1. \A i \in 1..Len(snaps) : Rank(i) = i
    BY <1>3
  <2> HIDE DEF Rank
  <2>2. \A k \in 1..Len(snaps) : (CHOOSE i \in 1..Len(snaps) : Rank(i) = k) = k
    BY <2>1
  <2>. QED  BY <2>2 DEF Rank
<1>5. FilesAt(DOMAIN snaps) = [k \in 1..Len(snaps) |-> snaps[k]]
  <2>1. FilesAt(1..Len(snaps)) =
          [k \in 1..Len(snaps) |->
             snaps[CHOOSE i \in 1..Len(snaps) : Cardinality({j \in 1..Len(snaps) : j <= i}) = k]]
    BY <1>2 DEF FilesAt
  <2> DEFINE First(k) == CHOOSE i \in 1..Len(snaps) : Cardinality({j \in 1..Len(snaps) : j <= i}) = k
  <2>2. \A k \in 1..Len(snaps) : First(k) = k
    BY <1>4
  <2>3. FilesAt(1..Len(snaps)) = [k \in 1..Len(snaps) |-> snaps[First(k)]]
    BY <2>1
  <2> HIDE DEF First
  <2>4. FilesAt(1..Len(snaps)) = [k \in 1..Len(snaps) |-> snaps[k]]
    BY <2>2, <2>3
  <2>. QED  BY <1>1, <2>4
<1>. QED  BY <1>1, <1>5

\* Of n + 1 names in n files, two are of one file.
LEMMA TwoShareAPlace ==
  ASSUME NEW n \in Nat, NEW g \in [0..n -> 1..n]
  PROVE  \E x, y \in 0..n : x # y /\ g[x] = g[y]
<1> DEFINE S == 0..n
           T == 1..n
<1>1. IsFiniteSet(S) /\ Cardinality(S) = IF 0 > n THEN 0 ELSE n - 0 + 1
  BY FS_Interval
<1>2. IsFiniteSet(T) /\ Cardinality(T) = IF 1 > n THEN 0 ELSE n - 1 + 1
  BY FS_Interval
<1>3. Cardinality(T) < Cardinality(S)
  <2> HIDE DEF S, T
  <2>. QED  BY <1>1, <1>2
<1>4. g \in [S -> T]
  OBVIOUS
<1> HIDE DEF S, T
<1>5. \E x, y \in S : x # y /\ g[x] = g[y]
  BY <1>1, <1>2, <1>3, <1>4, FS_PigeonHole
<1>. QED  BY <1>5 DEF S

\* A cycle takes a name that no file in the directory has.
LEMMA NameIsFree ==
  ASSUME snaps \in Seq(File), clock \in 0..MaxClock
  PROVE  UniqueName \in (0..MaxClock) \X Nat /\ \A i \in DOMAIN snaps : snaps[i].name # UniqueName
<1> DEFINE n == Len(snaps)
           Free == {k \in 0..n : k \notin Taken(clock)}
           IsFirst(k) == k \notin Taken(clock) /\ \A j \in 0..(k - 1) : j \in Taken(clock)
<1>1. n \in Nat /\ DOMAIN snaps = 1..n
  OBVIOUS
<1>2. Free # {}
  <2> SUFFICES ASSUME \A k \in 0..n : k \in Taken(clock)  PROVE FALSE
    OBVIOUS
  <2> DEFINE g == [k \in 0..n |-> CHOOSE i \in DOMAIN snaps : snaps[i].name = <<clock, k>>]
  <2>1. \A k \in 0..n : g[k] \in 1..n /\ snaps[g[k]].name = <<clock, k>>
    BY <1>1 DEF Taken
  <2>2. g \in [0..n -> 1..n]
    BY <2>1
  <2> HIDE DEF g
  <2> HIDE DEF n
  <2>3. \E x, y \in 0..n : x # y /\ g[x] = g[y]
    BY <1>1, <2>2, TwoShareAPlace
  <2>. QED  BY <2>1, <2>3
<1>3. \E k \in 0..n : IsFirst(k)
  <2>1. Free \subseteq Nat
    BY <1>1
  <2>2. \E k \in Free : \A j \in Free : k <= j
    <3> HIDE DEF Free
    <3>. QED  BY <1>2, <2>1, LeastNumber
  <2>3. PICK k \in Free : \A j \in Free : k <= j
    BY <2>2
  <2>4. ASSUME NEW j \in 0..(k - 1)  PROVE j \in Taken(clock)
    BY <1>1, <2>3
  <2>. QED  BY <2>3, <2>4
<1>4. PICK k \in 0..n : UniqueName = <<clock, k>> /\ IsFirst(k)
  BY <1>3 DEF UniqueName
<1>5. ASSUME NEW i \in DOMAIN snaps, snaps[i].name = <<clock, k>>  PROVE FALSE
  BY <1>4, <1>5 DEF Taken
<1>. QED  BY <1>1, <1>4, <1>5

LEMMA PastOf ==
  ASSUME NEW S, NEW s \in Seq(S), NEW t \in Seq(S)
  PROVE  IsPrefix(s, t) <=> Len(s) <= Len(t) /\ \A i \in 1..Len(s) : s[i] = t[i]
<1>1. Len(s) \in Nat /\ Len(t) \in Nat /\ SubSeq(s, 1, Len(s)) = s
  OBVIOUS
<1>2. ASSUME Len(s) <= Len(t)
      PROVE  (s = SubSeq(t, 1, Len(s))) <=> \A i \in 1..Len(s) : s[i] = t[i]
  <2>1. SubSeq(t, 1, Len(s)) \in Seq(S) /\ Len(SubSeq(t, 1, Len(s))) = Len(s)
    BY <1>1, <1>2
  <2>2. \A i \in 1..Len(s) : SubSeq(t, 1, Len(s))[i] = t[i]
    BY <1>1, <1>2
  <2> DEFINE u == SubSeq(t, 1, Len(s))
  <2> HIDE DEF u
  <2>3. u \in Seq(S) /\ Len(u) = Len(s) /\ \A i \in 1..Len(s) : u[i] = t[i]
    BY <2>1, <2>2 DEF u
  <2>4. s = u <=> \A i \in 1..Len(s) : s[i] = t[i]
    BY <1>1, <2>3
  <2>. QED  BY <2>4 DEF u
<1>. QED  BY <1>1, <1>2 DEF IsPrefix

\* A history is a past of itself and of what extends it; what a past holds is
\* in its future, at the same place.
LEMMA Pasts ==
  ASSUME NEW S, NEW s \in Seq(S), NEW t \in Seq(S)
  PROVE  /\ IsPrefix(s, s)
         /\ s = <<>> => IsPrefix(s, t)
         /\ IsPrefix(s, t) => \A e \in S : IsPrefix(s, Append(t, e))
         /\ IsPrefix(s, t) => \A k \in DOMAIN s : k \in DOMAIN t /\ t[k] = s[k]
<1>1. IsPrefix(s, s)
  BY PastOf
<1>2. ASSUME s = <<>>  PROVE IsPrefix(s, t)
  <2>1. Len(s) = 0 /\ Len(t) \in Nat
    BY <1>2
  <2>2. Len(s) <= Len(t) /\ \A i \in 1..Len(s) : s[i] = t[i]
    BY <2>1
  <2>. QED  BY <2>2, PastOf
<1>3. ASSUME IsPrefix(s, t)  PROVE \A e \in S : IsPrefix(s, Append(t, e))
  <2> TAKE e \in S
  <2>1. Len(s) <= Len(t) /\ \A i \in 1..Len(s) : s[i] = t[i]
    BY <1>3, PastOf
  <2>2. /\ Append(t, e) \in Seq(S) /\ Len(Append(t, e)) = Len(t) + 1
        /\ \A i \in 1..Len(t) : Append(t, e)[i] = t[i]
    OBVIOUS
  <2> DEFINE u == Append(t, e)
  <2> HIDE DEF u
  <2>3. u \in Seq(S) /\ Len(s) <= Len(u) /\ \A i \in 1..Len(s) : s[i] = u[i]
    BY <2>1, <2>2 DEF u
  <2>4. IsPrefix(s, u)
    BY <2>3, PastOf
  <2>. QED  BY <2>4 DEF u
<1>4. ASSUME IsPrefix(s, t)  PROVE \A k \in DOMAIN s : k \in DOMAIN t /\ t[k] = s[k]
  <2>1. Len(s) <= Len(t) /\ \A i \in 1..Len(s) : s[i] = t[i]
    BY <1>4, PastOf
  <2>. QED  BY <2>1
<1>. QED  BY <1>1, <1>2, <1>3, <1>4

-----------------------------------------------------------------------------
(* The backup cycle: its invariant.  Only the holder of the lock runs, so    *)
(* what it has written stays as it wrote it until it has taken the next      *)
(* step: its file is the newest of the directory when it is copied, when the *)
(* rotation keeps it and when it is committed.                               *)

CommitRecord == [id : Nat, snaps : Seq(File), latest : Seq(Nat) \cup {Nil}]

CommitOK(commit) ==
  /\ Tree(commit.snaps, commit.latest)
  /\ commit.snaps # <<>> => commit.latest = Last(commit.snaps).rows

Named(y) == [name |-> y.name, rows |-> y.rows]

Carries(commit, y) ==
  commit.latest = y.rows /\ \E i \in DOMAIN commit.snaps : commit.snaps[i] = Named(y)

CycleRecord ==
  [at : Position \ {"idle"}, name : (0..MaxClock) \X Nat, began : Nat,
   seen : Nat \cup {Nil}, rows : Seq(Nat)]

\* The tables read so far are one state, no older than the start.
ReadsOneState(y) ==
  /\ y.began <= db
  /\ \A i \in DOMAIN y.rows : y.rows[i] = y.seen /\ y.rows[i] >= y.began
  /\ IF y.at = "dump" THEN Len(y.rows) < Tables /\ (y.seen = Nil \/ y.seen >= y.began)
                      ELSE Len(y.rows) = Tables

\* Its name is free until its file is the newest one, and then the latest.
HasItsFile(y) ==
  /\ y.at \in {"dump", "rename"} => \A i \in DOMAIN snaps : snaps[i].name # y.name
  /\ y.at \in {"latest", "rotate", "ensure", "config", "adopt", "commit"} =>
       snaps # <<>> /\ Last(snaps) = Named(y)
  /\ y.at \in {"rotate", "ensure", "config", "adopt", "commit"} => latest = y.rows

\* Its commit is the last one, and then at the remote repository.
IsCarried(y) ==
  /\ y.at \in {"config", "adopt"} => repo.exists
  /\ y.at = "push" => repo.log # <<>> /\ Carries(Last(repo.log), y)
  /\ y.at = "pushed" => \E k \in DOMAIN remote : Carries(remote[k], y)

Running(y) == ReadsOneState(y) /\ HasItsFile(y) /\ IsCarried(y)

Counts == db \in Nat /\ clock \in 0..MaxClock /\ used \in [DOMAIN Bound -> Nat]

Directory ==
  /\ snaps \in Seq(File) /\ latest \in Seq(Nat) \cup {Nil}
  /\ Tree(snaps, latest)

Histories ==
  /\ repo \in [exists : BOOLEAN, identity : BOOLEAN, log : Seq(CommitRecord)]
  /\ remote \in Seq(CommitRecord)
  /\ \A k \in DOMAIN repo.log : CommitOK(repo.log[k])
  /\ \A k \in DOMAIN remote : CommitOK(remote[k])
  /\ whole => repo.exists /\ IsPrefix(remote, repo.log)

Cycles ==
  /\ cycle \in [Caller -> CycleRecord \cup {Idle}]
  /\ \A c \in Caller : cycle[c] # Idle => lock = c /\ Running(cycle[c])

BInv == Counts /\ Directory /\ Histories /\ Cycles /\ AckedBackupIsRemote

\* A cycle that stands at one of its places is the only one.
LEMMA OneCycle ==
  ASSUME Cycles, NEW c \in Caller, ~At(c, "idle")
  PROVE  /\ cycle[c] \in CycleRecord /\ lock = c /\ Running(cycle[c])
         /\ \A d \in Caller \ {c} : cycle[d] = Idle
BY DEF Cycles, At, Idle

LEMMA NobodyRuns ==
  ASSUME Cycles, lock = Nil  PROVE \A c \in Caller : cycle[c] = Idle
BY BackupAssumption DEF Cycles

LEMMA CyclesEnd ==
  ASSUME Cycles, NEW c \in Caller, ~At(c, "idle"), Ends(c)  PROVE Cycles'
<1>1. \A d \in Caller : cycle'[d] = Idle
  BY OneCycle DEF Ends, Cycles
<1>2. cycle' \in [Caller -> CycleRecord \cup {Idle}]
  BY DEF Cycles, Ends
<1>. QED  BY <1>1, <1>2 DEF Cycles

\* What a step to the next place changes in its cycle.
LEMMA GoesOn ==
  ASSUME Cycles, NEW c \in Caller, ~At(c, "idle"), NEW p \in Position \ {"idle"}, Goes(c, p)
  PROVE  /\ cycle'[c] = [cycle[c] EXCEPT !.at = p]
         /\ cycle'[c] \in CycleRecord /\ cycle'[c].at = p
         /\ cycle'[c].name = cycle[c].name /\ cycle'[c].rows = cycle[c].rows
         /\ cycle'[c].began = cycle[c].began /\ cycle'[c].seen = cycle[c].seen
         /\ cycle' \in [Caller -> CycleRecord \cup {Idle}]
         /\ \A d \in Caller \ {c} : cycle'[d] = Idle
<1>1. cycle[c] \in CycleRecord /\ \A d \in Caller \ {c} : cycle[d] = Idle
  BY OneCycle
<1>2. /\ cycle'[c] = [cycle[c] EXCEPT !.at = p]
      /\ \A d \in Caller \ {c} : cycle'[d] = Idle
      /\ DOMAIN cycle' = Caller /\ cycle' = [d \in Caller |-> cycle'[d]]
  BY <1>1 DEF Goes, Cycles
<1>3. [cycle[c] EXCEPT !.at = p] \in CycleRecord
  BY <1>1 DEF CycleRecord
<1>4. /\ cycle'[c].at = p
      /\ cycle'[c].name = cycle[c].name /\ cycle'[c].rows = cycle[c].rows
      /\ cycle'[c].began = cycle[c].began /\ cycle'[c].seen = cycle[c].seen
  BY <1>1, <1>2 DEF CycleRecord
<1>5. cycle' \in [Caller -> CycleRecord \cup {Idle}]
  BY <1>2, <1>3
<1>. QED  BY <1>2, <1>3, <1>4, <1>5

\* The tables read so far stay as they are on the way from place to place.
LEMMA GoesOnReading ==
  ASSUME Cycles, NEW c \in Caller, ~At(c, "idle"), ~At(c, "dump"), UNCHANGED db,
         NEW p \in Position \ {"idle", "dump"}, Goes(c, p)
  PROVE  ReadsOneState(cycle[c])'
<1>1. ReadsOneState(cycle[c]) /\ cycle[c].at # "dump"
  BY OneCycle DEF Running, At
<1>2. /\ cycle'[c].at # "dump" /\ cycle'[c].rows = cycle[c].rows
      /\ cycle'[c].began = cycle[c].began /\ cycle'[c].seen = cycle[c].seen
  BY GoesOn
<1>. QED  BY <1>1, <1>2 DEF ReadsOneState

LEMMA UsesKeep ==
  ASSUME Counts, NEW b \in DOMAIN Bound, Uses(b)
  PROVE  used' \in [DOMAIN Bound -> Nat]
BY DEF Counts, Uses

LEMMA InitBInv == BackupInit => BInv
<1> SUFFICES ASSUME BackupInit  PROVE BInv
  OBVIOUS
<1>1. Counts
  BY BackupAssumption DEF BackupInit, Counts
<1>2. Directory
  BY DEF BackupInit, Directory, Tree
<1>3. Cycles
  BY DEF BackupInit, Cycles
<1>4. Histories
  <2> DEFINE first == [id |-> 0, snaps |-> <<>>, latest |-> Nil]
  <2>1. first \in CommitRecord /\ CommitOK(first)
    <3>1. first.snaps = <<>> /\ first.latest = Nil /\ first \in CommitRecord
      BY DEF CommitRecord
    <3> HIDE DEF first
    <3>. QED  BY <3>1 DEF CommitOK, Tree
  <2> HIDE DEF first
  <2>2. remote = <<>> \/ remote = <<first>>
    BY DEF BackupInit, first
  <2>3. remote \in Seq(CommitRecord) /\ \A k \in DOMAIN remote : CommitOK(remote[k])
    <3>1. CASE remote = <<>>
      BY <3>1
    <3>2. CASE remote = <<first>>
      <4>1. /\ <<first>> \in Seq(CommitRecord)
            /\ \A k \in DOMAIN <<first>> : k = 1 /\ <<first>>[k] = first
        BY <2>1
      <4>. QED  BY <2>1, <3>2, <4>1
    <3>. QED  BY <2>2, <3>1, <3>2
  <2>. QED  BY <2>3 DEF BackupInit, Histories, NoRepo
<1>5. AckedBackupIsRemote
  BY DEF BackupInit, AckedBackupIsRemote
<1>. QED  BY <1>1, <1>2, <1>3, <1>4, <1>5 DEF BInv

LEMMA StartKeeps ==
  ASSUME BInv, NEW c \in Caller, Start(c)  PROVE BInv'
<1>1. Counts'
  BY UsesKeep DEF BInv, Counts, Start, Bound
<1>2. Directory' /\ Histories' /\ AckedBackupIsRemote'
  <2>1. UNCHANGED <<snaps, latest, repo, remote, acked, whole>>
    BY DEF Start
  <2>2. Directory'
    BY <2>1 DEF BInv, Directory
  <2>3. Histories'
    BY <2>1 DEF BInv, Histories
  <2>4. AckedBackupIsRemote'
    BY <2>1 DEF BInv, AckedBackupIsRemote
  <2>. QED  BY <2>2, <2>3, <2>4
<1>3. Cycles'
  <2> DEFINE y == [at |-> "dump", name |-> UniqueName, began |-> db, seen |-> Nil, rows |-> <<>>]
  <2>1. UniqueName \in (0..MaxClock) \X Nat /\ \A i \in DOMAIN snaps : snaps[i].name # UniqueName
    BY NameIsFree DEF BInv, Directory, Counts
  <2>2. y \in CycleRecord
    BY <2>1 DEF BInv, Counts, CycleRecord, Position
  <2>3. lock = Nil /\ \A d \in Caller : cycle[d] = Idle
    BY NobodyRuns DEF BInv, Start, LockFree
  <2> HIDE DEF y
  <2>4. cycle' = [cycle EXCEPT ![c] = y] /\ lock' = c
    BY DEF y, Start
  <2>5. /\ cycle' \in [Caller -> CycleRecord \cup {Idle}] /\ cycle'[c] = y
        /\ \A d \in Caller \ {c} : cycle'[d] = Idle
    BY <2>2, <2>3, <2>4 DEF BInv, Cycles
  <2>6. /\ y.at = "dump" /\ y.name = UniqueName /\ y.began = db /\ y.seen = Nil
        /\ y.rows = <<>> /\ snaps' = snaps /\ db' = db
    BY DEF y, Start
  <2>7. ReadsOneState(cycle[c])'
    BY <2>5, <2>6, BackupAssumption DEF ReadsOneState, BInv, Counts
  <2>8. HasItsFile(cycle[c])' /\ IsCarried(cycle[c])'
    BY <2>1, <2>5, <2>6 DEF HasItsFile, IsCarried
  <2>. QED  BY <2>4, <2>5, <2>7, <2>8 DEF Cycles, Running
<1>. QED  BY <1>1, <1>2, <1>3 DEF BInv

LEMMA ReadTableKeeps ==
  ASSUME BInv, NEW c \in Caller, ReadTable(c)  PROVE BInv'
<1>1. UNCHANGED <<db, clock, lock, snaps, latest, repo, remote, used, acked, whole>>
  BY DEF ReadTable
<1>2. Counts' /\ Directory' /\ Histories' /\ AckedBackupIsRemote'
  <2>1. Counts' /\ Directory'
    BY <1>1 DEF BInv, Counts, Directory
  <2>2. Histories' /\ AckedBackupIsRemote'
    BY <1>1 DEF BInv, Histories, AckedBackupIsRemote
  <2>. QED  BY <2>1, <2>2
<1>3. Cycles'
  <2> DEFINE s == StateRead(c)
             p == IF Len(cycle[c].rows) + 1 = Tables THEN "rename" ELSE "dump"
  <2>1. /\ cycle[c] \in CycleRecord /\ lock = c /\ Running(cycle[c])
        /\ cycle[c].at = "dump" /\ \A d \in Caller \ {c} : cycle[d] = Idle
    BY OneCycle DEF BInv, ReadTable, At
  <2>2. s \in Nat /\ s >= cycle[c].began /\ p \in {"dump", "rename"}
    BY <2>1 DEF StateRead, Running, ReadsOneState, BInv, Counts, CycleRecord
  <2>3. \A i \in DOMAIN cycle[c].rows : cycle[c].rows[i] = s
    BY <2>1, BackupAssumption DEF StateRead, Running, ReadsOneState, CycleRecord
  <2> HIDE DEF s, p
  <2>4. cycle' = [cycle EXCEPT ![c].seen = s, ![c].rows = Append(@, s), ![c].at = p]
    BY DEF s, p, ReadTable
  <2>5. /\ cycle'[c] = [cycle[c] EXCEPT !.seen = s, !.rows = Append(@, s), !.at = p]
        /\ DOMAIN cycle' = Caller /\ cycle' = [d \in Caller |-> cycle'[d]]
        /\ \A d \in Caller \ {c} : cycle'[d] = Idle
    BY <2>1, <2>4 DEF BInv, Cycles
  <2>6. /\ cycle'[c].at = p /\ cycle'[c].name = cycle[c].name /\ cycle'[c].began = cycle[c].began
        /\ cycle'[c].seen = s /\ cycle'[c].rows = Append(cycle[c].rows, s)
        /\ cycle'[c] \in CycleRecord
    <3> DEFINE y == cycle[c]
               t == Append(y.rows, s)
    <3>1. y \in CycleRecord /\ t \in Seq(Nat) /\ p \in Position \ {"idle"}
      BY <2>1, <2>2 DEF CycleRecord, Position
    <3>2. cycle'[c] = [y EXCEPT !.seen = s, !.rows = t, !.at = p]
      BY <2>5
    <3> HIDE DEF t, y
    <3>3. /\ cycle'[c].at = p /\ cycle'[c].name = y.name /\ cycle'[c].began = y.began
          /\ cycle'[c].seen = s /\ cycle'[c].rows = t /\ cycle'[c] \in CycleRecord
      BY <2>2, <3>1, <3>2 DEF CycleRecord
    <3>. QED  BY <3>3 DEF t, y
  <2>7. ReadsOneState(cycle[c])'
    <3>1. cycle[c].rows \in Seq(Nat) /\ cycle[c].began \in Nat
      BY <2>1 DEF CycleRecord
    <3>2. /\ Len(Append(cycle[c].rows, s)) = Len(cycle[c].rows) + 1
          /\ \A i \in DOMAIN Append(cycle[c].rows, s) : Append(cycle[c].rows, s)[i] = s
      <4> DEFINE t == cycle[c].rows
      <4>1. t \in Seq(Nat) /\ \A i \in DOMAIN t : t[i] = s
        BY <2>3, <3>1
      <4> HIDE DEF t
      <4>2. /\ Len(Append(t, s)) = Len(t) + 1 /\ DOMAIN Append(t, s) = 1..(Len(t) + 1)
            /\ Append(t, s)[Len(t) + 1] = s /\ \A i \in 1..Len(t) : Append(t, s)[i] = t[i]
        BY <2>2, <4>1
      <4>3. \A i \in 1..(Len(t) + 1) : i \in 1..Len(t) \/ i = Len(t) + 1
        BY <4>1
      <4>4. \A i \in DOMAIN Append(t, s) : Append(t, s)[i] = s
        BY <4>1, <4>2, <4>3
      <4>. QED  BY <4>2, <4>4 DEF t
    <3>3. cycle[c].began <= db /\ Len(cycle[c].rows) < Tables
      BY <2>1 DEF Running, ReadsOneState
    <3>4. IF p = "dump" THEN Len(cycle[c].rows) + 1 < Tables ELSE Len(cycle[c].rows) + 1 = Tables
      BY <3>1, <3>3, BackupAssumption DEF p
    <3>. QED  BY <1>1, <2>2, <2>6, <3>2, <3>3, <3>4 DEF ReadsOneState
  <2>8. HasItsFile(cycle[c])' /\ IsCarried(cycle[c])'
    BY <1>1, <2>1, <2>2, <2>6 DEF HasItsFile, IsCarried, Running
  <2>9. cycle' \in [Caller -> CycleRecord \cup {Idle}]
    BY <2>5, <2>6
  <2>. QED  BY <1>1, <2>1, <2>5, <2>7, <2>8, <2>9 DEF Cycles, Running
<1>. QED  BY <1>2, <1>3 DEF BInv

\* The step of a cycle to its next place keeps the invariant of the cycles if
\* it keeps what this cycle relies on.
LEMMA CyclesGoOn ==
  ASSUME Cycles, NEW c \in Caller, ~At(c, "idle"), NEW p \in Position \ {"idle"}, Goes(c, p),
         UNCHANGED lock, Running(cycle[c])'
  PROVE  Cycles'
<1>1. lock = c
  BY OneCycle
<1>2. cycle' \in [Caller -> CycleRecord \cup {Idle}] /\ \A d \in Caller \ {c} : cycle'[d] = Idle
  BY GoesOn
<1>. QED  BY <1>1, <1>2 DEF Cycles

\* A version is what a finished cycle has read.
LEMMA RowsAreVersion ==
  ASSUME NEW y \in CycleRecord, ReadsOneState(y), y.at # "dump"
  PROVE  Version(y.rows)
BY DEF ReadsOneState, Version

LEMMA RenameKeeps ==
  ASSUME BInv, NEW c \in Caller, Rename(c)
  PROVE  BInv' /\ snaps' = Append(snaps, Named(cycle[c]))
<1> DEFINE named == Named(cycle[c])
<1>1. /\ cycle[c] \in CycleRecord /\ Running(cycle[c]) /\ cycle[c].at = "rename"
      /\ ~At(c, "idle") /\ ~At(c, "dump")
  BY OneCycle DEF BInv, Rename, At
<1>2. Others(cycle[c].name) = snaps
  <2>1. {i \in DOMAIN snaps : snaps[i].name # cycle[c].name} = DOMAIN snaps
    BY <1>1 DEF Running, HasItsFile
  <2>. QED  BY <2>1, AllFilesLeft DEF Others, BInv, Directory
<1>3. snaps' = Append(snaps, named) /\ Goes(c, "latest") /\ UNCHANGED <<db, clock, lock, latest, repo, remote, used, acked, whole>>
  BY <1>2 DEF Rename, Named
<1>4. named \in File /\ Version(named.rows) /\ named.name = cycle[c].name
  BY <1>1, RowsAreVersion DEF Named, File, CycleRecord, Running
<1>5. snaps \in Seq(File) /\ Tree(snaps, latest) /\ latest \in Seq(Nat) \cup {Nil}
  BY DEF BInv, Directory
<1>6. \A i \in DOMAIN snaps : snaps[i].name # named.name
  BY <1>1, <1>4 DEF Running, HasItsFile
<1> HIDE DEF named
<1>7. /\ snaps' \in Seq(File) /\ Len(snaps') = Len(snaps) + 1
      /\ snaps'[Len(snaps) + 1] = named
      /\ \A i \in 1..Len(snaps) : snaps'[i] = snaps[i]
  BY <1>3, <1>4, <1>5
<1>8. Directory'
  <2>1. \A i \in DOMAIN snaps' : i \in 1..Len(snaps) \/ i = Len(snaps) + 1
    BY <1>5, <1>7
  <2>2. \A i \in DOMAIN snaps' : Version(snaps'[i].rows)
    BY <1>4, <1>5, <1>7, <2>1 DEF Tree
  <2>3. \A i, j \in DOMAIN snaps' : snaps'[i].name = snaps'[j].name => i = j
    BY <1>5, <1>6, <1>7, <2>1 DEF Tree
  <2>. QED  BY <1>3, <1>5, <1>7, <2>2, <2>3 DEF Directory, Tree
<1>9. Counts' /\ Histories' /\ AckedBackupIsRemote'
  BY <1>3 DEF BInv, Counts, Histories, AckedBackupIsRemote
<1>10. Cycles'
  <2>1. "latest" \in Position \ {"idle", "dump"}
    BY DEF Position
  <2>2. ReadsOneState(cycle[c])'
    BY <1>1, <1>3, <2>1, GoesOnReading DEF BInv
  <2>3. cycle'[c].at = "latest" /\ cycle'[c].name = cycle[c].name /\ cycle'[c].rows = cycle[c].rows
    BY <1>1, <1>3, <2>1, GoesOn DEF BInv
  <2>4. snaps' # <<>> /\ Last(snaps') = named
    BY <1>5, <1>7 DEF Last
  <2>5. HasItsFile(cycle[c])'
    BY <2>3, <2>4 DEF HasItsFile, Named, named
  <2>6. IsCarried(cycle[c])'
    BY <2>3 DEF IsCarried
  <2>. QED  BY <1>1, <1>3, <2>1, <2>2, <2>5, <2>6, CyclesGoOn DEF BInv, Running
<1>. QED  BY <1>3, <1>8, <1>9, <1>10 DEF BInv, named

LEMMA CopyLatestKeeps ==
  ASSUME BInv, NEW c \in Caller, CopyLatest(c)  PROVE BInv'
<1>1. /\ cycle[c] \in CycleRecord /\ Running(cycle[c]) /\ cycle[c].at = "latest"
      /\ ~At(c, "idle") /\ ~At(c, "dump")
  BY OneCycle DEF BInv, CopyLatest, At
<1>2. /\ latest' = cycle[c].rows /\ Goes(c, "rotate")
      /\ UNCHANGED <<db, clock, lock, snaps, repo, remote, used, acked, whole>>
  BY DEF CopyLatest
<1>3. Counts' /\ Histories' /\ AckedBackupIsRemote'
  BY <1>2 DEF BInv, Counts, Histories, AckedBackupIsRemote
<1>4. Directory'
  <2>1. cycle[c].rows \in Seq(Nat) /\ Version(cycle[c].rows)
    BY <1>1, RowsAreVersion DEF CycleRecord, Running
  <2>. QED  BY <1>2, <2>1 DEF BInv, Directory, Tree
<1>5. Cycles'
  <2>1. "rotate" \in Position \ {"idle", "dump"}
    BY DEF Position
  <2>2. ReadsOneState(cycle[c])'
    BY <1>1, <1>2, <2>1, GoesOnReading DEF BInv
  <2>3. cycle'[c].at = "rotate" /\ cycle'[c].name = cycle[c].name /\ cycle'[c].rows = cycle[c].rows
    BY <1>1, <1>2, <2>1, GoesOn DEF BInv
  <2>4. HasItsFile(cycle[c])'
    BY <1>1, <1>2, <2>3 DEF HasItsFile, Named, Running
  <2>5. IsCarried(cycle[c])'
    BY <2>3 DEF IsCarried
  <2>. QED  BY <1>1, <1>2, <2>1, <2>2, <2>4, <2>5, CyclesGoOn DEF BInv, Running
<1>. QED  BY <1>3, <1>4, <1>5 DEF BInv
\* The rotation never removes the file of its own cycle: it is the newest, and
\* at least one is kept.
LEMMA RotateKeeps ==
  ASSUME BInv, NEW c \in Caller, Rotate(c)  PROVE BInv'
<1>1. /\ cycle[c] \in CycleRecord /\ Running(cycle[c]) /\ cycle[c].at = "rotate"
      /\ ~At(c, "idle") /\ ~At(c, "dump")
  BY OneCycle DEF BInv, Rotate, At
<1>2. UNCHANGED <<db, clock, latest, repo, remote, acked, whole>>
  BY DEF Rotate
<1>3. PICK stay \in SUBSET (DOMAIN snaps \ Kept) :
        snaps' = Rotated(stay) /\ (UNCHANGED used \/ Uses("faults"))
  BY DEF Rotate
<1> DEFINE places == {i \in DOMAIN snaps : i \in Kept \cup stay}
<1>4. snaps' = FilesAt(places) /\ places \in SUBSET DOMAIN snaps
  BY <1>3 DEF Rotated
<1>5. snaps \in Seq(File) /\ Tree(snaps, latest) /\ snaps # <<>> /\ Last(snaps) = Named(cycle[c])
  BY <1>1 DEF BInv, Directory, Running, HasItsFile
<1>6. Len(snaps) \in places
  BY <1>5, BackupAssumption DEF Kept
<1> HIDE DEF places
<1>7. /\ snaps' \in Seq(File) /\ Tree(snaps', latest)
      /\ snaps' # <<>> /\ Last(snaps') = Named(cycle[c])
  BY <1>4, <1>5, <1>6, FilesLeft, TreeLeft
<1>8. Counts'
  BY <1>2, <1>3, UsesKeep DEF BInv, Counts, Bound
<1>9. Directory' /\ Histories' /\ AckedBackupIsRemote'
  <2>1. Directory'
    BY <1>2, <1>7 DEF BInv, Directory
  <2>2. Histories' /\ AckedBackupIsRemote'
    BY <1>2 DEF BInv, Histories, AckedBackupIsRemote
  <2>. QED  BY <2>1, <2>2
<1>10. Cycles'
  <2>1. CASE Ends(c)
    BY <1>1, <2>1, CyclesEnd DEF BInv
  <2>2. CASE Goes(c, "ensure") /\ UNCHANGED lock
    <3>1. "ensure" \in Position \ {"idle", "dump"}
      BY DEF Position
    <3>2. ReadsOneState(cycle[c])'
      BY <1>1, <1>2, <2>2, <3>1, GoesOnReading DEF BInv
    <3>3. cycle'[c].at = "ensure" /\ cycle'[c].name = cycle[c].name /\ cycle'[c].rows = cycle[c].rows
      BY <1>1, <2>2, <3>1, GoesOn DEF BInv
    <3>4. HasItsFile(cycle[c])'
      BY <1>1, <1>2, <1>7, <3>3 DEF HasItsFile, Named, Running
    <3>5. IsCarried(cycle[c])'
      BY <3>3 DEF IsCarried
    <3>. QED  BY <1>1, <2>2, <3>1, <3>2, <3>4, <3>5, CyclesGoOn DEF BInv, Running
  <2>. QED  BY <2>1, <2>2 DEF Rotate
<1>. QED  BY <1>8, <1>9, <1>10 DEF BInv

\* Steps of git that leave the directory as the cycle made it.
LEMMA DirectoryStays ==
  ASSUME Cycles, NEW c \in Caller, NEW p \in {"config", "adopt", "commit"},
         cycle[c].at \in {"ensure", "config", "adopt"}, Goes(c, p),
         UNCHANGED <<db, snaps, latest>>
  PROVE  ReadsOneState(cycle[c])' /\ HasItsFile(cycle[c])' /\ cycle'[c].at = p
<1>1. p \in Position \ {"idle", "dump"} /\ ~At(c, "idle") /\ ~At(c, "dump")
  BY DEF Position, At
<1>2. ReadsOneState(cycle[c])'
  BY <1>1, GoesOnReading
<1>3. cycle'[c].at = p /\ cycle'[c].name = cycle[c].name /\ cycle'[c].rows = cycle[c].rows
  BY <1>1, GoesOn
<1>4. HasItsFile(cycle[c])
  BY <1>1, OneCycle DEF Running
<1>5. HasItsFile(cycle[c])'
  BY <1>3, <1>4 DEF HasItsFile, Named
<1>. QED  BY <1>2, <1>3, <1>5

LEMMA EnsureInitializedKeeps ==
  ASSUME BInv, NEW c \in Caller, EnsureInitialized(c)  PROVE BInv'
<1>1. cycle[c].at = "ensure" /\ ~At(c, "idle")
  BY DEF EnsureInitialized, At
<1>2. UNCHANGED <<db, clock, lock, snaps, latest, remote, used, acked, whole>>
  BY DEF EnsureInitialized
<1>3. PICK p \in {"config", "commit"} : Goes(c, p) /\ (p = "config" => repo'.exists)
  BY DEF EnsureInitialized, NoRepo
<1>4. Counts' /\ Directory' /\ AckedBackupIsRemote'
  BY <1>2 DEF BInv, Counts, Directory, AckedBackupIsRemote
<1>5. Histories'
  <2>1. CASE repo.exists
    BY <1>2, <2>1 DEF EnsureInitialized, BInv, Histories
  <2>2. CASE ~repo.exists
    <3>1. repo' = [exists |-> TRUE, identity |-> FALSE, log |-> <<>>] /\ ~whole
      BY <2>2 DEF EnsureInitialized, NoRepo, BInv, Histories
    <3>. QED  BY <1>2, <3>1 DEF BInv, Histories
  <2>. QED  BY <2>1, <2>2
<1>6. Cycles'
  <2>1. ReadsOneState(cycle[c])' /\ HasItsFile(cycle[c])' /\ cycle'[c].at = p
    BY <1>1, <1>2, <1>3, DirectoryStays DEF BInv
  <2>2. IsCarried(cycle[c])'
    BY <1>3, <2>1 DEF IsCarried
  <2>3. p \in Position \ {"idle"}
    BY DEF Position
  <2>. QED  BY <1>1, <1>2, <1>3, <2>1, <2>2, <2>3, CyclesGoOn DEF BInv, Running
<1>. QED  BY <1>4, <1>5, <1>6 DEF BInv

LEMMA ConfigureKeeps ==
  ASSUME BInv, NEW c \in Caller, Configure(c)  PROVE BInv'
<1>1. cycle[c].at = "config" /\ ~At(c, "idle") /\ Goes(c, "adopt")
  BY DEF Configure, At
<1>2. UNCHANGED <<db, clock, lock, snaps, latest, remote, used, acked, whole>>
  BY DEF Configure
<1>3. repo.exists
  BY <1>1, OneCycle DEF BInv, Running, IsCarried
<1>4. repo'.exists /\ repo'.log = repo.log /\ repo' \in [exists : BOOLEAN, identity : BOOLEAN, log : Seq(CommitRecord)]
  BY <1>3 DEF Configure, BInv, Histories
<1>5. Counts' /\ Directory' /\ AckedBackupIsRemote'
  BY <1>2 DEF BInv, Counts, Directory, AckedBackupIsRemote
<1>6. Histories'
  BY <1>2, <1>4 DEF BInv, Histories
<1>7. Cycles'
  <2>1. ReadsOneState(cycle[c])' /\ HasItsFile(cycle[c])' /\ cycle'[c].at = "adopt"
    BY <1>1, <1>2, DirectoryStays DEF BInv
  <2>2. IsCarried(cycle[c])'
    BY <1>4, <2>1 DEF IsCarried
  <2>3. "adopt" \in Position \ {"idle"}
    BY DEF Position
  <2>. QED  BY <1>1, <1>2, <2>1, <2>2, <2>3, CyclesGoOn DEF BInv, Running
<1>. QED  BY <1>5, <1>6, <1>7 DEF BInv

\* The local branch starts from the remote one.
LEMMA AdoptKeeps ==
  ASSUME BInv, NEW c \in Caller, Adopt(c)  PROVE BInv'
<1>1. cycle[c].at = "adopt" /\ ~At(c, "idle") /\ Goes(c, "commit")
  BY DEF Adopt, At
<1>2. UNCHANGED <<db, clock, lock, snaps, latest, remote, acked>>
  BY DEF Adopt
<1>3. repo.exists
  BY <1>1, OneCycle DEF BInv, Running, IsCarried
<1> DEFINE first == Commit(<<>>, Nil)
<1>4. first \in CommitRecord /\ CommitOK(first)
  <2>1. first.snaps = <<>> /\ first.latest = Nil /\ first \in CommitRecord
    BY DEF Commit, CommitRecord, BInv, Counts, Bound
  <2> HIDE DEF first
  <2>. QED  BY <2>1 DEF CommitOK, Tree
<1>5. Adopted = remote \/ (remote = <<>> /\ Adopted = <<first>>)
  BY DEF Adopted
<1>6. remote \in Seq(CommitRecord) /\ \A k \in DOMAIN remote : CommitOK(remote[k])
  BY DEF BInv, Histories
<1> HIDE DEF first
<1>7. <<first>> \in Seq(CommitRecord) /\ \A k \in DOMAIN <<first>> : <<first>>[k] = first
  BY <1>4
<1>8. Adopted \in Seq(CommitRecord) /\ \A k \in DOMAIN Adopted : CommitOK(Adopted[k])
  BY <1>4, <1>5, <1>6, <1>7
<1>9. IsPrefix(remote, Adopted)
  BY <1>5, <1>6, <1>8, Pasts
<1>10. repo' = [repo EXCEPT !.log = Adopted]
  BY DEF Adopt
<1>11. Counts'
  BY <1>2, UsesKeep DEF BInv, Counts, Adopt, Bound
<1>12. Directory' /\ AckedBackupIsRemote'
  BY <1>2 DEF BInv, Directory, AckedBackupIsRemote
<1>13. Histories'
  <2>1. /\ repo'.exists /\ repo'.log = Adopted
        /\ repo' \in [exists : BOOLEAN, identity : BOOLEAN, log : Seq(CommitRecord)]
    BY <1>3, <1>8, <1>10 DEF BInv, Histories
  <2>. QED  BY <1>2, <1>6, <1>8, <1>9, <2>1 DEF Histories
<1>14. Cycles'
  <2>1. ReadsOneState(cycle[c])' /\ HasItsFile(cycle[c])' /\ cycle'[c].at = "commit"
    BY <1>1, <1>2, DirectoryStays DEF BInv
  <2>2. IsCarried(cycle[c])'
    BY <2>1 DEF IsCarried
  <2>3. "commit" \in Position \ {"idle"}
    BY DEF Position
  <2>. QED  BY <1>1, <1>2, <2>1, <2>2, <2>3, CyclesGoOn DEF BInv, Running
<1>. QED  BY <1>11, <1>12, <1>13, <1>14 DEF BInv

LEMMA CommitAllKeeps ==
  ASSUME BInv, NEW c \in Caller, CommitAll(c)  PROVE BInv'
<1> DEFINE tip == Commit(snaps, latest)
<1>1. /\ cycle[c] \in CycleRecord /\ Running(cycle[c]) /\ cycle[c].at = "commit"
      /\ ~At(c, "idle") /\ ~At(c, "dump") /\ Goes(c, "push")
  BY OneCycle DEF BInv, CommitAll, At
<1>2. UNCHANGED <<db, clock, lock, snaps, latest, remote, acked, whole>>
  BY DEF CommitAll
<1>3. snaps # <<>> /\ Last(snaps) = Named(cycle[c]) /\ latest = cycle[c].rows
  BY <1>1 DEF Running, HasItsFile
<1>4. snaps \in Seq(File) /\ latest \in Seq(Nat) \cup {Nil} /\ Tree(snaps, latest)
  BY DEF BInv, Directory
<1>5. tip \in CommitRecord /\ tip.snaps = snaps /\ tip.latest = latest
  BY <1>4 DEF Commit, CommitRecord, BInv, Counts, Bound
<1> HIDE DEF tip
<1>6. CommitOK(tip)
  BY <1>3, <1>4, <1>5 DEF CommitOK, Named
<1>7. Carries(tip, cycle[c])
  <2>1. Len(snaps) \in DOMAIN snaps /\ snaps[Len(snaps)] = Named(cycle[c])
    BY <1>3, <1>4 DEF Last
  <2>. QED  BY <1>3, <1>5, <2>1 DEF Carries
<1>8. repo' = [repo EXCEPT !.log = Append(@, tip)]
  BY DEF CommitAll, tip
<1>9. /\ repo \in [exists : BOOLEAN, identity : BOOLEAN, log : Seq(CommitRecord)]
      /\ \A k \in DOMAIN repo.log : CommitOK(repo.log[k])
      /\ remote \in Seq(CommitRecord) /\ \A k \in DOMAIN remote : CommitOK(remote[k])
      /\ whole => repo.exists /\ IsPrefix(remote, repo.log)
  BY DEF BInv, Histories
<1> DEFINE log == repo.log
           grown == Append(log, tip)
<1>10. log \in Seq(CommitRecord) /\ \A k \in DOMAIN log : CommitOK(log[k])
  BY <1>9
<1>11. repo'.log = grown /\ repo'.exists = repo.exists
  BY <1>8, <1>9
<1> HIDE DEF log
<1>12. /\ grown \in Seq(CommitRecord) /\ grown # <<>> /\ Last(grown) = tip
       /\ \A k \in DOMAIN grown : CommitOK(grown[k])
  <2>1. /\ grown \in Seq(CommitRecord) /\ Len(grown) = Len(log) + 1 /\ grown[Len(log) + 1] = tip
        /\ \A k \in 1..Len(log) : grown[k] = log[k]
    BY <1>5, <1>10
  <2> HIDE DEF grown
  <2>2. \A k \in DOMAIN grown : k \in 1..Len(log) \/ k = Len(log) + 1
    BY <1>10, <2>1
  <2>3. \A k \in DOMAIN grown : CommitOK(grown[k])
    BY <1>6, <1>10, <2>1, <2>2
  <2>. QED  BY <1>10, <2>1, <2>3 DEF Last
<1>13. whole => IsPrefix(remote, grown)
  BY <1>5, <1>9, <1>10, Pasts DEF log
<1> HIDE DEF grown
<1>14. Counts'
  BY <1>2, UsesKeep DEF BInv, Counts, CommitAll, Bound
<1>15. Directory' /\ AckedBackupIsRemote'
  BY <1>2 DEF BInv, Directory, AckedBackupIsRemote
<1>16. Histories'
  <2>1. repo' \in [exists : BOOLEAN, identity : BOOLEAN, log : Seq(CommitRecord)]
    BY <1>8, <1>9, <1>12 DEF grown, log
  <2>. QED  BY <1>2, <1>9, <1>11, <1>12, <1>13, <2>1 DEF Histories
<1>17. Cycles'
  <2>1. "push" \in Position \ {"idle", "dump"}
    BY DEF Position
  <2>2. ReadsOneState(cycle[c])'
    BY <1>1, <1>2, <2>1, GoesOnReading DEF BInv
  <2>3. cycle'[c].at = "push" /\ cycle'[c].name = cycle[c].name /\ cycle'[c].rows = cycle[c].rows
    BY <1>1, <2>1, GoesOn DEF BInv
  <2>4. HasItsFile(cycle[c])'
    BY <2>3 DEF HasItsFile
  <2>5. IsCarried(cycle[c])'
    BY <1>7, <1>11, <1>12, <2>3 DEF IsCarried, Carries, Named
  <2>. QED  BY <1>1, <1>2, <2>1, <2>2, <2>4, <2>5, CyclesGoOn DEF BInv, Running
<1>. QED  BY <1>14, <1>15, <1>16, <1>17 DEF BInv

\* What the remote repository holds, it still holds after a push.
LEMMA PushKeeps ==
  ASSUME BInv, NEW c \in Caller, Push(c)  PROVE BInv'
<1>1. /\ cycle[c] \in CycleRecord /\ Running(cycle[c]) /\ cycle[c].at = "push"
      /\ ~At(c, "idle") /\ ~At(c, "dump") /\ Goes(c, "pushed")
  BY OneCycle DEF BInv, Push, At
<1>2. /\ remote' = repo.log /\ IsPrefix(remote, repo.log)
      /\ UNCHANGED <<db, clock, lock, snaps, latest, repo, used, acked, whole>>
  BY DEF Push, FastForward
<1> DEFINE log == repo.log
<1>3. /\ log \in Seq(CommitRecord) /\ \A k \in DOMAIN log : CommitOK(log[k])
      /\ remote \in Seq(CommitRecord)
  BY DEF BInv, Histories
<1>4. log # <<>> /\ Carries(Last(log), cycle[c])
  BY <1>1 DEF Running, IsCarried
<1>5. remote' = log /\ IsPrefix(remote, log)
  BY <1>2
<1> HIDE DEF log
<1>6. \A k \in DOMAIN remote : k \in DOMAIN remote' /\ remote'[k] = remote[k]
  BY <1>3, <1>5, Pasts
<1>7. Counts' /\ Directory'
  BY <1>2 DEF BInv, Counts, Directory
<1>8. AckedBackupIsRemote'
  BY <1>2, <1>6 DEF BInv, AckedBackupIsRemote
<1>9. Histories'
  <2>1. IsPrefix(log, log)
    BY <1>3, Pasts
  <2>. QED  BY <1>2, <1>3, <1>5, <2>1 DEF BInv, Histories, log
<1>10. Cycles'
  <2>1. "pushed" \in Position \ {"idle", "dump"}
    BY DEF Position
  <2>2. ReadsOneState(cycle[c])'
    BY <1>1, <1>2, <2>1, GoesOnReading DEF BInv
  <2>3. cycle'[c].at = "pushed" /\ cycle'[c].name = cycle[c].name /\ cycle'[c].rows = cycle[c].rows
    BY <1>1, <2>1, GoesOn DEF BInv
  <2>4. HasItsFile(cycle[c])'
    BY <2>3 DEF HasItsFile
  <2>5. Len(log) \in DOMAIN log /\ Carries(log[Len(log)], cycle[c])
    BY <1>3, <1>4 DEF Last
  <2>6. IsCarried(cycle[c])'
    BY <1>5, <2>3, <2>5 DEF IsCarried, Carries, Named
  <2>. QED  BY <1>1, <1>2, <2>1, <2>2, <2>4, <2>6, CyclesGoOn DEF BInv, Running
<1>. QED  BY <1>7, <1>8, <1>9, <1>10 DEF BInv

LEMMA SucceedKeeps ==
  ASSUME BInv, NEW c \in Caller, Succeed(c)  PROVE BInv'
<1>1. /\ cycle[c] \in CycleRecord /\ Running(cycle[c]) /\ cycle[c].at = "pushed"
      /\ ~At(c, "idle")
  BY OneCycle DEF BInv, Succeed, At
<1>2. UNCHANGED <<db, clock, snaps, latest, repo, remote, used, whole>>
  BY DEF Succeed
<1> DEFINE new == [name |-> cycle[c].name, rows |-> cycle[c].rows, began |-> cycle[c].began]
<1>3. acked' = acked \cup {new}
  BY DEF Succeed
<1>4. new.rows[1] >= new.began
  BY <1>1, BackupAssumption DEF Running, ReadsOneState, CycleRecord
<1>5. \E k \in DOMAIN remote :
        /\ remote[k].latest = new.rows
        /\ \E i \in DOMAIN remote[k].snaps :
             remote[k].snaps[i] = [name |-> new.name, rows |-> new.rows]
  BY <1>1 DEF Running, IsCarried, Carries, Named
<1> HIDE DEF new
<1>6. AckedBackupIsRemote'
  BY <1>2, <1>3, <1>4, <1>5 DEF BInv, AckedBackupIsRemote
<1>7. Counts' /\ Directory' /\ Histories'
  BY <1>2 DEF BInv, Counts, Directory, Histories
<1>8. Cycles'
  BY <1>1, CyclesEnd DEF BInv, Succeed
<1>. QED  BY <1>6, <1>7, <1>8 DEF BInv

LEMMA FailKeeps ==
  ASSUME BInv, NEW c \in Caller, Fail(c)  PROVE BInv'
<1>1. UNCHANGED <<db, clock, snaps, latest, repo, remote, acked, whole>> /\ ~At(c, "idle") /\ Ends(c)
  BY DEF Fail, Raises
<1>2. Counts'
  BY <1>1, UsesKeep DEF BInv, Counts, Fail, Bound
<1>3. Directory' /\ Histories' /\ AckedBackupIsRemote'
  BY <1>1 DEF BInv, Directory, Histories, AckedBackupIsRemote
<1>4. Cycles'
  BY <1>1, CyclesEnd DEF BInv
<1>. QED  BY <1>2, <1>3, <1>4 DEF BInv

\* Transactions and minutes that pass: a snapshot does not get any older.
LEMMA TimePasses ==
  ASSUME BInv, Write \/ Minute  PROVE BInv'
<1>1. /\ UNCHANGED <<lock, cycle, snaps, latest, repo, remote, used, acked, whole>>
      /\ db' \in Nat /\ db' >= db /\ clock' \in 0..MaxClock
  BY BackupAssumption DEF Write, Minute, BInv, Counts
<1>2. Counts' /\ Directory' /\ Histories' /\ AckedBackupIsRemote'
  <2>1. Counts' /\ Directory'
    BY <1>1 DEF BInv, Counts, Directory
  <2>2. Histories' /\ AckedBackupIsRemote'
    BY <1>1 DEF BInv, Histories, AckedBackupIsRemote
  <2>. QED  BY <2>1, <2>2
<1>3. Cycles'
  <2> SUFFICES ASSUME NEW c \in Caller, cycle[c] # Idle
               PROVE  lock = c /\ Running(cycle[c])'
    BY <1>1 DEF BInv, Cycles
  <2>1. cycle[c] \in CycleRecord /\ lock = c /\ Running(cycle[c])
    BY DEF BInv, Cycles
  <2>2. ReadsOneState(cycle[c])'
    BY <1>1, <2>1 DEF Running, ReadsOneState, CycleRecord, BInv, Counts
  <2>3. HasItsFile(cycle[c])' /\ IsCarried(cycle[c])'
    BY <1>1, <2>1 DEF Running, HasItsFile, IsCarried
  <2>. QED  BY <2>1, <2>2, <2>3 DEF Running
<1>. QED  BY <1>2, <1>3 DEF BInv

LEMMA CrashKeeps == ASSUME BInv, Crash  PROVE BInv'
<1>1. UNCHANGED <<db, clock, snaps, latest, repo, remote, acked, whole>>
  BY DEF Crash
<1>2. Counts'
  BY <1>1, UsesKeep DEF BInv, Counts, Crash, Bound
<1>3. Directory' /\ Histories' /\ AckedBackupIsRemote'
  BY <1>1 DEF BInv, Directory, Histories, AckedBackupIsRemote
<1>4. Cycles'
  BY DEF Crash, Cycles
<1>. QED  BY <1>2, <1>3, <1>4 DEF BInv

LEMMA RedeployKeeps == ASSUME BInv, Redeploy  PROVE BInv'
<1>1. /\ UNCHANGED <<clock, remote, acked>> /\ db' \in 0..db
      /\ snaps' = <<>> /\ latest' = Nil /\ repo' = NoRepo /\ ~whole'
  BY DEF Redeploy
<1>2. Counts'
  BY <1>1, UsesKeep DEF BInv, Counts, Redeploy, Bound
<1>3. Directory'
  BY <1>1 DEF Directory, Tree
<1>4. Histories' /\ AckedBackupIsRemote'
  BY <1>1 DEF BInv, Histories, AckedBackupIsRemote, NoRepo
<1>5. Cycles'
  BY DEF Redeploy, Cycles
<1>. QED  BY <1>2, <1>3, <1>4, <1>5 DEF BInv

LEMMA StepBInv == BInv /\ [BackupNext]_backupVars => BInv'
<1> SUFFICES ASSUME BInv, [BackupNext]_backupVars  PROVE BInv'
  OBVIOUS
<1>1. CASE UNCHANGED backupVars
  <2>1. UNCHANGED <<db, clock, lock, cycle, snaps, latest, repo, remote, used, acked, whole>>
    BY <1>1 DEF backupVars
  <2>2. Counts' /\ Directory'
    BY <2>1 DEF BInv, Counts, Directory
  <2>3. Histories' /\ AckedBackupIsRemote'
    BY <2>1 DEF BInv, Histories, AckedBackupIsRemote
  <2>4. Cycles'
    BY <2>1 DEF BInv, Cycles, Running, ReadsOneState, HasItsFile, IsCarried
  <2>. QED  BY <2>2, <2>3, <2>4 DEF BInv
<1>2. ASSUME NEW c \in Caller, Step(c)  PROVE BInv'
  BY <1>2, StartKeeps, ReadTableKeeps, RenameKeeps, CopyLatestKeeps, RotateKeeps,
     EnsureInitializedKeeps, ConfigureKeeps, AdoptKeeps, CommitAllKeeps, PushKeeps,
     SucceedKeeps, FailKeeps DEF Step
<1>3. CASE Write \/ Minute \/ Crash \/ Redeploy
  BY <1>3, TimePasses, CrashKeeps, RedeployKeeps
<1>. QED  BY <1>1, <1>2, <1>3 DEF BackupNext

\* Whatever is committed while a snapshot is read and wherever a cycle ends,
\* the files of the directory and of every commit at the remote repository are
\* complete and of one state (service.py, write_database_snapshot).
THEOREM FilesAreWhole == BackupSpec => []SnapshotsAreWhole
<1>1. BInv => SnapshotsAreWhole
  BY DEF BInv, Directory, Histories, CommitOK, SnapshotsAreWhole
<1>. QED  BY <1>1, InitBInv, StepBInv, PTL DEF BackupSpec

\* A reported success is in the remote repository, under its name and as the
\* latest of its commit, and holds what was committed before it began
\* (service.py, run_backup_cycle; git_remote.py, commit_and_push).
THEOREM AcknowledgedIsRestorable == BackupSpec => []AckedBackupIsRemote
<1>1. BInv => AckedBackupIsRemote
  BY DEF BInv
<1>. QED  BY <1>1, InitBInv, StepBInv, PTL DEF BackupSpec

\* In a commit at the remote repository the latest file is the newest named
\* one, also after cycles that failed between the two (service.py).
THEOREM LatestAgrees == BackupSpec => []LatestIsNewest
<1>1. BInv => LatestIsNewest
  BY DEF BInv, Histories, CommitOK, LatestIsNewest
<1>. QED  BY <1>1, InitBInv, StepBInv, PTL DEF BackupSpec

\* On a disk whose repository was initialised to the end the remote branch is
\* a past of the local one: the next push is a fast-forward (git_remote.py).
THEOREM PushesFastForward == BackupSpec => []NextPushIsAccepted
<1>1. BInv => NextPushIsAccepted
  BY DEF BInv, Histories, NextPushIsAccepted
<1>. QED  BY <1>1, InitBInv, StepBInv, PTL DEF BackupSpec

\* The rename at the end of a snapshot never replaces a file: two cycles of the
\* same minute get names of their own (service.py, _unique_snapshot_timestamp).
THEOREM NothingIsReplaced ==
  BackupSpec => [][\A c \in Caller : Rename(c) => snaps' = Append(snaps, Named(cycle[c]))]_backupVars
<1>1. BInv /\ [BackupNext]_backupVars =>
        [\A c \in Caller : Rename(c) => snaps' = Append(snaps, Named(cycle[c]))]_backupVars
  BY RenameKeeps
<1>. QED  BY <1>1, InitBInv, StepBInv, PTL DEF BackupSpec
=============================================================================
