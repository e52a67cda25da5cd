------------------------- MODULE MirrorOutboxProofs -------------------------
(***************************************************************************)
(* For any rows, references, batch size and number of failures, deaths and *)
(* boots: a row that was not disturbed is current once its queue is empty, *)
(* and Neon refuses a child only after trouble with it or with its parent. *)
(* What is marked delivered was committed.  While Neon answers, the mirror *)
(* implements Replica.                                                     *)
(***************************************************************************)
EXTENDS MirrorOutbox, TLAPS

\* The latest queued write of an undisturbed row is its local contents.
LatestIsLocal ==
  process # "lost" =>
    \A i \in Undelivered :
      /\ Undisturbed(outbox[i].row)
      /\ \A j \in Undelivered : outbox[j].row = outbox[i].row => j <= i
      => outbox[i].val = local[outbox[i].row]

\* The batch is the front of the queue, but for rows that were troubled.
BatchIsFront ==
  /\ batch \subseteq Undelivered
  /\ \A i \in batch : outbox[i].retries < MaxRetries
  /\ \A i \in batch, j \in Undelivered \ batch : outbox[j].row \notin troubled => i < j

\* An untroubled row never waits for a backoff and is never given up.
UntroubledIsEligible ==
  \A j \in Undelivered :
    outbox[j].row \notin troubled => ~outbox[j].error /\ outbox[j].retries = 0

\* What Neon said it did.
AnswerIsTrue ==
  /\ batch = {} => answer = "none"
  /\ process # "up" => batch = {}
  /\ \A i \in batch : IsNext(i) /\ answer = "ok" => mirror[outbox[i].row] = outbox[i].val

\* When the dispatcher comes to write i, row r will be absent (gone) or not.
StandsAt(i, r, gone) ==
  /\ (\A j \in Undelivered : outbox[j].row = r => i < j) => ((mirror[r] = None) <=> gone)
  /\ \A j \in Undelivered :
       outbox[j].row = r /\ j < i =>
         \/ (outbox[j].val = None) <=> gone
         \/ \E k \in Undelivered : outbox[k].row = r /\ j < k /\ k < i

\* A child is queued between the creation and the deletion of its parent.
ParentsFirst ==
  \A i \in Undelivered, c \in Row :
    Parent[c] # None /\ Undisturbed(c) =>
      /\ outbox[i].row = c /\ outbox[i].val # None => StandsAt(i, Parent[c], FALSE)
      /\ outbox[i].row = Parent[c] /\ outbox[i].val = None => StandsAt(i, c, TRUE)

\* UndisturbedRowIsCurrent alone is not inductive: it says nothing of the
\* writes that are still queued, nor of the order in which they will be taken.
IInv ==
  /\ TypeOK
  /\ UndisturbedRowIsCurrent
  /\ LatestIsLocal
  /\ BatchIsFront
  /\ UntroubledIsEligible
  /\ AnswerIsTrue
  /\ ParentsFirst

-----------------------------------------------------------------------------

\* Roots are disturbed only by themselves.
LEMMA UndisturbedParent ==
  ASSUME TypeOK, NEW c \in Row, Parent[c] # None, Undisturbed(c)
  PROVE  Parent[c] \in Row /\ Parent[c] # c /\ Undisturbed(Parent[c]) /\ c \notin troubled
                           /\ Parent[Parent[c]] = None
BY RowAssumption DEF TypeOK, Undisturbed

\* The queue holds entries under numbered ids.
LEMMA QueueType ==
  ASSUME TypeOK
  PROVE  /\ last \in Nat
         /\ Undelivered \subseteq DOMAIN outbox
         /\ \A i \in DOMAIN outbox :
              i \in Nat /\ i <= last /\ outbox[i].row \in Row
              /\ outbox[i].val \in Val \union {None} /\ outbox[i].retries \in Nat
BY RetryAssumption DEF TypeOK, Undelivered, Entry

\* The bounds of the model.
LEMMA SpendType ==
  ASSUME TypeOK,
         NEW kind \in {"failures", "errors", "kills", "losses", "stops", "requeues"},
         Spend(kind)
  PROVE  spare' \in [{"failures", "errors", "kills", "losses", "stops", "requeues"} -> Nat]
<1>1. spare[kind] \in Nat /\ spare[kind] > 0
  BY DEF TypeOK, Spend
<1>2. spare[kind] - 1 \in Nat
  BY <1>1
<1>. QED  BY <1>2 DEF TypeOK, Spend

\* Nothing of an untroubled row is queued before the write that is taken next.
LEMMA NextIsOldest ==
  ASSUME IInv, NEW i, IsNext(i), NEW j \in Undelivered, outbox[j].row \notin troubled
  PROVE  i \in Undelivered /\ i <= j
<1>1. i \in Nat /\ j \in Nat
  BY QueueType DEF IInv, BatchIsFront, IsNext
<1>. QED  BY <1>1 DEF IInv, BatchIsFront, IsNext

\* Steps that leave the queue and both databases alone.
LEMMA SameQueue ==
  ASSUME IInv, TypeOK', local' = local, mirror' = mirror,
         troubled \subseteq troubled', process' = "lost" <=> process = "lost",
         Undelivered' = Undelivered,
         \A j \in Undelivered : outbox'[j].row = outbox[j].row /\ outbox'[j].val = outbox[j].val
  PROVE  UndisturbedRowIsCurrent' /\ LatestIsLocal' /\ ParentsFirst'
<1>1. \A r : Undisturbed(r)' => Undisturbed(r)
  BY DEF Undisturbed
<1>2. UndisturbedRowIsCurrent'
  BY <1>1 DEF IInv, UndisturbedRowIsCurrent
<1>3. LatestIsLocal'
  BY <1>1 DEF IInv, LatestIsLocal
<1>4. ASSUME NEW i, NEW r, NEW gone, StandsAt(i, r, gone)
      PROVE  StandsAt(i, r, gone)'
  BY <1>4 DEF StandsAt
<1>5. ParentsFirst'
  BY <1>1, <1>4 DEF IInv, ParentsFirst
<1>. QED  BY <1>2, <1>3, <1>5

LEMMA DrainKeeps == IInv /\ Drain => IInv'
<1>. SUFFICES ASSUME IInv, Drain PROVE IInv'
  OBVIOUS
<1>1. TypeOK'
  BY DEF IInv, TypeOK, Drain, Drained, Eligible, Undelivered
<1>2. Undelivered' = Undelivered
  BY DEF Drain, Undelivered
<1>3. UndisturbedRowIsCurrent' /\ LatestIsLocal' /\ ParentsFirst'
  BY <1>1, <1>2, SameQueue DEF Drain
<1>4. UntroubledIsEligible'
  BY <1>2 DEF IInv, UntroubledIsEligible, Drain
<1>5. AnswerIsTrue'
  BY DEF IInv, AnswerIsTrue, Drain
<1>6. BatchIsFront'
  <2>1. PICK b \in SUBSET Eligible : Drained(b) /\ batch' = b
    BY DEF Drain
  <2>2. batch' \subseteq Undelivered'
    BY <1>2, <2>1 DEF Eligible
  <2>3. ASSUME NEW i \in batch', NEW j \in Undelivered' \ batch', outbox[j].row \notin troubled
        PROVE  i < j
    <3>1. j \in Eligible
      BY <1>2, <2>3, RetryAssumption DEF IInv, UntroubledIsEligible, Eligible
    <3>. QED  BY <2>1, <2>3, <3>1 DEF Drained
  <2>4. \A i \in batch' : outbox'[i].retries < MaxRetries
    BY <2>1 DEF Eligible, Drain
  <2>. QED  BY <1>2, <2>2, <2>3, <2>4 DEF BatchIsFront, Drain
<1>. QED  BY <1>1, <1>3, <1>4, <1>5, <1>6 DEF IInv

\* Steps of the process that forget the batch.
LEMMA ForgetKeeps ==
  ASSUME IInv, UNCHANGED <<local, outbox, mirror, last, troubled>>, TypeOK',
         batch' = {}, answer' = "none", process' = "lost" <=> process = "lost"
  PROVE  IInv'
<1>1. Undelivered' = Undelivered
  BY DEF Undelivered
<1>2. UndisturbedRowIsCurrent' /\ LatestIsLocal' /\ ParentsFirst'
  BY <1>1, SameQueue
<1>3. UntroubledIsEligible'
  BY <1>1 DEF IInv, UntroubledIsEligible
<1>. QED  BY <1>2, <1>3 DEF IInv, AnswerIsTrue, BatchIsFront

LEMMA ProcessKeeps == IInv /\ (IterationFails \/ Stop \/ Kill) => IInv'
<1>. SUFFICES ASSUME IInv, IterationFails \/ Stop \/ Kill PROVE IInv'
  OBVIOUS
<1>1. TypeOK'
  <2>1. spare' \in [{"failures", "errors", "kills", "losses", "stops", "requeues"} -> Nat]
    BY SpendType DEF IInv, IterationFails, Stop, Kill
  <2>. QED  BY <2>1 DEF IInv, TypeOK, IterationFails, Stop, Kill, Answer, ProcessState
<1>2. CASE IterationFails
  BY <1>1, <1>2, ForgetKeeps DEF IterationFails
<1>3. CASE Kill
  BY <1>1, <1>3, ForgetKeeps DEF Kill, Serving
<1>4. CASE Stop
  BY <1>1, <1>4, ForgetKeeps DEF Stop, Serving, IInv, AnswerIsTrue
<1>. QED  BY <1>2, <1>3, <1>4

\* Steps that change flags of entries that are queued and stay queued.
LEMMA FlagsKeep ==
  ASSUME IInv, TypeOK', UNCHANGED <<local, mirror, process, last>>,
         Undelivered' = Undelivered, troubled \subseteq troubled',
         \A j \in Undelivered : outbox'[j].row = outbox[j].row /\ outbox'[j].val = outbox[j].val,
         \A j \in Undelivered : outbox[j].row \notin troubled' =>
            outbox'[j].error = outbox[j].error /\ outbox'[j].retries = outbox[j].retries
  PROVE  /\ UndisturbedRowIsCurrent' /\ LatestIsLocal' /\ ParentsFirst'
         /\ UntroubledIsEligible'
<1>1. UndisturbedRowIsCurrent' /\ LatestIsLocal' /\ ParentsFirst'
  BY SameQueue
<1>2. UntroubledIsEligible'
  BY DEF IInv, UntroubledIsEligible
<1>. QED  BY <1>1, <1>2

LEMMA RequeueKeeps == IInv /\ Requeue => IInv'
<1>. SUFFICES ASSUME IInv, Requeue PROVE IInv'
  OBVIOUS
<1>1. /\ DOMAIN outbox' = DOMAIN outbox
      /\ \A j \in DOMAIN outbox :
           /\ outbox'[j] \in Entry
           /\ outbox'[j].row = outbox[j].row /\ outbox'[j].val = outbox[j].val
           /\ outbox'[j].delivered = outbox[j].delivered
           /\ j \notin Dead => outbox'[j] = outbox[j]
  <2>1. DOMAIN outbox' = DOMAIN outbox
    BY DEF Requeue
  <2>2. ASSUME NEW j \in DOMAIN outbox, j \in Dead
        PROVE  /\ outbox'[j] \in Entry
               /\ outbox'[j].row = outbox[j].row /\ outbox'[j].val = outbox[j].val
               /\ outbox'[j].delivered = outbox[j].delivered
    <3>1. outbox'[j] = [outbox[j] EXCEPT !.retries = 0, !.error = FALSE]
      BY <2>2 DEF Requeue
    <3>2. outbox[j] \in Entry /\ 0 \in 0..MaxRetries
      BY RetryAssumption DEF IInv, TypeOK
    <3>. QED  BY <3>1, <3>2 DEF Entry
  <2>3. ASSUME NEW j \in DOMAIN outbox, j \notin Dead
        PROVE  outbox'[j] = outbox[j] /\ outbox[j] \in Entry
    BY <2>3 DEF Requeue, IInv, TypeOK
  <2>. QED  BY <2>1, <2>2, <2>3
<1>2. TypeOK'
  BY <1>1, SpendType DEF IInv, TypeOK, Requeue
<1>3. Undelivered' = Undelivered
  BY <1>1 DEF Undelivered
<1>4. \A j \in Dead : outbox[j].row \in troubled
  BY RetryAssumption DEF IInv, UntroubledIsEligible, Dead
<1>5. UndisturbedRowIsCurrent' /\ LatestIsLocal' /\ ParentsFirst' /\ UntroubledIsEligible'
  BY <1>1, <1>2, <1>3, <1>4, QueueType, FlagsKeep DEF Requeue, IInv
<1>6. AnswerIsTrue'
  <2>1. /\ batch' = batch /\ answer' = answer /\ mirror' = mirror /\ process' = process
        /\ batch \subseteq DOMAIN outbox
    BY DEF IInv, TypeOK, Requeue
  <2>2. \A i \in batch : outbox'[i].row = outbox[i].row /\ outbox'[i].val = outbox[i].val
    BY <1>1, <2>1
  <2>. QED  BY <2>1, <2>2 DEF IInv, AnswerIsTrue, IsNext
<1>7. BatchIsFront'
  <2>1. \A i \in batch : i \notin Dead /\ i \in DOMAIN outbox
    BY QueueType, RetryAssumption DEF IInv, BatchIsFront, Dead
  <2>2. /\ batch' = batch /\ troubled' = troubled /\ batch \subseteq DOMAIN outbox
        /\ Undelivered \subseteq DOMAIN outbox
    BY QueueType DEF IInv, TypeOK, Requeue
  <2>3. \A i \in batch : outbox'[i] = outbox[i]
    BY <1>1, <2>1
  <2>4. \A j \in Undelivered : outbox'[j].row = outbox[j].row
    BY <1>1, <2>2
  <2>. QED  BY <1>3, <2>2, <2>3, <2>4 DEF IInv, BatchIsFront
<1>. QED  BY <1>2, <1>5, <1>6, <1>7 DEF IInv

LEMMA BackoffKeeps == ASSUME NEW i \in DOMAIN outbox PROVE IInv /\ BackoffElapses(i) => IInv'
<1>. SUFFICES ASSUME IInv, BackoffElapses(i) PROVE IInv'
  OBVIOUS
<1>1. /\ DOMAIN outbox' = DOMAIN outbox
      /\ \A j \in DOMAIN outbox :
           /\ outbox'[j] \in Entry
           /\ outbox'[j].row = outbox[j].row /\ outbox'[j].val = outbox[j].val
           /\ outbox'[j].delivered = outbox[j].delivered
           /\ outbox'[j].error = outbox[j].error /\ outbox'[j].retries = outbox[j].retries
  BY DEF IInv, TypeOK, BackoffElapses, Entry
<1>2. TypeOK'
  BY <1>1 DEF IInv, TypeOK, BackoffElapses
<1>3. Undelivered' = Undelivered
  BY <1>1 DEF Undelivered
<1>5. UndisturbedRowIsCurrent' /\ LatestIsLocal' /\ ParentsFirst' /\ UntroubledIsEligible'
  BY <1>1, <1>2, <1>3, QueueType, FlagsKeep DEF BackoffElapses, IInv
<1>6. AnswerIsTrue' /\ BatchIsFront'
  BY <1>1, <1>3, QueueType DEF IInv, AnswerIsTrue, BatchIsFront, IsNext, BackoffElapses
<1>. QED  BY <1>2, <1>5, <1>6 DEF IInv

LEMMA MarkFailedKeeps == ASSUME NEW i \in batch PROVE IInv /\ MarkFailed(i) => IInv'
<1>. SUFFICES ASSUME IInv, MarkFailed(i) PROVE IInv'
  OBVIOUS
<1>0. i \in DOMAIN outbox /\ outbox[i] \in Entry /\ i \in Undelivered
  BY DEF IInv, TypeOK, BatchIsFront
<1>. PICK due \in BOOLEAN :
       outbox' = [outbox EXCEPT
         ![i].retries = IF answer = "permanent" THEN MaxRetries ELSE @ + 1,
         ![i].error = TRUE,
         ![i].due = due]
  BY DEF MarkFailed
<1>a. ASSUME answer # "permanent" PROVE outbox[i].retries + 1 \in 0..MaxRetries
  <2>1. outbox[i].retries \in 0..MaxRetries /\ outbox[i].retries < MaxRetries
    BY <1>0 DEF Entry, IInv, BatchIsFront
  <2>. QED  BY <2>1, RetryAssumption
<1>1. /\ DOMAIN outbox' = DOMAIN outbox
      /\ outbox'[i] \in Entry
      /\ outbox'[i].row = outbox[i].row /\ outbox'[i].val = outbox[i].val
      /\ outbox'[i].delivered = outbox[i].delivered
      /\ \A j \in DOMAIN outbox : j # i => outbox'[j] = outbox[j]
  BY <1>0, <1>a, RetryAssumption DEF Entry
<1>2. TypeOK'
  BY <1>0, <1>1 DEF IInv, TypeOK, MarkFailed, Answer, Entry
<1>3. Undelivered' = Undelivered
  BY <1>1 DEF Undelivered
<1>4. troubled' = troubled \union {outbox[i].row}
  BY DEF MarkFailed
<1>5. UndisturbedRowIsCurrent' /\ LatestIsLocal' /\ ParentsFirst' /\ UntroubledIsEligible'
  BY <1>1, <1>2, <1>3, <1>4, QueueType, FlagsKeep DEF MarkFailed, IInv
<1>6. AnswerIsTrue'
  BY DEF IInv, AnswerIsTrue, MarkFailed
<1>7. BatchIsFront'
  <2>1. batch' = batch \ {i} /\ BatchIsFront
    BY DEF IInv, MarkFailed
  <2>2. /\ \A j \in Undelivered : outbox'[j].row = outbox[j].row
        /\ \A j \in batch' : outbox'[j] = outbox[j]
    BY <1>1, <2>1 DEF BatchIsFront, Undelivered
  <2>3. \A k \in batch', j \in Undelivered \ batch' : outbox[j].row \notin troubled' => k < j
    BY <1>4, <2>1 DEF BatchIsFront
  <2>. QED  BY <1>3, <2>1, <2>2, <2>3 DEF BatchIsFront
<1>. QED  BY <1>2, <1>5, <1>6, <1>7 DEF IInv

\* A write leaves the queue: it was the oldest of its row, so it stands in the
\* mirror and the later ones of the row are still to come.
LEMMA MarkDeliveredKeeps == ASSUME NEW i \in batch PROVE IInv /\ MarkDelivered(i) => IInv'
<1>. SUFFICES ASSUME IInv, MarkDelivered(i) PROVE IInv'
  OBVIOUS
<1>0. /\ i \in DOMAIN outbox /\ outbox[i] \in Entry /\ i \in Undelivered
      /\ IsNext(i) /\ answer = "ok"
      /\ outbox[i].row \in Row /\ mirror[outbox[i].row] = outbox[i].val
  BY QueueType DEF IInv, TypeOK, BatchIsFront, MarkDelivered, AnswerIsTrue
<1>1. /\ DOMAIN outbox' = DOMAIN outbox
      /\ outbox'[i] \in Entry /\ outbox'[i].delivered
      /\ \A j \in DOMAIN outbox : j # i => outbox'[j] = outbox[j]
  BY <1>0 DEF Entry, MarkDelivered
<1>2. TypeOK'
  BY <1>0, <1>1 DEF IInv, TypeOK, MarkDelivered, Answer
<1>3. Undelivered' = Undelivered \ {i}
  BY <1>0, <1>1 DEF Undelivered
<1>4. /\ \A j \in Undelivered' : outbox'[j] = outbox[j]
      /\ \A j \in Undelivered : j \in Nat /\ outbox[j].row \in Row
      /\ i \in Nat
  BY <1>0, <1>1, <1>3, QueueType DEF IInv
<1>5. /\ local' = local /\ mirror' = mirror /\ process' = process
      /\ troubled' = troubled /\ batch' = batch \ {i} /\ answer' = "none"
      /\ \A r : Undisturbed(r)' <=> Undisturbed(r)
  BY DEF MarkDelivered, Undisturbed
<1>6. \A j \in Undelivered : outbox[j].row \notin troubled => i <= j
  BY <1>0, NextIsOldest
<1>7. UndisturbedRowIsCurrent'
  <2>1. SUFFICES ASSUME process # "lost", NEW r \in Row, Undisturbed(r),
                        \A j \in Undelivered \ {i} : outbox[j].row # r
                 PROVE  mirror[r] = local[r]
    BY <1>3, <1>4, <1>5 DEF UndisturbedRowIsCurrent
  <2>2. CASE outbox[i].row = r
    BY <1>0, <1>4, <2>1, <2>2 DEF IInv, LatestIsLocal
  <2>3. CASE outbox[i].row # r
    BY <2>1, <2>3 DEF IInv, UndisturbedRowIsCurrent
  <2>. QED  BY <2>2, <2>3
<1>8. LatestIsLocal'
  <2>1. SUFFICES ASSUME process # "lost", NEW j \in Undelivered \ {i},
                        Undisturbed(outbox[j].row),
                        \A k \in Undelivered \ {i} : outbox[k].row = outbox[j].row => k <= j
                 PROVE  outbox[j].val = local[outbox[j].row]
    BY <1>3, <1>4, <1>5 DEF LatestIsLocal
  <2>2. i <= j
    BY <1>6, <2>1 DEF Undisturbed
  <2>. QED  BY <2>1, <2>2 DEF IInv, LatestIsLocal
<1>9. ASSUME NEW j \in Undelivered \ {i}, NEW r \in Row, r \notin troubled,
             NEW gone \in BOOLEAN, StandsAt(j, r, gone)
      PROVE  StandsAt(j, r, gone)'
  <2>1. ASSUME \A k \in Undelivered \ {i} : outbox[k].row = r => j < k
        PROVE  (mirror[r] = None) <=> gone
    <3>1. CASE outbox[i].row = r /\ i < j
      BY <1>0, <1>4, <1>9, <2>1, <3>1 DEF StandsAt
    <3>2. CASE ~(outbox[i].row = r /\ i < j)
      BY <1>0, <1>4, <1>9, <2>1, <3>2 DEF StandsAt
    <3>. QED  BY <3>1, <3>2
  <2>2. ASSUME NEW k \in Undelivered \ {i}, outbox[k].row = r, k < j
        PROVE  \/ (outbox[k].val = None) <=> gone
               \/ \E m \in Undelivered \ {i} : outbox[m].row = r /\ k < m /\ m < j
    <3>1. i <= k
      BY <1>6, <1>9, <2>2
    <3>. QED  BY <1>4, <1>9, <2>2, <3>1 DEF StandsAt
  <2>. QED  BY <1>3, <1>4, <1>5, <2>1, <2>2 DEF StandsAt
<1>10. ParentsFirst'
  <2>1. \A j \in Undelivered' : j \in Undelivered \ {i} /\ outbox'[j] = outbox[j]
    BY <1>3, <1>4
  <2>2. ASSUME NEW c \in Row, Parent[c] # None, Undisturbed(c)
        PROVE  Parent[c] \in Row /\ Parent[c] \notin troubled /\ c \notin troubled
    BY <2>2, UndisturbedParent DEF IInv, Undisturbed
  <2>. QED  BY <1>5, <1>9, <2>1, <2>2 DEF IInv, ParentsFirst
<1>11. UntroubledIsEligible'
  BY <1>3, <1>4, <1>5 DEF IInv, UntroubledIsEligible
<1>12. AnswerIsTrue'
  BY <1>5 DEF IInv, AnswerIsTrue
<1>13. BatchIsFront'
  <2>1. batch \subseteq Undelivered
    BY DEF IInv, BatchIsFront
  <2>. QED  BY <1>3, <1>4, <1>5, <2>1 DEF IInv, BatchIsFront
<1>. QED  BY <1>2, <1>7, <1>8, <1>10, <1>11, <1>12, <1>13 DEF IInv

\* Neon commits the next write.
LEMMA AppliedKeeps ==
  ASSUME IInv, NEW i \in batch, IsNext(i), TypeOK',
         mirror' = Applied(outbox[i].row, outbox[i].val),
         UNCHANGED <<local, outbox, troubled, process>>
  PROVE  UndisturbedRowIsCurrent' /\ LatestIsLocal' /\ ParentsFirst'
<1>0. i \in Undelivered /\ Undelivered' = Undelivered /\ outbox[i].row \in Row
  BY QueueType DEF IInv, BatchIsFront, Undelivered
<1>1. \A j \in Undelivered : j \in Nat /\ outbox[j].row \in Row
  BY QueueType DEF IInv
<1>2. \A j \in Undelivered : outbox[j].row \notin troubled => i <= j
  BY NextIsOldest
<1>3. \A r : Undisturbed(r)' <=> Undisturbed(r)
  BY DEF Undisturbed
\* What the cascade removes is absent already, unless it was disturbed.
<1>4. ASSUME NEW r \in Row, Undisturbed(r), r # outbox[i].row,
             \A j \in Undelivered : outbox[j].row = r => i < j
      PROVE  mirror'[r] = mirror[r]
  <2>1. CASE outbox[i].val = None /\ Parent[r] = outbox[i].row
    <3>1. Parent[r] # None
      BY <1>0, <2>1, RowAssumption
    <3>2. StandsAt(i, r, TRUE)
      BY <1>0, <1>4, <2>1, <3>1 DEF IInv, ParentsFirst
    <3>. QED  BY <1>4, <2>1, <3>2 DEF StandsAt, Applied
  <2>2. CASE ~(outbox[i].val = None /\ Parent[r] = outbox[i].row)
    BY <1>4, <2>2 DEF Applied
  <2>. QED  BY <2>1, <2>2
<1>5. UndisturbedRowIsCurrent'
  <2>1. SUFFICES ASSUME process # "lost", NEW r \in Row, Undisturbed(r),
                        \A j \in Undelivered : outbox[j].row # r
                 PROVE  mirror'[r] = local[r]
    BY <1>0, <1>3 DEF UndisturbedRowIsCurrent
  <2>. QED  BY <1>0, <1>4, <2>1 DEF IInv, UndisturbedRowIsCurrent
<1>6. LatestIsLocal'
  BY <1>0, <1>3 DEF IInv, LatestIsLocal
<1>7. ASSUME NEW j \in Undelivered, NEW r \in Row, Undisturbed(r), NEW gone \in BOOLEAN,
             outbox[j].row # r, outbox[j].row \notin troubled,
             StandsAt(j, r, gone)
      PROVE  StandsAt(j, r, gone)'
  <2>1. ASSUME \A k \in Undelivered : outbox[k].row = r => j < k
        PROVE  (mirror'[r] = None) <=> gone
    <3>1. i <= j
      BY <1>2, <1>7
    <3>2. r # outbox[i].row /\ \A k \in Undelivered : outbox[k].row = r => i < k
      BY <1>0, <1>1, <2>1, <3>1
    <3>3. mirror'[r] = mirror[r]
      BY <1>4, <1>7, <3>2
    <3>. QED  BY <1>7, <2>1, <3>3 DEF StandsAt
  <2>. QED  BY <1>0, <1>7, <2>1 DEF StandsAt
<1>8. ParentsFirst'
  <2>1. ASSUME NEW c \in Row, Parent[c] # None, Undisturbed(c)
        PROVE  /\ Parent[c] \in Row /\ Parent[c] # c /\ c \notin troubled
               /\ Undisturbed(Parent[c]) /\ Parent[c] \notin troubled
    BY <2>1, UndisturbedParent DEF IInv, Undisturbed
  <2>. QED  BY <1>0, <1>3, <1>7, <2>1 DEF IInv, ParentsFirst
<1>. QED  BY <1>5, <1>6, <1>8

LEMMA ApplyKeeps == ASSUME NEW i \in batch PROVE IInv /\ (Apply(i) \/ ApplyFails(i)) => IInv'
<1>. SUFFICES ASSUME IInv, Apply(i) \/ ApplyFails(i) PROVE IInv'
  OBVIOUS
<1>0. /\ IsNext(i) /\ i \in Undelivered /\ outbox[i].row \in Row
      /\ outbox[i].val \in Val \union {None} /\ i \in 1..last
      /\ UNCHANGED <<local, outbox, last, batch, process, pid, pidFile, troubled>>
  BY QueueType DEF IInv, TypeOK, BatchIsFront, Apply, ApplyFails
<1>1. /\ answer' \in Answer /\ reached' \subseteq 1..last
      /\ \/ mirror' = mirror /\ answer' # "ok"
         \/ mirror' = Applied(outbox[i].row, outbox[i].val)
  BY <1>0 DEF IInv, TypeOK, Apply, ApplyFails, Answer
<1>2. mirror' \in [Row -> Val \union {None}]
  BY <1>0, <1>1 DEF IInv, TypeOK, Applied
<1>3. spare' \in [{"failures", "errors", "kills", "losses", "stops", "requeues"} -> Nat]
  BY SpendType DEF IInv, TypeOK, Apply, ApplyFails
<1>4. TypeOK'
  BY <1>0, <1>1, <1>2, <1>3 DEF IInv, TypeOK
<1>5. Undelivered' = Undelivered
  BY <1>0 DEF Undelivered
<1>6. UndisturbedRowIsCurrent' /\ LatestIsLocal' /\ ParentsFirst'
  <2>1. CASE mirror' = mirror
    BY <1>0, <1>4, <1>5, <2>1, SameQueue
  <2>2. CASE mirror' = Applied(outbox[i].row, outbox[i].val)
    BY <1>0, <1>4, <2>2, AppliedKeeps
  <2>. QED  BY <1>1, <2>1, <2>2
<1>7. UntroubledIsEligible' /\ BatchIsFront'
  BY <1>0, <1>5 DEF IInv, UntroubledIsEligible, BatchIsFront
<1>8. AnswerIsTrue'
  <2>1. ASSUME NEW j \in batch, IsNext(j) PROVE j = i
    <3>1. i <= j /\ j <= i /\ i \in Nat /\ j \in Nat
      BY <1>0, <2>1, QueueType DEF IsNext, IInv, BatchIsFront
    <3>. QED  BY <3>1
  <2>2. answer' = "ok" => mirror'[outbox[i].row] = outbox[i].val
    BY <1>0, <1>1 DEF Applied
  <2>. QED  BY <1>0, <2>1, <2>2 DEF IInv, AnswerIsTrue, IsNext
<1>. QED  BY <1>4, <1>6, <1>7, <1>8 DEF IInv

\* A commit adds the latest writes of its rows to the end of the queue.
LEMMA WriteKeeps ==
  ASSUME NEW s \in Statement, NEW v \in Val \union {None}
  PROVE  IInv /\ Write(s, v) => IInv'
<1>. SUFFICES ASSUME IInv, Write(s, v) PROVE IInv'
  OBVIOUS
<1>. DEFINE New == (last + 1)..(last + Len(s))
            Written(r) == \E k \in DOMAIN s : s[k] = r
<1>0. /\ s \in Seq(Row) /\ Len(s) \in Nat /\ DOMAIN s = 1..Len(s) /\ last \in Nat
      /\ \A k \in DOMAIN s : s[k] \in Row
      /\ \A r \in Row : local'[r] = IF Written(r) THEN v ELSE local[r]
      /\ local' \in [Row -> Val \union {None}]
      /\ UNCHANGED <<mirror, batch, answer, process, troubled>>
      /\ process # "lost"
  BY StatementAssumption DEF IInv, TypeOK, Write, Serving
<1>1. /\ DOMAIN outbox' = DOMAIN outbox \union New
      /\ \A j \in DOMAIN outbox : outbox'[j] = outbox[j] /\ j \in Nat /\ j <= last
      /\ \A j \in New : /\ outbox'[j] = Queued(s[j - last], v) /\ j > last /\ j \in Nat
                       /\ j - last \in DOMAIN s
  BY <1>0, QueueType DEF IInv, Write
<1>a. /\ last' = last + Len(s) /\ last' \in Nat /\ last <= last'
      /\ New \subseteq 1..last'
      /\ \A k \in DOMAIN s : last + k \in New /\ (last + k) - last = k
  BY <1>0 DEF Write
<1>b. \A j \in New : Written(s[j - last])
  BY <1>1
<1>. HIDE DEF New, Written
<1>c. ASSUME NEW r \in Row PROVE Queued(r, v) \in Entry
  BY RetryAssumption DEF Queued, Entry
<1>2. TypeOK'
  <2>1. \A j \in New : outbox'[j] \in Entry
    BY <1>0, <1>1, <1>c
  <2>2. \A j \in DOMAIN outbox : outbox'[j] \in Entry
    BY <1>1 DEF IInv, TypeOK
  <2>3. DOMAIN outbox \subseteq 1..last' /\ batch \subseteq DOMAIN outbox'
    BY <1>0, <1>1, <1>a DEF IInv, TypeOK
  <2>4. reached' \subseteq 1..last'
    BY <1>a, <1>0 DEF IInv, TypeOK, Write
  <2>. QED  BY <1>0, <1>1, <1>a, <2>1, <2>2, <2>3, <2>4 DEF IInv, TypeOK, Write
<1>3. Undelivered' = Undelivered \union New
  <2>1. \A j \in New : ~outbox'[j].delivered
    BY <1>1 DEF Queued
  <2>2. Undelivered' = {j \in DOMAIN outbox' : ~outbox'[j].delivered}
    BY DEF Undelivered
  <2>. QED  BY <1>1, <2>1, <2>2 DEF Undelivered
<1>4. /\ \A j \in Undelivered : /\ outbox'[j] = outbox[j] /\ j \in Nat /\ j <= last
                                /\ outbox[j].row \in Row
      /\ \A j \in New : /\ outbox'[j].row = s[j - last] /\ outbox'[j].val = v
                       /\ ~outbox'[j].error /\ outbox'[j].retries = 0
                       /\ j \in Nat /\ last < j /\ Written(outbox'[j].row)
                       /\ outbox'[j].row \in Row
  <2>1. \A j \in Undelivered : j \in DOMAIN outbox /\ outbox[j].row \in Row
    BY QueueType DEF IInv
  <2>2. \A j \in New : outbox'[j] = Queued(s[j - last], v)
    BY <1>1
  <2>. QED  BY <1>0, <1>1, <1>b, <2>1, <2>2 DEF Queued
<1>5. \A r \in Row : Written(r) => \E j \in New : outbox'[j].row = r
  <2>1. ASSUME NEW k \in DOMAIN s PROVE last + k \in New /\ outbox'[last + k].row = s[k]
    BY <1>4, <1>a
  <2>. QED  BY <2>1 DEF Written
<1>6. \A r : Undisturbed(r)' <=> Undisturbed(r)
  BY <1>0 DEF Undisturbed
<1>7. UndisturbedRowIsCurrent'
  <2>1. SUFFICES ASSUME NEW r \in Row, Undisturbed(r), \A j \in Undelivered' : outbox'[j].row # r
                 PROVE  mirror[r] = local'[r]
    BY <1>0, <1>6 DEF UndisturbedRowIsCurrent
  <2>2. ~Written(r)
    BY <1>3, <1>5, <2>1
  <2>3. \A j \in Undelivered : outbox[j].row # r
    BY <1>3, <1>4, <2>1
  <2>. QED  BY <1>0, <2>1, <2>2, <2>3 DEF IInv, UndisturbedRowIsCurrent
<1>8. LatestIsLocal'
  <2>1. SUFFICES ASSUME NEW j \in Undelivered', Undisturbed(outbox'[j].row),
                        \A k \in Undelivered' : outbox'[k].row = outbox'[j].row => k <= j
                 PROVE  outbox'[j].val = local'[outbox'[j].row]
    BY <1>6 DEF LatestIsLocal
  <2>2. CASE j \in New
    BY <1>0, <1>4, <2>2
  <2>3. CASE j \in Undelivered
    <3>1. ~Written(outbox[j].row)
      <4>1. \A k \in New : outbox'[k].row # outbox[j].row
        BY <1>0, <1>3, <1>4, <2>1, <2>3
      <4>. QED  BY <1>4, <1>5, <2>3, <4>1
    <3>2. \A k \in Undelivered : outbox[k].row = outbox[j].row => k <= j
      BY <1>3, <1>4, <2>1, <2>3
    <3>. QED  BY <1>0, <1>4, <2>1, <2>3, <3>1, <3>2 DEF IInv, LatestIsLocal
  <2>. QED  BY <1>3, <2>1, <2>2, <2>3
<1>9. BatchIsFront'
  <2>1. batch \subseteq Undelivered
    BY DEF IInv, BatchIsFront
  <2>2. ASSUME NEW i \in batch, NEW j \in New PROVE i < j
    <3>1. i <= last /\ last < j /\ i \in Nat /\ j \in Nat
      BY <1>4, <2>1
    <3>. QED  BY <1>0, <3>1
  <2>. QED  BY <1>0, <1>3, <1>4, <2>1, <2>2 DEF IInv, BatchIsFront
<1>10. UntroubledIsEligible'
  BY <1>0, <1>3, <1>4 DEF IInv, UntroubledIsEligible
<1>11. AnswerIsTrue'
  <2>1. batch \subseteq Undelivered
    BY DEF IInv, BatchIsFront
  <2>. QED  BY <1>0, <1>4, <2>1 DEF IInv, AnswerIsTrue, IsNext
\* The local contents of an undisturbed row are what the queue will leave of it.
<1>12. ASSUME NEW i \in New, NEW r \in Row, Undisturbed(r), ~Written(r),
              NEW gone \in BOOLEAN, (local[r] = None) <=> gone
       PROVE  StandsAt(i, r, gone)'
  <2>1. \A k \in Undelivered' : outbox'[k].row = r => k \in Undelivered /\ k < i
    <3>1. ASSUME NEW k \in Undelivered', outbox'[k].row = r PROVE k \in Undelivered
      BY <1>3, <1>4, <1>12, <3>1
    <3>2. \A k \in Undelivered : k < i
      BY <1>0, <1>4
    <3>. QED  BY <3>1, <3>2
  <2>2. ASSUME \A k \in Undelivered' : outbox'[k].row = r => i < k
        PROVE  (mirror[r] = None) <=> gone
    <3>1. \A k \in Undelivered : outbox[k].row # r
      BY <1>0, <1>3, <1>4, <2>1, <2>2
    <3>. QED  BY <1>0, <1>12, <3>1 DEF IInv, UndisturbedRowIsCurrent
  <2>3. ASSUME NEW k \in Undelivered', outbox'[k].row = r,
               ~\E m \in Undelivered' : outbox'[m].row = r /\ k < m /\ m < i
        PROVE  (outbox'[k].val = None) <=> gone
    <3>1. k \in Undelivered /\ outbox'[k] = outbox[k] /\ k \in Nat
      BY <1>4, <2>1, <2>3
    <3>2. \A m \in Undelivered : outbox[m].row = r => m <= k
      BY <1>3, <1>4, <2>1, <2>3, <3>1
    <3>3. outbox[k].val = local[r]
      BY <1>0, <1>12, <2>3, <3>1, <3>2 DEF IInv, LatestIsLocal
    <3>. QED  BY <1>12, <3>1, <3>3
  <2>. QED  BY <1>0, <2>2, <2>3 DEF StandsAt
<1>13. ASSUME NEW i \in Undelivered, NEW r, NEW gone \in BOOLEAN, StandsAt(i, r, gone)
       PROVE  StandsAt(i, r, gone)'
  <2>1. \A k \in New : i < k /\ ~(k < i)
    BY <1>0, <1>4
  <2>. QED  BY <1>0, <1>3, <1>4, <1>13, <2>1 DEF StandsAt
<1>14. ASSUME NEW i \in New, NEW c \in Row, Parent[c] # None, Undisturbed(c)
       PROVE  /\ outbox'[i].row = c /\ v # None => StandsAt(i, Parent[c], FALSE)'
              /\ outbox'[i].row = Parent[c] /\ v = None => StandsAt(i, c, TRUE)'
  <2>1. Parent[c] \in Row /\ Undisturbed(Parent[c])
    BY <1>14, UndisturbedParent DEF IInv
  <2>2. PICK k \in DOMAIN s : s[k] = outbox'[i].row
    BY <1>4 DEF Written
  <2>3. ReferencesHold(s[k], v)
    BY <2>2 DEF Write
  <2>4. CASE outbox'[i].row = c /\ v # None
    <3>1. local[Parent[c]] # None /\ ~Written(Parent[c])
      BY <1>14, <2>2, <2>3, <2>4, FamilyAssumption DEF ReferencesHold, Written
    <3>. QED  BY <1>12, <2>1, <2>4, <3>1, <1>14, RowAssumption
  <2>5. CASE outbox'[i].row = Parent[c] /\ v = None
    <3>1. local[c] = None /\ ~Written(c)
      BY <1>14, <2>2, <2>3, <2>5, FamilyAssumption DEF ReferencesHold, Written
    <3>. QED  BY <1>12, <1>14, <2>5, <3>1, RowAssumption
  <2>. QED  BY <2>4, <2>5
<1>15. ParentsFirst'
  <2>1. ASSUME NEW i \in Undelivered', NEW c \in Row, Parent[c] # None, Undisturbed(c)
        PROVE  /\ outbox'[i].row = c /\ outbox'[i].val # None => StandsAt(i, Parent[c], FALSE)'
               /\ outbox'[i].row = Parent[c] /\ outbox'[i].val = None => StandsAt(i, c, TRUE)'
    <3>1. CASE i \in New
      BY <1>4, <1>14, <2>1, <3>1
    <3>2. CASE i \in Undelivered
      BY <1>4, <1>13, <2>1, <3>2 DEF IInv, ParentsFirst
    <3>. QED  BY <1>3, <2>1, <3>1, <3>2
  <2>. QED  BY <1>6, <2>1 DEF ParentsFirst
<1>. QED  BY <1>2, <1>7, <1>8, <1>9, <1>10, <1>11, <1>15 DEF IInv

LEMMA LoseDiskKeeps == IInv /\ LoseDisk => IInv'
<1>. SUFFICES ASSUME IInv, LoseDisk PROVE IInv'
  OBVIOUS
<1>1. spare' \in [{"failures", "errors", "kills", "losses", "stops", "requeues"} -> Nat]
  BY SpendType DEF IInv, LoseDisk
<1>2. TypeOK'
  BY <1>1 DEF IInv, TypeOK, LoseDisk, Empty, Answer, ProcessState
<1>3. Undelivered' = {}
  BY DEF LoseDisk, Undelivered, Empty
<1>4. batch' = {} /\ answer' = "none" /\ process' = "lost"
  BY DEF LoseDisk
<1>. QED  BY <1>2, <1>3, <1>4 DEF IInv, UndisturbedRowIsCurrent, LatestIsLocal, BatchIsFront,
                UntroubledIsEligible, AnswerIsTrue, ParentsFirst

\* A boot that purges, and restores or not.
LEMMA BootKeeps == IInv /\ (Boot \/ BootWithoutNeon) => IInv'
<1>. SUFFICES ASSUME IInv, Boot \/ BootWithoutNeon PROVE IInv'
  OBVIOUS
<1>1. /\ outbox' = [j \in DOMAIN outbox \ Purged |-> outbox[j]]
      /\ UNCHANGED <<last, mirror, batch, answer, reached>>
      /\ process' \in {"up", "mute"} /\ process' # "lost" /\ pid' \in Pid
      /\ pidFile' \in Pid \union {None}
      /\ spare' \in [{"failures", "errors", "kills", "losses", "stops", "requeues"} -> Nat]
  <2>1. NextPid[pid] \in Pid /\ pid \in Pid /\ pidFile \in Pid \union {None}
    BY PidAssumption DEF IInv, TypeOK
  <2>. QED  BY <2>1, SpendType DEF IInv, TypeOK, Boot, BootWithoutNeon, Start
<1>. DEFINE Restored == local' = mirror /\ troubled' = {outbox[j].row : j \in Undelivered \ Purged}
            Kept == /\ local' = local /\ process # "lost"
                    /\ troubled' = troubled \union {outbox[j].row : j \in Purged}
<1>2. Restored \/ Kept
  BY DEF Boot, BootWithoutNeon, RestoreDue
<1>3. Purged \subseteq Undelivered /\ Undelivered \subseteq DOMAIN outbox
  BY DEF Purged, Undelivered
<1>4. /\ Undelivered' = Undelivered \ Purged
      /\ \A j \in Undelivered' : outbox'[j] = outbox[j]
  BY <1>1, <1>3 DEF Undelivered
<1>5. batch = {} /\ answer = "none"
  BY DEF IInv, AnswerIsTrue, Boot, BootWithoutNeon
<1>6. TypeOK'
  <2>1. \A j \in Undelivered : outbox[j].row \in Row
    BY QueueType DEF IInv
  <2>2. local' \in [Row -> Val \union {None}] /\ troubled' \subseteq Row
    BY <1>2, <1>3, <2>1 DEF IInv, TypeOK
  <2>3. DOMAIN outbox' \subseteq DOMAIN outbox /\ \A j \in DOMAIN outbox' : outbox'[j] = outbox[j]
    BY <1>1
  <2>. QED  BY <1>1, <1>5, <2>2, <2>3 DEF IInv, TypeOK, ProcessState
<1>7. BatchIsFront' /\ AnswerIsTrue'
  BY <1>1, <1>5 DEF BatchIsFront, AnswerIsTrue
<1>8. CASE Restored
  <2>1. \A j \in Undelivered' : outbox'[j].row \in troubled'
    BY <1>4, <1>8
  <2>2. ASSUME NEW j \in Undelivered', NEW c \in Row, Undisturbed(c)', Parent[c] # None
        PROVE  outbox'[j].row # c /\ outbox'[j].row # Parent[c]
    BY <2>1, <2>2 DEF Undisturbed
  <2>3. UndisturbedRowIsCurrent'
    BY <1>1, <1>8 DEF UndisturbedRowIsCurrent
  <2>4. LatestIsLocal' /\ UntroubledIsEligible'
    BY <2>1 DEF LatestIsLocal, UntroubledIsEligible, Undisturbed
  <2>5. ParentsFirst'
    BY <2>2 DEF ParentsFirst
  <2>. QED  BY <1>6, <1>7, <2>3, <2>4, <2>5 DEF IInv
<1>9. CASE Kept
  <2>1. \A r : Undisturbed(r)' => Undisturbed(r)
    BY <1>9 DEF Undisturbed
  <2>2. \A j \in Undelivered : outbox[j].row \notin troubled' => j \in Undelivered'
    BY <1>4, <1>9
  <2>3. UndisturbedRowIsCurrent'
    <3>1. SUFFICES ASSUME NEW r \in Row, Undisturbed(r)', \A j \in Undelivered' : outbox'[j].row # r
                   PROVE  mirror[r] = local[r]
      BY <1>1, <1>9 DEF UndisturbedRowIsCurrent
    <3>2. \A j \in Undelivered : outbox[j].row # r
      BY <1>4, <2>2, <3>1 DEF Undisturbed
    <3>. QED  BY <1>9, <2>1, <3>1, <3>2 DEF IInv, UndisturbedRowIsCurrent
  <2>4. LatestIsLocal'
    <3>1. SUFFICES ASSUME NEW j \in Undelivered', Undisturbed(outbox[j].row)',
                          \A k \in Undelivered' : outbox[k].row = outbox[j].row => k <= j
                   PROVE  outbox[j].val = local[outbox[j].row]
      BY <1>4, <1>9, <2>1 DEF LatestIsLocal, Undisturbed
    <3>2. \A k \in Undelivered : outbox[k].row = outbox[j].row => k <= j
      BY <1>4, <2>2, <3>1 DEF Undisturbed
    <3>. QED  BY <1>4, <1>9, <2>1, <3>1, <3>2 DEF IInv, LatestIsLocal
  <2>5. UntroubledIsEligible'
    BY <1>4, <1>9 DEF IInv, UntroubledIsEligible
  <2>6. ASSUME NEW j \in Undelivered', NEW r \in Row, r \notin troubled',
               NEW gone \in BOOLEAN, StandsAt(j, r, gone)
        PROVE  StandsAt(j, r, gone)'
    <3>1. \A k \in Undelivered : outbox[k].row = r => k \in Undelivered'
      BY <2>2, <2>6
    <3>2. Undelivered' \subseteq Undelivered
      BY <1>4
    <3>3. mirror' = mirror /\ \A k \in Undelivered' : outbox'[k] = outbox[k]
      BY <1>1, <1>4
    <3>4. StandsAt(j, r, gone)
      BY <2>6
    <3>. QED  BY <3>1, <3>2, <3>3, <3>4 DEF StandsAt
  <2>7. ParentsFirst'
    <3>1. ASSUME NEW c \in Row, Parent[c] # None, Undisturbed(c)'
          PROVE  /\ Parent[c] \in Row /\ Parent[c] \notin troubled' /\ c \notin troubled'
                 /\ Undisturbed(c)
      BY <2>1, <3>1, UndisturbedParent DEF IInv, Undisturbed
    <3>. QED  BY <1>4, <2>6, <3>1 DEF IInv, ParentsFirst
  <2>. QED  BY <1>6, <1>7, <2>3, <2>4, <2>5, <2>7 DEF IInv
<1>. QED  BY <1>2, <1>8, <1>9

-----------------------------------------------------------------------------

LEMMA InitIInv == Init => IInv
<1>. SUFFICES ASSUME Init PROVE IInv
  OBVIOUS
<1>1. Undelivered = {} /\ batch = {} /\ answer = "none"
  BY DEF Init, Undelivered, Empty
<1>2. UndisturbedRowIsCurrent
  BY DEF Init, UndisturbedRowIsCurrent
<1>3. TypeOK
  <2>1. local \in [Row -> Val \union {None}]
    BY ValAssumption DEF Init
  <2>2. spare \in [{"failures", "errors", "kills", "losses", "stops", "requeues"} -> Nat]
    BY BoundAssumption DEF Init
  <2>. QED  BY <1>1, <2>1, <2>2 DEF Init, TypeOK, Empty, Answer, ProcessState
<1>. QED  BY <1>1, <1>2, <1>3 DEF IInv, LatestIsLocal, BatchIsFront, UntroubledIsEligible,
                AnswerIsTrue, ParentsFirst, Init

LEMMA NextIInv == IInv /\ [Next]_vars => IInv'
<1>. SUFFICES ASSUME IInv, [Next]_vars PROVE IInv'
  OBVIOUS
<1>1. ASSUME NEW s \in Statement, NEW v \in Val \union {None}, Write(s, v) PROVE IInv'
  BY <1>1, WriteKeeps
<1>2. CASE Requeue
  BY <1>2, RequeueKeeps
<1>3. ASSUME NEW i \in DOMAIN outbox, BackoffElapses(i) PROVE IInv'
  BY <1>3, BackoffKeeps
<1>4. CASE Dispatch
  BY <1>4, DrainKeeps, ApplyKeeps, MarkDeliveredKeeps, MarkFailedKeeps DEF Dispatch
<1>5. CASE IterationFails \/ Stop \/ Kill
  BY <1>5, ProcessKeeps
<1>6. CASE LoseDisk
  BY <1>6, LoseDiskKeeps
<1>7. CASE Boot \/ BootWithoutNeon
  BY <1>7, BootKeeps
<1>8. CASE UNCHANGED vars
  <2>1. Undelivered' = Undelivered
    BY <1>8 DEF vars, Undelivered
  <2>2. TypeOK'
    BY <1>8 DEF IInv, TypeOK, vars
  <2>3. UndisturbedRowIsCurrent' /\ LatestIsLocal' /\ ParentsFirst'
    BY <1>8, <2>1, <2>2, SameQueue DEF vars
  <2>. QED  BY <1>8, <2>1, <2>2, <2>3 DEF IInv, vars, BatchIsFront, UntroubledIsEligible,
                AnswerIsTrue, IsNext
<1>. QED  BY <1>1, <1>2, <1>3, <1>4, <1>5, <1>6, <1>7, <1>8 DEF Next

THEOREM InvariantHolds == Spec => []IInv
BY InitIInv, NextIInv, PTL DEF Spec

\* A row that was never refused, retried or dropped, nor its parent, is the same
\* on both sides once nothing of it is queued: Neon's commit and the
\* dispatcher's record being two transactions costs nothing (_process_one_row).
THEOREM UndisturbedRowsAreCurrent == Spec => []UndisturbedRowIsCurrent
<1>1. IInv => UndisturbedRowIsCurrent
  BY DEF IInv
<1>. QED  BY InvariantHolds, <1>1, PTL

\* A row whose family was not disturbed is accepted when its turn comes.
LEMMA UndisturbedIsAccepted ==
  ASSUME IInv, NEW i \in batch, IsNext(i), Undisturbed(outbox[i].row)
  PROVE  ~Refused(outbox[i].row, outbox[i].val)
<1>. SUFFICES ASSUME Refused(outbox[i].row, outbox[i].val) PROVE FALSE
  OBVIOUS
<1>. DEFINE c == outbox[i].row
<1>1. /\ i \in Undelivered /\ c \in Row /\ outbox[i].val # None
      /\ Parent[c] # None /\ mirror[Parent[c]] = None
  BY QueueType DEF IInv, BatchIsFront, Refused
<1>2. Parent[c] \in Row /\ Parent[c] \notin troubled /\ Parent[c] # c
  BY <1>1, UndisturbedParent DEF IInv, Undisturbed
<1>3. StandsAt(i, Parent[c], FALSE)
  BY <1>1 DEF IInv, ParentsFirst
<1>4. \A j \in Undelivered : outbox[j].row = Parent[c] => i < j
  <2>1. SUFFICES ASSUME NEW j \in Undelivered, outbox[j].row = Parent[c] PROVE i < j
    OBVIOUS
  <2>2. i <= j /\ i # j
    BY <1>2, <2>1, NextIsOldest
  <2>. QED  BY <1>1, <2>1, <2>2, QueueType DEF IInv
<1>. QED  BY <1>1, <1>3, <1>4 DEF StandsAt

\* The first trouble of a family of rows is never a foreign key of Neon
\* (NeonPermanent): ORDER BY id asks for a parent before its children.
THEOREM RefusalsHaveACause == Spec => []RefusalHasACause
<1>1. IInv => RefusalHasACause
  BY UndisturbedIsAccepted DEF RefusalHasACause
<1>. QED  BY InvariantHolds, <1>1, PTL

\* The ids, the batch, the answer, the bounds: every variable of the mirror keeps
\* its type.
THEOREM TypesHold == Spec => []TypeOK
<1>1. IInv => TypeOK
  BY DEF IInv
<1>. QED  BY InvariantHolds, <1>1, PTL

\* docs/neon-mirror.md, "Every committed write [...] is also applied" and "no
\* harm beyond a few extra Neon round trips", where no write was refused, retried
\* or purged: then an empty queue means equal databases, whatever deaths, errors
\* and boots lie behind.  The run mirror_retry shows that one retry is enough to
\* lose it.
QuietDrainMeansEqual == troubled = {} => DrainedQueueMeansEqual

THEOREM QuietQueuesDrainEqual == Spec => []QuietDrainMeansEqual
<1>1. ASSUME IInv, troubled = {}, process # "lost", Undelivered = {}
      PROVE  mirror = local
  <2>1. \A r \in Row : mirror[r] = local[r]
    BY <1>1 DEF IInv, UndisturbedRowIsCurrent, Undisturbed
  <2>. QED  BY <1>1, <2>1 DEF IInv, TypeOK
<1>2. IInv => QuietDrainMeansEqual
  BY <1>1 DEF QuietDrainMeansEqual, DrainedQueueMeansEqual
<1>. QED  BY InvariantHolds, <1>2, PTL

-----------------------------------------------------------------------------
(* What is marked delivered. *)

\* A row of the queue is marked delivered (_process_one_row) only when Neon has
\* committed that very write, however many deaths, failed statements, restores and
\* repeated drains lie between the call and the mark.
DeliveredIsInNeon == \A i \in DOMAIN outbox : outbox[i].delivered => i \in reached

\* The mark follows an answer, so what an answer stands for is part of it.
AnswerIsCommitted == \A i \in batch : IsNext(i) /\ answer = "ok" => i \in reached

Committed == DeliveredIsInNeon /\ AnswerIsCommitted

LEMMA InitCommitted == Init => Committed
BY DEF Init, Empty, Committed, DeliveredIsInNeon, AnswerIsCommitted

LEMMA NextCommitted ==
  ASSUME IInv, Committed, [Next]_vars
  PROVE  Committed'
<1> USE DEF Committed, DeliveredIsInNeon, AnswerIsCommitted
<1>0. TypeOK /\ batch \subseteq DOMAIN outbox
  BY DEF IInv, TypeOK
<1>1. ASSUME NEW s \in Statement, NEW v \in Val \union {None}, Write(s, v)
      PROVE  Committed'
  <2>1. \A i \in DOMAIN outbox : i <= last /\ outbox'[i] = outbox[i]
    BY <1>0, <1>1, QueueType DEF Write
  <2>2. \A i \in DOMAIN outbox' \ DOMAIN outbox : ~outbox'[i].delivered
    <3>1. SUFFICES ASSUME NEW i \in DOMAIN outbox' \ DOMAIN outbox
          PROVE  ~outbox'[i].delivered
      OBVIOUS
    <3>2. s \in Seq(Row) /\ last \in Nat /\ i \in (last + 1)..(last + Len(s))
      BY <1>0, <1>1, <3>1, StatementAssumption DEF Write, TypeOK
    <3>3. i > last
      BY <3>2
    <3>4. outbox'[i] = Queued(s[i - last], v)
      BY <1>1, <3>1, <3>3 DEF Write
    <3>. QED  BY <3>4 DEF Queued
  <2>3. batch' = batch /\ answer' = answer /\ reached' = reached
    BY <1>1 DEF Write
  <2>. QED  BY <1>0, <2>1, <2>2, <2>3 DEF IsNext
<1>2. CASE Requeue
  <2>1. /\ DOMAIN outbox' = DOMAIN outbox
        /\ batch' = batch /\ answer' = answer /\ reached' = reached
    BY <1>2 DEF Requeue
  <2>2. \A i \in DOMAIN outbox : outbox'[i].delivered = outbox[i].delivered
    BY <1>0, <1>2 DEF Requeue, TypeOK, Entry
  <2>. QED  BY <1>0, <2>1, <2>2 DEF IsNext
<1>3. ASSUME NEW i \in DOMAIN outbox, BackoffElapses(i) PROVE Committed'
  <2>1. /\ DOMAIN outbox' = DOMAIN outbox
        /\ batch' = batch /\ answer' = answer /\ reached' = reached
    BY <1>3 DEF BackoffElapses
  <2>2. \A j \in DOMAIN outbox : outbox'[j].delivered = outbox[j].delivered
    BY <1>0, <1>3 DEF BackoffElapses, TypeOK, Entry
  <2>. QED  BY <1>0, <2>1, <2>2 DEF IsNext
<1>4. CASE Drain
  <2>1. outbox' = outbox /\ reached' = reached /\ answer' = "none"
    BY <1>4 DEF Drain, IInv, AnswerIsTrue
  <2>. QED  BY <2>1
<1>5. ASSUME NEW i \in batch, Apply(i) \/ ApplyFails(i) PROVE Committed'
  <2>1. outbox' = outbox /\ batch' = batch /\ IsNext(i) /\ reached \subseteq reached'
    BY <1>5 DEF Apply, ApplyFails
  <2>2. answer' = "ok" => i \in reached'
    BY <1>5 DEF Apply, ApplyFails
  <2>3. \A j \in batch : IsNext(j) => j = i
    BY <1>0, <2>1, QueueType DEF IsNext
  <2>. QED  BY <1>0, <2>1, <2>2, <2>3 DEF IsNext
<1>6. ASSUME NEW i \in batch, MarkDelivered(i) PROVE Committed'
  <2>1. i \in reached /\ reached' = reached /\ answer' = "none"
    BY <1>6 DEF MarkDelivered
  <2>2. /\ DOMAIN outbox' = DOMAIN outbox
        /\ \A j \in DOMAIN outbox : j # i => outbox'[j] = outbox[j]
    BY <1>6 DEF MarkDelivered
  <2>. QED  BY <2>1, <2>2
<1>7. ASSUME NEW i \in batch, MarkFailed(i) PROVE Committed'
  <2>1. reached' = reached /\ answer' = "none"
    BY <1>7 DEF MarkFailed
  <2>2. PICK due \in BOOLEAN :
          outbox' = [outbox EXCEPT
            ![i].retries = IF answer = "permanent" THEN MaxRetries ELSE @ + 1,
            ![i].error = TRUE, ![i].due = due]
    BY <1>7 DEF MarkFailed
  <2>3. /\ DOMAIN outbox' = DOMAIN outbox
        /\ \A j \in DOMAIN outbox : outbox'[j].delivered = outbox[j].delivered
    <3>1. i \in DOMAIN outbox /\ outbox[i] \in Entry
      BY <1>0 DEF TypeOK
    <3>2. outbox'[i].delivered = outbox[i].delivered
      BY <2>2, <3>1 DEF Entry
    <3>. QED  BY <2>2, <3>2
  <2>. QED  BY <2>1, <2>3
<1>8. CASE IterationFails \/ Stop \/ Kill
  BY <1>8 DEF IterationFails, Stop, Kill, IsNext
<1>9. CASE LoseDisk
  BY <1>9 DEF LoseDisk, Empty
<1>10. CASE Boot \/ BootWithoutNeon
  BY <1>10 DEF Boot, BootWithoutNeon, IsNext
<1>11. CASE UNCHANGED vars
  BY <1>11 DEF vars, IsNext
<1>. QED  BY <1>1, <1>2, <1>3, <1>4, <1>5, <1>6, <1>7, <1>8, <1>9, <1>10, <1>11 DEF Next, Dispatch

\* No write is lost between the dispatcher's mark and Neon: the drain, which skips
\* what is delivered, and the health page, which counts it, may trust the flag.
THEOREM DeliveredWasCommitted == Spec => []DeliveredIsInNeon
<1>1. Committed => DeliveredIsInNeon
  BY DEF Committed
<1>. QED  BY InitCommitted, InvariantHolds, NextCommitted, <1>1, PTL DEF Spec

-----------------------------------------------------------------------------
(* The table as a replica. *)

\* Neon answers every call, the disk stays, the corpus is not ingested again and
\* the human work is not emptied: what a boot then purges and restores is nothing.
NeonAnswers ==
  /\ MaxFailures = 0 /\ MaxLosses = 0
  /\ \A s \in Statement : \A k \in DOMAIN s : s[k] \notin Document \union Work
  /\ Seeded \intersect Work # {}

\* A write that Neon has and the table still queues is the oldest one, and
\* repeating it changes nothing.
RepeatIsHarmless ==
  \A i \in Undelivered \intersect reached :
    /\ \A j \in Undelivered : i <= j
    /\ mirror[outbox[i].row] = outbox[i].val
    /\ outbox[i].val = None => \A c \in Row : Parent[c] = outbox[i].row => mirror[c] = None

Untroubled ==
  /\ troubled = {} /\ process # "lost"
  /\ spare["failures"] = 0 /\ spare["losses"] = 0
  /\ answer \in {"none", "ok"}
  /\ \A i \in batch : IsNext(i) /\ answer = "ok" => i \in reached
  /\ \A i \in Undelivered : outbox[i].row \notin Document
  /\ \E w \in Work : local[w] # None

QInv == IInv /\ Untroubled /\ RepeatIsHarmless

\* What does not happen then.
LEMMA NoFaults ==
  ASSUME QInv
  PROVE  /\ \A r \in Row : Undisturbed(r)
         /\ Purged = {} /\ Dead = {} /\ ~RestoreDue
         /\ \A i \in DOMAIN outbox : ~BackoffElapses(i)
         /\ \A i \in batch : ~ApplyFails(i) /\ ~MarkFailed(i)
         /\ ~LoseDisk /\ ~BootWithoutNeon /\ ~Requeue
<1>1. \A i \in Undelivered : ~outbox[i].error /\ outbox[i].retries = 0
  BY DEF QInv, Untroubled, IInv, UntroubledIsEligible
<1>2. Dead = {}
  BY <1>1, RetryAssumption DEF Dead
<1>3. Purged = {} /\ ~RestoreDue
  BY DEF QInv, Untroubled, Purged, RestoreDue
<1>4. \A i \in DOMAIN outbox : ~BackoffElapses(i)
  BY <1>1 DEF BackoffElapses
<1>5. \A i \in batch : ~ApplyFails(i) /\ ~MarkFailed(i)
  BY DEF QInv, Untroubled, ApplyFails, MarkFailed, Spend
<1>6. ~LoseDisk /\ ~BootWithoutNeon /\ ~Requeue
  BY <1>2 DEF QInv, Untroubled, LoseDisk, BootWithoutNeon, Requeue, Spend
<1>7. \A r \in Row : Undisturbed(r)
  BY DEF QInv, Untroubled, Undisturbed
<1>. QED  BY <1>2, <1>3, <1>4, <1>5, <1>6, <1>7

\* Neon takes the oldest write: the cascade finds nothing.
LEMMA OldestIsApplied ==
  ASSUME QInv, NEW i \in batch, Apply(i)
  PROVE  /\ i \in Undelivered /\ \A j \in Undelivered : i <= j
         /\ outbox[i].row \in Row
         /\ answer' = "ok" /\ reached' = reached \union {i}
         /\ mirror' = [r \in Row |-> IF r = outbox[i].row THEN outbox[i].val ELSE mirror[r]]
         /\ outbox[i].val = None => \A c \in Row : Parent[c] = outbox[i].row => mirror[c] = None
         /\ UNCHANGED <<local, outbox, last, batch, process, troubled, spare>>
<1>1. IInv /\ IsNext(i) /\ outbox[i].row \in Row /\ i \in Undelivered
  BY QueueType DEF QInv, IInv, BatchIsFront, Apply
<1>2. \A j \in Undelivered : i <= j /\ i \in Nat /\ j \in Nat
  BY <1>1, NextIsOldest, QueueType DEF QInv, IInv, Untroubled
<1>3. ~Refused(outbox[i].row, outbox[i].val)
  BY <1>1, NoFaults, UndisturbedIsAccepted
<1>4. ASSUME outbox[i].val = None, NEW c \in Row, Parent[c] = outbox[i].row
      PROVE  mirror[c] = None
  <2>1. Parent[c] # None /\ Parent[c] # c /\ Undisturbed(c)
    BY <1>1, <1>4, NoFaults, UndisturbedParent, RowAssumption DEF IInv
  <2>2. StandsAt(i, c, TRUE)
    BY <1>1, <1>4, <2>1 DEF IInv, ParentsFirst
  <2>3. \A j \in Undelivered : outbox[j].row = c => i < j
    BY <1>2, <1>4, <2>1
  <2>. QED  BY <2>2, <2>3 DEF StandsAt
<1>5. mirror' = Applied(outbox[i].row, outbox[i].val) /\ answer' = "ok"
  BY <1>3 DEF Apply
<1>6. mirror' = [r \in Row |-> IF r = outbox[i].row THEN outbox[i].val ELSE mirror[r]]
  BY <1>4, <1>5 DEF Applied
<1>. QED  BY <1>1, <1>2, <1>4, <1>5, <1>6 DEF Apply

LEMMA InitQInv == ASSUME NeonAnswers PROVE Init => QInv
<1>. SUFFICES ASSUME Init PROVE QInv
  OBVIOUS
<1>1. IInv /\ Undelivered = {} /\ batch = {}
  BY InitIInv DEF Init, Undelivered, Empty
<1>2. \E w \in Work : local[w] # None
  BY RowAssumption, ValAssumption DEF Init, NeonAnswers
<1>. QED  BY <1>1, <1>2 DEF QInv, Untroubled, RepeatIsHarmless, Init, NeonAnswers

\* Steps that keep the queue, both databases and what Neon has.
LEMMA SameReplica ==
  ASSUME QInv, IInv', UNCHANGED <<local, mirror, reached, last, troubled>>,
         Undelivered' = Undelivered,
         \A j \in Undelivered : outbox'[j] = outbox[j],
         (answer' = answer /\ (batch' = batch \/ batch = {})) \/ answer' = "none",
         process' # "lost",
         spare'["failures"] = spare["failures"], spare'["losses"] = spare["losses"]
  PROVE  QInv' /\ UNCHANGED Abstract!replicaVars
<1>1. answer = "none" \/ batch' = batch \/ answer' = "none"
  BY DEF QInv, IInv, AnswerIsTrue
<1>2. Untroubled'
  BY <1>1 DEF QInv, Untroubled, IsNext, IInv, AnswerIsTrue
<1>3. RepeatIsHarmless'
  BY DEF QInv, RepeatIsHarmless
<1>4. Lag' = Lag
  BY DEF Lag
<1>. QED  BY <1>2, <1>3, <1>4 DEF QInv, Abstract!replicaVars

LEMMA WriteIsCommit ==
  ASSUME NeonAnswers, QInv, IInv', NEW s \in Statement, NEW v \in Val \union {None}, Write(s, v)
  PROVE  QInv' /\ Abstract!Commit(s, v)
<1>. DEFINE New == (last + 1)..(last + Len(s))
<1>0. /\ s \in Seq(Row) /\ Len(s) \in Nat /\ DOMAIN s = 1..Len(s) /\ last \in Nat
      /\ UNCHANGED <<mirror, batch, answer, process, troubled, reached, spare>>
      /\ reached \subseteq 1..last
  BY StatementAssumption DEF QInv, IInv, TypeOK, Write
<1>1. /\ DOMAIN outbox' = DOMAIN outbox \union New
      /\ \A j \in DOMAIN outbox : outbox'[j] = outbox[j] /\ j \in Nat /\ j <= last
      /\ \A j \in New : /\ outbox'[j] = Queued(s[j - last], v) /\ j > last /\ j \in Nat
                       /\ j \notin DOMAIN outbox /\ j \notin reached
                       /\ j - last \in DOMAIN s /\ s[j - last] \in Row
  BY <1>0, QueueType DEF QInv, IInv, Write
<1>. HIDE DEF New
<1>2. /\ Undelivered' = Undelivered \union New
      /\ \A j \in Undelivered : outbox'[j] = outbox[j] /\ j \in DOMAIN outbox
      /\ \A j \in New : /\ outbox'[j].row = s[j - last] /\ outbox'[j].val = v
  <2>1. \A j \in New : ~outbox'[j].delivered /\ outbox'[j].row = s[j - last] /\ outbox'[j].val = v
    BY <1>1 DEF Queued
  <2>. QED  BY <1>1, <2>1 DEF Undelivered
<1>3. Untroubled'
  <2>1. \A j \in Undelivered' : outbox'[j].row \notin Document
    BY <1>1, <1>2 DEF QInv, Untroubled, NeonAnswers
  <2>2. \A w \in Work : local'[w] = local[w]
    BY RowAssumption DEF Write, NeonAnswers
  <2>3. \A i \in batch : IsNext(i)' => IsNext(i)
    BY <1>0 DEF IsNext
  <2>. QED  BY <1>0, <2>1, <2>2, <2>3 DEF QInv, Untroubled
<1>4. RepeatIsHarmless'
  <2>1. SUFFICES ASSUME NEW i \in Undelivered' \intersect reached'
                 PROVE  /\ \A j \in Undelivered' : i <= j
                        /\ mirror'[outbox'[i].row] = outbox'[i].val
                        /\ outbox'[i].val = None =>
                             \A c \in Row : Parent[c] = outbox'[i].row => mirror'[c] = None
    BY DEF RepeatIsHarmless
  <2>2. i \in Undelivered \intersect reached /\ i \in DOMAIN outbox /\ outbox'[i] = outbox[i]
    BY <1>0, <1>1, <1>2, <2>1
  <2>3. \A j \in New : i <= j
    BY <1>0, <1>1, <2>2
  <2>. QED  BY <1>0, <1>2, <2>2, <2>3 DEF QInv, RepeatIsHarmless
<1>5. Lag' = [i \in DOMAIN Lag \union New |->
                IF i > last THEN [row |-> s[i - last], val |-> v] ELSE Lag[i]]
  <2>1. Undelivered' \ reached' = (Undelivered \ reached) \union New
    BY <1>0, <1>1, <1>2
  <2>2. \A j \in Undelivered : ~(j > last) /\ outbox'[j] = outbox[j]
    BY <1>0, <1>1, <1>2
  <2>. QED  BY <1>1, <1>2, <2>1, <2>2 DEF Lag
<1>. QED  BY <1>0, <1>3, <1>4, <1>5 DEF QInv, Abstract!Commit, Write, New

LEMMA ApplyIsReplicate ==
  ASSUME QInv, IInv', NEW i \in batch, Apply(i)
  PROVE  QInv' /\ (Abstract!Replicate \/ UNCHANGED Abstract!replicaVars)
<1>0. /\ i \in Undelivered /\ \A j \in Undelivered : i <= j
      /\ outbox[i].row \in Row
      /\ answer' = "ok" /\ reached' = reached \union {i}
      /\ mirror' = [r \in Row |-> IF r = outbox[i].row THEN outbox[i].val ELSE mirror[r]]
      /\ outbox[i].val = None => \A c \in Row : Parent[c] = outbox[i].row => mirror[c] = None
      /\ UNCHANGED <<local, outbox, last, batch, process, troubled, spare>>
  BY OldestIsApplied
<1>1. /\ Undelivered' = Undelivered /\ \A j \in Undelivered : j \in Nat
      /\ mirror \in [Row -> Val \union {None}]
  BY <1>0, QueueType DEF Undelivered, QInv, IInv, TypeOK
<1>2. \A k \in batch : IsNext(k) => k = i
  <2>1. SUFFICES ASSUME NEW k \in batch, IsNext(k) PROVE k = i
    OBVIOUS
  <2>2. k \in Undelivered /\ k <= i /\ i <= k
    BY <1>0, <2>1 DEF IsNext, QInv, IInv, BatchIsFront
  <2>. QED  BY <1>1, <1>0, <2>2
<1>3. Untroubled'
  BY <1>0, <1>1, <1>2 DEF QInv, Untroubled, IsNext
<1>4. RepeatIsHarmless'
  <2>1. \A k \in Undelivered \intersect reached' : k = i
    <3>1. \A k \in Undelivered \intersect reached : k <= i /\ i <= k
      BY <1>0 DEF QInv, RepeatIsHarmless
    <3>. QED  BY <1>0, <1>1, <3>1
  <2>2. outbox[i].val = None => \A c \in Row : Parent[c] = outbox[i].row => mirror'[c] = None
    BY <1>0
  <2>. QED  BY <1>0, <1>1, <2>1, <2>2 DEF RepeatIsHarmless
<1>5. CASE i \in reached
  <2>1. mirror' = mirror
    BY <1>0, <1>1, <1>5 DEF QInv, RepeatIsHarmless
  <2>2. Lag' = Lag
    BY <1>0, <1>1, <1>5 DEF Lag
  <2>. QED  BY <1>0, <1>3, <1>4, <2>1, <2>2 DEF QInv, Abstract!replicaVars
<1>6. CASE i \notin reached
  <2>1. i \in DOMAIN Lag /\ \A j \in DOMAIN Lag : i <= j
    BY <1>0, <1>6 DEF Lag
  <2>2. Lag[i].row = outbox[i].row /\ Lag[i].val = outbox[i].val
    BY <1>0, <1>6 DEF Lag
  <2>3. Lag' = [j \in DOMAIN Lag \ {i} |-> Lag[j]]
    <3>1. Undelivered' \ reached' = (Undelivered \ reached) \ {i}
      BY <1>0, <1>1
    <3>. QED  BY <1>0, <3>1 DEF Lag
  <2>4. Abstract!Replicate
    BY <1>0, <2>1, <2>2, <2>3 DEF Abstract!Replicate
  <2>. QED  BY <1>3, <1>4, <2>4 DEF QInv
<1>. QED  BY <1>5, <1>6

LEMMA DeliveredIsSilent ==
  ASSUME QInv, IInv', NEW i \in batch, MarkDelivered(i)
  PROVE  QInv' /\ UNCHANGED Abstract!replicaVars
<1>0. /\ i \in DOMAIN outbox /\ i \in Undelivered /\ i \in reached
      /\ UNCHANGED <<reached, local, last, mirror, process, troubled, spare>>
      /\ answer' = "none"
  BY QueueType DEF QInv, Untroubled, IInv, BatchIsFront, MarkDelivered
<1>1. /\ Undelivered' = Undelivered \ {i}
      /\ \A j \in Undelivered' : outbox'[j] = outbox[j]
  <2>1. /\ DOMAIN outbox' = DOMAIN outbox /\ outbox'[i].delivered
        /\ \A j \in DOMAIN outbox : j # i => outbox'[j] = outbox[j]
    BY <1>0 DEF MarkDelivered, QInv, IInv, TypeOK, Entry
  <2>. QED  BY <1>0, <2>1 DEF Undelivered
<1>2. Untroubled'
  BY <1>0, <1>1 DEF QInv, Untroubled
<1>3. RepeatIsHarmless'
  BY <1>0, <1>1 DEF QInv, RepeatIsHarmless
<1>4. Undelivered' \ reached' = Undelivered \ reached
  BY <1>0, <1>1
<1>5. Lag' = Lag
  BY <1>1, <1>4 DEF Lag
<1>. QED  BY <1>0, <1>2, <1>3, <1>5 DEF QInv, Abstract!replicaVars

LEMMA BootIsSilent ==
  ASSUME QInv, IInv', Boot
  PROVE  QInv' /\ UNCHANGED Abstract!replicaVars
<1>1. outbox' = [i \in DOMAIN outbox |-> outbox[i]] /\ local' = local /\ troubled' = {}
  BY NoFaults DEF Boot, QInv, Untroubled
<1>2. /\ Undelivered' = Undelivered
      /\ \A j \in Undelivered : outbox'[j] = outbox[j]
  BY <1>1 DEF Undelivered
<1>3. process' # "lost"
  BY DEF Boot, Start
<1>. QED  BY <1>1, <1>2, <1>3, SameReplica DEF Boot, QInv, Untroubled

LEMMA StepImplementsReplica ==
  ASSUME NeonAnswers
  PROVE  QInv /\ [Next]_vars => QInv' /\ [Abstract!RNext]_(Abstract!replicaVars)
<1>. SUFFICES ASSUME QInv, [Next]_vars
              PROVE  QInv' /\ [Abstract!RNext]_(Abstract!replicaVars)
  OBVIOUS
<1>0. IInv'
  BY NextIInv DEF QInv
<1>1. ASSUME NEW s \in Statement, NEW v \in Val \union {None}, Write(s, v)
      PROVE  QInv' /\ Abstract!RNext
  BY <1>0, <1>1, WriteIsCommit DEF Abstract!RNext
<1>2. ASSUME NEW i \in batch, Apply(i)
      PROVE  QInv' /\ [Abstract!RNext]_(Abstract!replicaVars)
  BY <1>0, <1>2, ApplyIsReplicate DEF Abstract!RNext
<1>3. ASSUME NEW i \in batch, MarkDelivered(i)
      PROVE  QInv' /\ UNCHANGED Abstract!replicaVars
  BY <1>0, <1>3, DeliveredIsSilent
<1>4. CASE Boot
  BY <1>0, <1>4, BootIsSilent
<1>5. CASE Drain
  <2>1. Undelivered' = Undelivered
    BY <1>5 DEF Drain, Undelivered
  <2>. QED  BY <1>0, <1>5, <2>1, SameReplica DEF Drain
<1>6. CASE IterationFails \/ Stop \/ Kill
  <2>1. Undelivered' = Undelivered
    BY <1>6 DEF IterationFails, Stop, Kill, Undelivered
  <2>2. process' # "lost"
    BY <1>6 DEF IterationFails, Stop, Kill, QInv, Untroubled
  <2>3. spare'["failures"] = spare["failures"] /\ spare'["losses"] = spare["losses"]
    BY <1>6 DEF IterationFails, Stop, Kill, Spend, QInv, IInv, TypeOK
  <2>4. (answer' = answer /\ batch' = batch) \/ answer' = "none"
    BY <1>6 DEF IterationFails, Stop, Kill
  <2>. QED  BY <1>0, <1>6, <2>1, <2>2, <2>3, <2>4, SameReplica DEF IterationFails, Stop, Kill
<1>7. CASE UNCHANGED vars
  <2>1. Undelivered' = Undelivered
    BY <1>7 DEF vars, Undelivered
  <2>. QED  BY <1>0, <1>7, <2>1, SameReplica DEF vars, QInv, Untroubled
<1>. QED  BY <1>1, <1>2, <1>3, <1>4, <1>5, <1>6, <1>7, NoFaults DEF Next, Dispatch

\* While Neon answers every call the mirror is a past of the local database: each
\* row write reaches it once and in order, whatever dies between Neon's commit
\* and the dispatcher's record (dispatcher.py, "in commit order").
THEOREM MirrorIsReplica ==
  ASSUME NeonAnswers
  PROVE  Spec => ImplementsReplica
<1>1. Init => QInv /\ Abstract!RInit
  <2>1. Init => QInv
    BY InitQInv
  <2>2. Init => Abstract!RInit
    BY DEF Init, Abstract!RInit, Lag, Undelivered, Empty
  <2>. QED  BY <2>1, <2>2
<1>2. QInv /\ [Next]_vars => QInv' /\ [Abstract!RNext]_(Abstract!replicaVars)
  BY StepImplementsReplica
<1>. QED  BY <1>1, <1>2, PTL DEF Spec, ImplementsReplica, Abstract!RSpec

=============================================================================
