----------------------------- MODULE AuditDialog -----------------------------
(***************************************************************************)
(* Completing a document in the annotation page (routes/AnnotateDoc.tsx)   *)
(* against the server's audit (quality/service.py, annotations/service.py) *)
(* while the prediction of the document is replaced: the page asks for a   *)
(* comparison, shows its rows if they need an answer, commits with the     *)
(* fingerprint of what it compared, and compares again once when the       *)
(* server finds that fingerprint missing or old.                           *)
(*                                                                         *)
(* Every click starts a chain of requests, a job; the buttons that are     *)
(* enabled while a job waits can start another.  A request is served in    *)
(* one step (a read, or one transaction) and answered in a later one, and  *)
(* either way may be lost.                                                 *)
(***************************************************************************)
EXTENDS ReferenceAudit

CONSTANTS Pool,             \* the references a user may enter
          Lists,            \* the lists that are compared ...
          Predictions,      \* ... with any of these answers of the model
          Opened,           \* the lists a page is opened on ...
          Answers,          \* ... and the rows [refs, usable] there are then
          Jobs,             \* names of concurrent request chains
          MaxUpsets,        \* bounds: edits and failures,
          MaxPredictions    \* ... and predictions that replace another

VARIABLES pred,     \* the model_predictions row of the document, or None
          ann,      \* its annotation, or None
          page,     \* the page: list, phase, shown comparison, accepted rows ...
          job,      \* the chain each job is in
          logged,   \* the last row of annotation_audit_logs, or None
          budget    \* edits and failures, and predictions, so far

vars == <<pred, ann, page, job, logged, budget>>

\* The fingerprint covers the references and the model, not the status.
Fingerprint == IF pred = None THEN None ELSE pred.refs

Report(list) ==
  IF pred = None \/ ~pred.usable
  THEN [kind |-> "report", ready |-> FALSE, fp |-> Fingerprint, bucket |-> None, rows |-> {}]
  ELSE [kind |-> "report", ready |-> TRUE, fp |-> pred.refs,
        bucket |-> Audit(list, pred.refs).bucket, rows |-> Audit(list, pred.refs).rows]

RequiresAck(bucket) == bucket # "GREEN"
Asks(report) == report.kind = "report" /\ report.ready /\ RequiresAck(report.bucket)

\* derive_decision, with the test for an accepted suggestion of evaluate_for_commit
Decision(report, final, previous) ==
  IF ~report.ready THEN "model_unavailable"
  ELSE IF Asks(report) THEN "human_override"
  ELSE IF (Identities(final) \cap Identities(pred.refs)) \ Identities(previous) # {}
  THEN "accepted_model" ELSE "no_discrepancy"

Conflict(report, ack) ==
  report.ready /\ \/ ack = None /\ RequiresAck(report.bucket)
                  \/ ack # None /\ ack # report.fp

-----------------------------------------------------------------------------
Idle == [step |-> "free"]
Ok == [kind |-> "ok"]
Refused == [kind |-> "conflict"]    \* 409 audit_required or audit_stale
Error == [kind |-> "error"]

ASSUME NoneIsNoAnswer ==
  /\ None \notin {Ok, Refused, Error} /\ None # "refused"
  /\ \A p \in Answers : p.refs # None
  /\ None \notin Predictions

ASSUME ListsOfReferences ==
  /\ Pool \subseteq References
  /\ Lists \cup Predictions \cup Opened \subseteq Seq(References)
  /\ \A p \in Answers : p.refs \in Seq(References)

\* checkAndRemoveDuplicateReferences: the quotation is not compared.
Equivalent(r, q) == <<r.no, r.ad, r.madde, r.fikra, r.bent>> = <<q.no, q.ad, q.madde, q.fikra, q.bent>>
Deduped(list) ==
  LET first[i \in 0..Len(list)] ==
        IF i = 0 THEN <<>>
        ELSE LET kept == first[i - 1]
             IN  IF \E k \in DOMAIN kept : Equivalent(kept[k], list[i])
                 THEN kept ELSE Append(kept, list[i])
  IN  first[Len(list)]

OpenedOn(list) ==
  [list |-> list, phase |-> "idle", shown |-> None, accepted |-> {},
   completed |-> ann # None /\ ann.completed, toast |-> None]

\* Without a page ("away") there is only the comparison of the two lists.
Init ==
  /\ ann \in {None, [refs |-> <<>>, completed |-> TRUE]}
  /\ \/ /\ pred \in Answers \cup {None}
        /\ page \in {OpenedOn(list) : list \in Opened}
     \/ /\ ann = None
        /\ pred \in [refs : Predictions, usable : {TRUE}]
        /\ page \in {[OpenedOn(list) EXCEPT !.phase = "away"] : list \in Lists}
  /\ job = [j \in Jobs |-> Idle]
  /\ logged = None
  /\ budget = [upsets |-> 0, predictions |-> 0]

Spend(what) == budget' = [budget EXCEPT ![what] = @ + 1]

\* isCompleting: completeMutation.isPending
IsCompleting == \E j \in Jobs : job[j].step = "commit"
Here == page.phase # "away"

\* What a job does next, and what the page becomes if it is still there.
Request(j, step) ==
  job' = [job EXCEPT ![j] = [@ EXCEPT !.step = step, !.reply = None]]
\* Mutant: the second attempt sends the fingerprint of the first.
CommitSameAck(j, ack, attempt) ==
  job' = [job EXCEPT ![j] = [@ EXCEPT !.step = "commit", !.reply = None,
                                      !.ack = IF attempt = 0 THEN ack ELSE @,
                                      !.answer = job[j].reply, !.attempt = attempt]]
Commit(j, ack, attempt) ==
  job' = [job EXCEPT ![j] = [@ EXCEPT !.step = "commit", !.reply = None, !.ack = ack,
                                      !.answer = job[j].reply, !.attempt = attempt]]
Finish(j) == job' = [job EXCEPT ![j] = Idle]
SetAudit(phase, shown, toast) ==
  page' = IF Here THEN [page EXCEPT !.phase = phase, !.shown = shown, !.toast = toast] ELSE page

\* consent, answer and overtaken are history: the prediction the click overrode,
\* the last comparison that was answered, and whether the prediction was replaced
\* since it was made.
NewJob(step, target, list, ack, consent) ==
  [step |-> step, target |-> target, list |-> list, ack |-> ack, attempt |-> 0, reply |-> None,
   consent |-> consent, answer |-> None, overtaken |-> FALSE]

-----------------------------------------------------------------------------
(* The annotator. *)

ClickComplete(j) ==
  /\ job[j] = Idle /\ page.phase \in {"idle", "open"} /\ ~IsCompleting
  /\ LET clean == Deduped(page.list)
     IN  IF page.completed
         THEN /\ job' = [job EXCEPT ![j] = NewJob("commit", FALSE, clean, None, None)]
              /\ UNCHANGED page
         ELSE /\ job' = [job EXCEPT ![j] = NewJob("audit", TRUE, clean, None, None)]
              /\ page' = [page EXCEPT !.list = clean, !.phase = "running", !.shown = None]
  /\ UNCHANGED <<pred, ann, logged, budget>>

ClickCompare(j) ==
  /\ job[j] = Idle /\ page.phase = "idle"
  /\ job' = [job EXCEPT ![j] = NewJob("compare", TRUE, page.list, None, None)]
  /\ page' = [page EXCEPT !.phase = "running"]
  /\ UNCHANGED <<pred, ann, logged, budget>>

ClickOverride(j) ==
  /\ job[j] = Idle /\ page.phase = "open" /\ ~IsCompleting
  /\ job' = [job EXCEPT ![j] = NewJob("commit", TRUE, Deduped(page.list),
                                      page.shown.fp, page.shown.fp)]
  /\ UNCHANGED <<pred, ann, page, logged, budget>>

Back ==
  /\ page.phase = "open" /\ ~IsCompleting
  /\ page' = [page EXCEPT !.phase = "idle", !.shown = None]
  /\ UNCHANGED <<pred, ann, job, logged, budget>>

\* handleAcceptSuggestion: the model's reference goes to the end of the list.
Accept(row) ==
  /\ page.phase = "open" /\ ~IsCompleting
  /\ row \in page.shown.rows \ page.accepted /\ row.model # None
  /\ page' = [page EXCEPT !.list = Append(@, row.model), !.accepted = @ \cup {row}]
  /\ UNCHANGED <<pred, ann, job, logged, budget>>

Edit ==
  /\ page.phase \in {"idle", "running"} /\ budget.upsets < MaxUpsets
  /\ \/ \E r \in Pool : page' = [page EXCEPT !.list = Append(@, r)]
     \/ \E i \in DOMAIN page.list :
          page' = [page EXCEPT !.list = SubSeq(@, 1, i - 1) \o SubSeq(@, i + 1, Len(@))]
  /\ Spend("upsets")
  /\ UNCHANGED <<pred, ann, job, logged>>

\* The annotation query is refetched when the window gets the focus.
Refetch ==
  /\ Here /\ ann # None /\ page.completed # ann.completed
  /\ page' = [page EXCEPT !.completed = ann.completed]
  /\ UNCHANGED <<pred, ann, job, logged, budget>>

-----------------------------------------------------------------------------
(* The server and the predict agent. *)

Busy(j) == job[j].step # "free" /\ job[j].reply = None
Answered(j, step) == job[j].step = step /\ job[j].reply # None

\* upsert_predictions, or the deletion of the row by an ingested new text.
Predict ==
  /\ budget.predictions < MaxPredictions
  /\ Here \/ \E j \in Jobs : Busy(j)
  /\ pred' \in (Answers \cup {None}) \ {pred}
  /\ job' = [j \in Jobs |-> IF Busy(j) \/ Answered(j, "reaudit")
                            THEN [job[j] EXCEPT !.overtaken = TRUE] ELSE job[j]]
  /\ Spend("predictions")
  /\ UNCHANGED <<ann, page, logged>>

ServeAudit(j) ==
  /\ Busy(j) /\ job[j].step # "commit"
  /\ job' = [job EXCEPT ![j].reply = Report(job[j].list), ![j].overtaken = FALSE]
  /\ UNCHANGED <<pred, ann, page, logged, budget>>

ServeUncomplete(j) ==
  /\ Busy(j) /\ job[j].step = "commit" /\ ~job[j].target
  /\ job' = [job EXCEPT ![j].reply = IF ann = None THEN Error ELSE Ok]
  /\ ann' = IF ann = None THEN None ELSE [ann EXCEPT !.completed = FALSE]
  /\ UNCHANGED <<pred, page, logged, budget>>

ServeComplete(j) ==
  /\ Busy(j) /\ job[j].step = "commit" /\ job[j].target
  /\ LET final == Cleaned(job[j].list)
         report == Report(final)
     IN  IF Conflict(report, job[j].ack)
         THEN /\ job' = [job EXCEPT ![j].reply = Refused]
              /\ UNCHANGED <<ann, logged>>
         ELSE /\ job' = [job EXCEPT ![j].reply = Ok]
              /\ ann' = [refs |-> final, completed |-> TRUE]
              /\ logged' = [decision |-> Decision(report, final,
                                                  IF ann = None THEN final ELSE ann.refs),
                            fp |-> report.fp, consent |-> job[j].consent,
                            answer |-> job[j].answer, cut |-> final # job[j].list]
  /\ UNCHANGED <<pred, page, budget>>

\* The request or its answer is lost, or the server refuses it for another reason.
Fail(j) ==
  /\ budget.upsets < MaxUpsets
  /\ job[j].step # "free" /\ job[j].reply # Error
  /\ job' = [job EXCEPT ![j].reply = Error]
  /\ Spend("upsets")
  /\ UNCHANGED <<pred, ann, page, logged>>

-----------------------------------------------------------------------------
(* The answers. *)

\* Without an answer, or without a usable prediction, it commits without one.
AuditAnswered(j) ==
  /\ Answered(j, "audit")
  /\ LET reply == job[j].reply
     IN  IF Asks(reply)
         THEN Finish(j) /\ SetAudit("open", reply, None)
         ELSE /\ Commit(j, IF reply = Error \/ ~reply.ready THEN None ELSE reply.fp, 0)
              /\ SetAudit("idle", None, None)
  /\ UNCHANGED <<pred, ann, logged, budget>>

CompareAnswered(j) ==
  /\ Answered(j, "compare")
  /\ Finish(j)
  /\ IF Asks(job[j].reply) THEN SetAudit("open", job[j].reply, None)
                            ELSE SetAudit("idle", None, None)
  /\ UNCHANGED <<pred, ann, logged, budget>>

CommitAnswered(j) ==
  /\ Answered(j, "commit")
  /\ \/ job[j].reply = Ok /\ Finish(j) /\ SetAudit("away", None, None)
     \/ job[j].reply = Error /\ Finish(j) /\ SetAudit("idle", None, "failed")
     \/ /\ job[j].reply = Refused /\ job[j].attempt >= 1
        /\ Finish(j) /\ SetAudit("idle", None, IF job[j].overtaken THEN "overtaken" ELSE "refused")
     \/ job[j].reply = Refused /\ job[j].attempt = 0 /\ Request(j, "reaudit") /\ UNCHANGED page
  /\ UNCHANGED <<pred, ann, logged, budget>>

\* Mutant: the second comparison is never shown.
ReauditAnsweredInTheQuiet(j) ==
  /\ Answered(j, "reaudit")
  /\ \/ job[j].reply = Error /\ Finish(j) /\ SetAudit("idle", None, "failed")
     \/ /\ job[j].reply # Error
        /\ Commit(j, job[j].reply.fp, job[j].attempt + 1) /\ UNCHANGED page
  /\ UNCHANGED <<pred, ann, logged, budget>>

\* Here the fingerprint is sent whether the prediction is usable or not.
ReauditAnswered(j) ==
  /\ Answered(j, "reaudit")
  /\ LET reply == job[j].reply
     IN  \/ reply = Error /\ Finish(j) /\ SetAudit("idle", None, "failed")
         \/ Asks(reply) /\ Finish(j) /\ SetAudit("open", reply, None)
         \/ /\ reply # Error /\ ~Asks(reply)
            /\ Commit(j, reply.fp, job[j].attempt + 1) /\ UNCHANGED page
  /\ UNCHANGED <<pred, ann, logged, budget>>

Next ==
  \/ Back \/ Edit \/ Refetch \/ Predict
  \/ \E row \in IF page.shown = None THEN {} ELSE page.shown.rows : Accept(row)
  \/ \E j \in Jobs : \/ ClickComplete(j) \/ ClickCompare(j) \/ ClickOverride(j)
                     \/ ServeAudit(j) \/ ServeUncomplete(j) \/ ServeComplete(j) \/ Fail(j)
                     \/ AuditAnswered(j) \/ CompareAnswered(j)
                     \/ CommitAnswered(j) \/ ReauditAnswered(j)

Spec == Init /\ [][Next]_vars

-----------------------------------------------------------------------------
(* Properties. *)

\* The comparison of what the page holds with what the model answered: the rows
\* of the diff and the bucket of the router, two algorithms, never contradict
\* each other (adapter.py, ab_diff).
RowsMatchBucket == pred # None => RowsMatchBucketOf(page.list, pred.refs)

\* The panel offers no reference the list already has, and leaves out nothing
\* that only one side has (adapter.py, ab_diff and audit_references).
OffersAreNew == pred # None => OffersAreNewOf(page.list, pred.refs)

\* What the docstring of AuditAck says: an acknowledgement is of somebody who
\* saw the comparison with that prediction and pressed the button under it.
OverrideIsHis ==
  logged # None /\ logged.decision = "human_override" => logged.consent = logged.fp

\* An override that nobody pressed has one of two origins, both under the very
\* prediction that the page acknowledged by itself: it was not usable when the
\* page compared, or it asked for nothing then and saving dropped a reference
\* from the list that was compared.
UnpressedOverride ==
  logged # None /\ logged.decision = "human_override" /\ logged.consent # logged.fp =>
    /\ logged.answer # None /\ logged.answer.fp = logged.fp
    /\ ~logged.answer.ready \/ (~Asks(logged.answer) /\ logged.cut)

\* The page gives up on a completion only if the prediction was replaced once
\* more between its second comparison and its second attempt.
RefusedOnlyIfOvertaken == page.toast # "refused"
===============================================================================
