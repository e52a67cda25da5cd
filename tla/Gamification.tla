--------------------------- MODULE Gamification ---------------------------
(* What follows a committed save, completion or skip                        *)
(* (src/backend/gamification/service.py): the ledger of points and the      *)
(* total, the streak, the counters of the day, the badges and their         *)
(* notifications.                                                           *)
(*                                                                          *)
(* The save and complete routes are coroutines without a suspension between *)
(* the commit of the annotation and the end of its side effects, so one     *)
(* such request runs at a time: it is a job whose steps are the statements  *)
(* and transactions of run_after_save and run_after_complete.  The skip     *)
(* route runs in the thread pool, in two steps, between those of the job.   *)
(* A step may raise, and the server may die after any of them.              *)
EXTENDS Integers, FiniteSets, Sequences

CONSTANTS
  User,        \* annotators with an open training gate
  Doc,
  None,
  Xp,          \* reason -> points, the gamification.xp_* settings
  SaveMarks,   \* saves at which an annotations_N badge is due
  StreakMark,  \* days of a streak at which marathoner is due
  MinReviews, MinKept,   \* what good_reviewer asks for
  MaxDay,      \* bound: days that pass
  MaxRequests, \* bound: saves and completions
  MaxSkips,    \* bound: skips
  MaxFailures  \* bound: steps that raise and deaths of the server

Reason == {"save", "review", "review_kept", "complete"}
Bounded == {"requests", "skips", "failures"}
Position == {"idle", "award", "streak", "badges", "kept", "kept_badges",
             "done_award", "done_streak", "done_badges"}
Badge == {<<"annotations", n>> : n \in SaveMarks}
           \cup {<<"first_completion", 1>>, <<"marathoner", StreakMark>>,
                 <<"good_reviewer", MinReviews>>}

Counter == {"save", "complete", "review", "skip"}
State == [total : Nat, current : Nat, longest : Nat, last : Nat \cup {None},
          counts : [Counter -> Nat]]

ASSUME GamificationAssumption ==
  /\ Xp \in [Reason -> Nat]
  /\ SaveMarks \subseteq Nat \ {0} /\ StreakMark \in Nat \ {0}
  /\ MinReviews \in Nat \ {0} /\ MinKept \in Nat
  /\ None \notin User /\ None \notin Nat /\ None \notin State
  /\ MaxDay \in Nat /\ MaxRequests \in Nat /\ MaxSkips \in Nat /\ MaxFailures \in Nat

VARIABLES
  ledger,    \* user -> reason -> rows of gamification_ledger
  rows,      \* user -> row of gamification_state, or None
  badges,    \* user -> rows of badges_earned
  inbox,     \* user -> badge -> badge_unlocked notifications created
  chain,     \* document -> authors of its two newest versions
  completed, \* documents whose annotation is completed
  job,       \* the side effects on their way in the event loop
  skipping,  \* user -> the row a skip has read and not yet written, or None
  today,     \* the day in Turkey
  used,      \* requests, skips and failures so far, for the bounds
  \* History.
  lost,      \* user -> points of ledger rows whose total was never updated
  unchecked, \* users whose ledger or streak moved since their badges were checked
  activeDays, \* user -> days on which a save was counted
  events,    \* user -> what was counted today
  overlapped \* users one of whose skips overlapped another counted event

vars == <<ledger, rows, badges, inbox, chain, completed, job, skipping, today,
          used, lost, unchecked, activeDays, events, overlapped>>

Bound == [requests |-> MaxRequests, skips |-> MaxSkips, failures |-> MaxFailures]
Uses(c) == used[c] < Bound[c] /\ used' = [used EXCEPT ![c] = @ + 1]

-----------------------------------------------------------------------------
(* The state row.                                                           *)

Zero == [c \in Counter |-> 0]
ZeroState == [total |-> 0, current |-> 0, longest |-> 0, last |-> None,
              counts |-> Zero]
ensure_state(u) == IF rows[u] = None THEN ZeroState ELSE rows[u]

\* _maybe_reset_today_counters: every counter is zero unless a save was already
\* counted today.
ResetLate(row) == IF row.last # None /\ row.last + 1 >= today THEN row ELSE [row EXCEPT !.counts = Zero]
Reset(row) == IF row.last = today THEN row ELSE [row EXCEPT !.counts = Zero]

IsRecent(last) == last # None /\ last + 2 >= today
IsYesterday(last) == last # None /\ last = today - 1

\* _next_streak.
NextStreak(row) ==
  IF row.last = today THEN row
  ELSE LET current == IF IsYesterday(row.last) THEN row.current + 1 ELSE 1
       IN [row EXCEPT !.last = today, !.current = current,
                      !.longest = IF current > row.longest THEN current ELSE row.longest]

\* get_profile_state: what the user sees.
Shown(u) == Reset(ensure_state(u)).counts

\* The counters an action of update_streak_and_counters moves.
Bumped(action) == CASE action = "save_create" -> {"save"}
                    [] action = "save_edit" -> {"save", "review"}
                    [] action = "complete" -> {"complete"}

Bump(counts, moved) == [c \in Counter |-> counts[c] + IF c \in moved THEN 1 ELSE 0]

-----------------------------------------------------------------------------
(* Badges.                                                                  *)

Saves(u) == ledger[u]["save"] + ledger[u]["review"]
Streak(u) == IF rows[u] = None THEN 0 ELSE rows[u].current

\* check_badges, before those already earned are taken out.
Candidates(u) ==
  {<<"annotations", n>> : n \in {m \in SaveMarks : Saves(u) >= m}}
    \cup {b \in {<<"first_completion", 1>>} : ledger[u]["complete"] >= 1}
    \cup {b \in {<<"marathoner", StreakMark>>} : Streak(u) >= StreakMark}
    \cup {b \in {<<"good_reviewer", MinReviews>>} :
            ledger[u]["review"] >= MinReviews /\ ledger[u]["review_kept"] >= MinKept}

check_badges_again(u) == Candidates(u)
check_badges(u) == Candidates(u) \ badges[u]

\* Init: nobody has a row, the documents are not annotated.
Idle == [at |-> "idle", user |-> None, action |-> None, prior |-> None, completes |-> FALSE]

Init ==
  /\ ledger = [u \in User |-> [r \in Reason |-> 0]]
  /\ rows = [u \in User |-> None]
  /\ badges = [u \in User |-> {}]
  /\ inbox = [u \in User |-> [b \in Badge |-> 0]]
  /\ chain = [d \in Doc |-> <<>>]
  /\ completed = {}
  /\ job = Idle
  /\ skipping = [u \in User |-> None]
  /\ today = 0
  /\ used = [c \in Bounded |-> 0]
  /\ lost = [u \in User |-> 0]
  /\ unchecked = {}
  /\ activeDays = [u \in User |-> {}]
  /\ events = [u \in User |-> Zero]
  /\ overlapped = {}

-----------------------------------------------------------------------------
(* The requests.  The annotation is committed before its side effects start. *)

Extended(authors, u) == IF authors = <<>> THEN <<u>> ELSE <<u, authors[1]>>

\* _prior_version_user_id: the author of the version before the newest, if it
\* is somebody else.  No other request commits a version while the job runs.
PriorVersionUser(authors, u) ==
  IF Len(authors) < 2 \/ authors[2] = u THEN None ELSE authors[2]
Starts == job.at = "idle" /\ Uses("requests")

\* POST /annotations; an edit that changes something reopens the document.
save(u, d) ==
  /\ Starts
  /\ LET authors == Extended(chain[d], u)
     IN \E zero \in BOOLEAN :
          /\ chain' = [chain EXCEPT ![d] = authors]
          /\ job' = [at |-> "award", user |-> u, completes |-> FALSE,
                     action |-> IF chain[d] = <<>> THEN "create" ELSE "edit",
                     prior |-> IF chain[d] # <<>> /\ zero
                               THEN PriorVersionUser(authors, u) ELSE None]
          /\ completed' = IF chain[d] = <<>> \/ zero THEN completed ELSE completed \ {d}
  /\ UNCHANGED <<ledger, rows, badges, inbox, skipping, today,
                 lost, unchecked, activeDays, events, overlapped>>

\* POST /complete with references: a first annotation writes two versions.
complete_with_save(u, d) ==
  /\ Starts
  /\ LET first == chain[d] = <<>>
         authors == IF first THEN <<u, u>> ELSE Extended(chain[d], u)
     IN \E zero \in BOOLEAN :
          /\ chain' = [chain EXCEPT ![d] = authors]
          /\ job' = [at |-> "award", user |-> u, completes |-> d \notin completed,
                     action |-> IF first THEN "create" ELSE "edit",
                     prior |-> IF ~first /\ zero THEN PriorVersionUser(authors, u) ELSE None]
  /\ completed' = completed \cup {d}
  /\ UNCHANGED <<ledger, rows, badges, inbox, skipping, today,
                 lost, unchecked, activeDays, events, overlapped>>

\* POST /complete without references; the same state again has no effect.
set_complete(u, d) ==
  /\ Starts
  /\ chain[d] # <<>>
  /\ chain' = [chain EXCEPT ![d] = Extended(@, u)]
  /\ \/ /\ d \notin completed
        /\ completed' = completed \cup {d}
        /\ job' = [Idle EXCEPT !.at = "done_award", !.user = u, !.completes = TRUE]
     \/ /\ d \in completed
        /\ completed' = completed \ {d}
        /\ UNCHANGED job
  /\ UNCHANGED <<ledger, rows, badges, inbox, skipping, today,
                 lost, unchecked, activeDays, events, overlapped>>

-----------------------------------------------------------------------------
(* The steps of the job: run_after_save, then run_after_complete.           *)

GoTo(next) == job' = IF next = "idle" THEN Idle ELSE [job EXCEPT !.at = next]

AfterSave == IF job.completes THEN "done_award" ELSE "idle"
AfterBadges == IF job.prior # None THEN "kept" ELSE AfterSave

CreditedIfNew(u, reason) ==
  rows' = [rows EXCEPT ![u] = IF @ = None THEN [ZeroState EXCEPT !.total = Xp[reason]] ELSE @]
Credited(u, reason) ==
  rows' = [rows EXCEPT ![u] = [ensure_state(u) EXCEPT !.total = @ + Xp[reason]]]

\* award_xp: two statements, each of which commits by itself.
award_xp(u, reason) ==
  /\ ledger' = [ledger EXCEPT ![u][reason] = @ + 1]
  /\ unchecked' = unchecked \cup {u}
  /\ Credited(u, reason)
  /\ UNCHANGED <<lost, used>>

\* It raises before the first statement or between the two.
award_xp_fails(u, reason) ==
  /\ Uses("failures")
  /\ rows' = [rows EXCEPT ![u] = ensure_state(u)]
  /\ \/ UNCHANGED <<ledger, unchecked, lost>>
     \/ /\ ledger' = [ledger EXCEPT ![u][reason] = @ + 1]
        /\ unchecked' = unchecked \cup {u}
        /\ lost' = [lost EXCEPT ![u] = @ + Xp[reason]]

\* Points for the own action; none are recorded when the setting is zero.
Award(at, reason, next) ==
  /\ job.at = at
  /\ \/ Xp[reason] > 0 /\ award_xp(job.user, reason)
     \/ Xp[reason] > 0 /\ award_xp_fails(job.user, reason)
     \/ Xp[reason] = 0 /\ UNCHANGED <<ledger, rows, lost, unchecked, used>>
  /\ GoTo(next)
  /\ UNCHANGED <<badges, inbox, chain, completed, skipping, today, activeDays,
                 events, overlapped>>

\* update_streak_and_counters.
Counted(row, action) ==
  LET fresh == Reset(row)
      run == IF action = "complete" THEN fresh ELSE NextStreak(fresh)
  IN [run EXCEPT !.counts = Bump(@, Bumped(action))]

update_streak_and_counters(u, action) ==
  LET row == ensure_state(u)
      isSave == action # "complete"
  IN /\ rows' = [rows EXCEPT ![u] = Counted(row, action)]
     /\ events' = [events EXCEPT ![u] = Bump(@, Bumped(action))]
     /\ activeDays' = IF isSave THEN [activeDays EXCEPT ![u] = @ \cup {today}] ELSE activeDays
     /\ unchecked' = IF isSave THEN unchecked \cup {u} ELSE unchecked
     /\ overlapped' = IF isSave /\ row.last # today THEN overlapped \ {u} ELSE overlapped
     /\ UNCHANGED used

Count(at, action, next) ==
  /\ job.at = at
  /\ \/ update_streak_and_counters(job.user, action)
     \/ /\ Uses("failures")
        /\ rows' = [rows EXCEPT ![job.user] = ensure_state(job.user)]
        /\ UNCHANGED <<events, activeDays, unchecked, overlapped>>
  /\ GoTo(next)
  /\ UNCHANGED <<ledger, badges, inbox, chain, completed, skipping, today, lost>>

\* _award_badges_and_notify: badge by badge, the row and then its notification.
Unlocked(u, held, told) ==
  /\ badges' = [badges EXCEPT ![u] = @ \cup held]
  /\ inbox' = [inbox EXCEPT ![u] = [b \in Badge |-> @[b] + IF b \in told THEN 1 ELSE 0]]

\* It may raise with some badges inserted, the last of them without its notification.
BadgeCheck(at, u, next) ==
  /\ job.at = at
  /\ \/ /\ Unlocked(u, check_badges(u), check_badges(u))
        /\ unchecked' = unchecked \ {u}
        /\ UNCHANGED used
     \/ /\ Uses("failures")
        /\ \E held \in SUBSET check_badges(u) : \E told \in SUBSET held :
             /\ Cardinality(held \ told) <= 1 /\ told # check_badges(u)
             /\ Unlocked(u, held, told)
        /\ UNCHANGED unchecked
  /\ GoTo(next)
  /\ UNCHANGED <<ledger, rows, chain, completed, skipping, today, lost,
                 activeDays, events, overlapped>>

\* review_kept for the author of the version that was confirmed, whatever the
\* points are; a failure skips that user's badges.
Kept ==
  /\ job.at = "kept"
  /\ \/ award_xp(job.prior, "review_kept") /\ GoTo("kept_badges")
     \/ award_xp_fails(job.prior, "review_kept") /\ GoTo(AfterSave)
  /\ UNCHANGED <<badges, inbox, chain, completed, skipping, today, activeDays,
                 events, overlapped>>

run_after_save ==
  \/ Award("award", IF job.action = "create" THEN "save" ELSE "review", "streak")
  \/ Count("streak", IF job.action = "create" THEN "save_create" ELSE "save_edit", "badges")
  \/ BadgeCheck("badges", job.user, AfterBadges)
  \/ Kept
  \/ BadgeCheck("kept_badges", job.prior, AfterSave)

run_after_complete ==
  \/ Award("done_award", "complete", "done_streak")
  \/ Count("done_streak", "complete", "done_badges")
  \/ BadgeCheck("done_badges", job.user, "idle")

-----------------------------------------------------------------------------
(* record_skip, in the thread pool.                                         *)

SkipReads(u) ==
  /\ skipping[u] = None /\ Uses("skips")
  /\ rows' = [rows EXCEPT ![u] = ensure_state(u)]
  /\ skipping' = [skipping EXCEPT ![u] = [read |-> ensure_state(u),
                                          counts |-> Reset(ensure_state(u)).counts]]
  /\ UNCHANGED <<ledger, badges, inbox, chain, completed, job, today, lost,
                 unchecked, activeDays, events, overlapped>>

\* The row has moved since it was read.
Stale(u) == \/ rows[u].counts # skipping[u].read.counts
            \/ rows[u].last # skipping[u].read.last

SkipWrites(u) ==
  /\ skipping[u] # None
  /\ rows' = [rows EXCEPT ![u].counts = Bump(skipping[u].counts, {"skip"})]
  /\ events' = [events EXCEPT ![u] = Bump(@, {"skip"})]
  /\ overlapped' = IF Stale(u) THEN overlapped \cup {u} ELSE overlapped
  /\ skipping' = [skipping EXCEPT ![u] = None]
  /\ UNCHANGED <<ledger, badges, inbox, chain, completed, job, today, lost,
                 unchecked, activeDays, used>>

Midnight ==
  /\ today < MaxDay
  /\ today' = today + 1
  /\ events' = [u \in User |-> Zero]
  /\ UNCHANGED <<ledger, rows, badges, inbox, chain, completed, job, skipping,
                 lost, unchecked, activeDays, overlapped, used>>

\* The server dies between two steps; a death within one is a failure of that
\* step followed by this.
Crash ==
  /\ job # Idle \/ \E u \in User : skipping[u] # None
  /\ Uses("failures")
  /\ job' = Idle
  /\ skipping' = [u \in User |-> None]
  /\ UNCHANGED <<ledger, rows, badges, inbox, chain, completed, today, lost,
                 unchecked, activeDays, events, overlapped>>

Next ==
  \/ \E u \in User, d \in Doc : save(u, d) \/ complete_with_save(u, d) \/ set_complete(u, d)
  \/ run_after_save
  \/ run_after_complete
  \/ \E u \in User : SkipReads(u) \/ SkipWrites(u)
  \/ Midnight
  \/ Crash

Spec == Init /\ [][Next]_vars

-----------------------------------------------------------------------------
(* Properties.                                                              *)

\* The types of the variables.
TypeOK ==
  /\ ledger \in [User -> [Reason -> Nat]]
  /\ rows \in [User -> State \cup {None}]
  /\ badges \in [User -> SUBSET Badge]
  /\ inbox \in [User -> [Badge -> Nat]]
  /\ chain \in [Doc -> Seq(User)]
  /\ completed \subseteq Doc
  /\ job \in [at : Position, user : User \cup {None}, action : {"create", "edit", None},
              prior : User \cup {None}, completes : BOOLEAN]
  /\ job.at # "idle" => job.user \in User
  /\ job.at \in {"kept", "kept_badges"} => job.prior \in User
  /\ skipping \in [User -> [read : State, counts : [Counter -> Nat]] \cup {None}]
  /\ today \in 0..MaxDay /\ used \in [Bounded -> Nat]
  /\ lost \in [User -> Nat]
  /\ unchecked \subseteq User /\ overlapped \subseteq User
  /\ activeDays \in [User -> SUBSET (0..MaxDay)]
  /\ events \in [User -> [Counter -> Nat]]

Total(u) == IF rows[u] = None THEN 0 ELSE rows[u].total
Points(u) == ledger[u]["save"] * Xp["save"] + ledger[u]["review"] * Xp["review"]
               + ledger[u]["review_kept"] * Xp["review_kept"]
               + ledger[u]["complete"] * Xp["complete"]

\* Whatever raises, whoever skips meanwhile and wherever the server dies, the
\* total of a user (service.py:73-83) is the sum of the ledger rows, less the
\* rows whose own second statement never ran.
TotalIsTheLedger == \A u \in User : Total(u) + lost[u] = Points(u)

\* Best streak so far, which a gap does not take back.
EverDue(u) == Candidates(u)
                \cup {b \in {<<"marathoner", StreakMark>>} :
                        rows[u] # None /\ rows[u].longest >= StreakMark}

\* A badge is held only by a user who met its criterion, is announced at most
\* once, and is not missing once the user's badges were checked after the last
\* event that could earn one (badges.py:103-131, service.py:269-297); a check
\* that fails half way is made up for by the next one.
BadgesFollowTheLedger ==
  \A u \in User :
    /\ badges[u] \subseteq EverDue(u)
    /\ u \notin unchecked => Candidates(u) \subseteq badges[u]
    /\ \A b \in Badge : inbox[u][b] <= (IF b \in badges[u] THEN 1 ELSE 0)

\* The days i..j all had a save counted.
Active(u, i, j) == \A k \in 0..MaxDay : i <= k /\ k <= j => k \in activeDays[u]

\* The current streak is the unbroken run of days up to the last day with a
\* save, and the longest one the length of the longest run there has been
\* (service.py:130-140).
StreakIsTheRun ==
  \A u \in User :
    LET row == ensure_state(u)
    IN IF row.last = None
       THEN activeDays[u] = {} /\ row.current = 0 /\ row.longest = 0
       ELSE /\ row.last \in activeDays[u] /\ \A k \in activeDays[u] : k <= row.last
            /\ row.current \in 1..row.longest
            /\ Active(u, row.last - row.current + 1, row.last)
            /\ row.last - row.current \notin activeDays[u]
            /\ \A i, j \in 0..MaxDay : i <= j /\ Active(u, i, j) => j - i + 1 <= row.longest
            /\ \E i \in 0..MaxDay : Active(u, i, i + row.longest - 1)
                                     /\ i + row.longest - 1 <= row.last

\* The counters on the profile (service.py:451-512) are those of today: every
\* counted save and review, and never more completions or skips than there were,
\* unless a skip overwrote the row with what it had read before another event.
CountersAreTheDays ==
  \A u \in User \ overlapped :
    /\ \A c \in {"save", "review"} : Shown(u)[c] = events[u][c]
    /\ \A c \in {"complete", "skip"} : Shown(u)[c] <= events[u][c]

=============================================================================
