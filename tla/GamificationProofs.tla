------------------------ MODULE GamificationProofs ------------------------
(* The ledger, the badges, the streak and the counters of the day, for any  *)
(* users, points and thresholds, whatever raises and wherever the server    *)
(* dies.                                                                    *)
EXTENDS Gamification, TLAPS

\* No day is recorded before it comes.
DaysFit ==
  \A u \in User :
    /\ activeDays[u] \subseteq 0..today
    /\ ensure_state(u).last \in Nat => ensure_state(u).last <= today
    /\ skipping[u] # None /\ skipping[u].read.last \in Nat => skipping[u].read.last <= today

\* What a skip holds was the row's counters if a save was already counted today.
SkipsFit ==
  \A u \in User : skipping[u] # None =>
    /\ rows[u] # None
    /\ skipping[u].read.last = today => skipping[u].counts = skipping[u].read.counts

\* A day without a counted save in the row has no event of one.
QuietDaysAreEmpty ==
  \A u \in User : ensure_state(u).last # today =>
    events[u]["save"] = 0 /\ events[u]["review"] = 0

IInv ==
  /\ TypeOK /\ DaysFit /\ SkipsFit /\ QuietDaysAreEmpty
  /\ TotalIsTheLedger /\ BadgesFollowTheLedger /\ StreakIsTheRun /\ CountersAreTheDays

-----------------------------------------------------------------------------
(* The operators of the model.                                              *)

LEMMA BumpType ==
  ASSUME NEW counts \in [Counter -> Nat], NEW moved
  PROVE  Bump(counts, moved) \in [Counter -> Nat]
BY DEF Bump

LEMMA ZeroType == Zero \in [Counter -> Nat] /\ ZeroState \in State /\ ZeroState # None
BY GamificationAssumption DEF Zero, ZeroState, State

LEMMA EnsureType ==
  ASSUME TypeOK, NEW u \in User
  PROVE  ensure_state(u) \in State /\ ensure_state(u) # None
BY ZeroType, GamificationAssumption DEF TypeOK, ensure_state

LEMMA ResetType ==
  ASSUME NEW row \in State
  PROVE  /\ Reset(row) \in State
         /\ Reset(row).last = row.last /\ Reset(row).current = row.current
         /\ Reset(row).longest = row.longest /\ Reset(row).total = row.total
         /\ row.last = today => Reset(row).counts = row.counts
         /\ row.last # today => Reset(row).counts = Zero
BY ZeroType DEF Reset, State

LEMMA StreakType ==
  ASSUME TypeOK, NEW row \in State
  PROVE  /\ NextStreak(row) \in State
         /\ NextStreak(row).counts = row.counts /\ NextStreak(row).total = row.total
         /\ NextStreak(row).last = today
         /\ row.last = today => NextStreak(row) = row
         /\ row.last # today =>
              /\ NextStreak(row).current = IF IsYesterday(row.last) THEN row.current + 1 ELSE 1
              /\ NextStreak(row).longest =
                   IF NextStreak(row).current > row.longest THEN NextStreak(row).current
                   ELSE row.longest
<1> DEFINE current == IF IsYesterday(row.last) THEN row.current + 1 ELSE 1
           best == IF current > row.longest THEN current ELSE row.longest
<1>1. today \in Nat /\ current \in Nat /\ best \in Nat
  BY DEF TypeOK, State
<1>2. CASE row.last = today
  BY <1>2 DEF NextStreak
<1>3. CASE row.last # today
  <2>1. NextStreak(row) = [row EXCEPT !.last = today, !.current = current, !.longest = best]
    BY <1>3 DEF NextStreak
  <2>. QED  BY <1>1, <1>3, <2>1 DEF State
<1>. QED  BY <1>2, <1>3

Action == {"save_create", "save_edit", "complete"}

LEMMA CountedType ==
  ASSUME TypeOK, NEW row \in State, NEW action \in Action
  PROVE  /\ Counted(row, action) \in State /\ Counted(row, action) # None
         /\ Counted(row, action).total = row.total
         /\ Counted(row, action).counts = Bump(Reset(row).counts, Bumped(action))
         /\ action = "complete" =>
              /\ Counted(row, action).last = row.last
              /\ Counted(row, action).current = row.current
              /\ Counted(row, action).longest = row.longest
         /\ action # "complete" =>
              /\ Counted(row, action).last = today
              /\ Counted(row, action).current = NextStreak(Reset(row)).current
              /\ Counted(row, action).longest = NextStreak(Reset(row)).longest
<1> DEFINE fresh == Reset(row)
           run == IF action = "complete" THEN fresh ELSE NextStreak(fresh)
<1>1. /\ fresh \in State /\ fresh.last = row.last /\ fresh.current = row.current
      /\ fresh.longest = row.longest /\ fresh.total = row.total
  BY ResetType
<1>2. /\ run \in State /\ run.counts = fresh.counts /\ run.total = fresh.total
      /\ action # "complete" => run.last = today
  BY <1>1, StreakType
<1>3. Counted(row, action) = [run EXCEPT !.counts = Bump(run.counts, Bumped(action))]
  BY DEF Counted
<1>4. Bump(run.counts, Bumped(action)) \in [Counter -> Nat]
  BY <1>2, BumpType DEF State
<1>5. /\ Counted(row, action) \in State
      /\ Counted(row, action).total = run.total
      /\ Counted(row, action).counts = Bump(run.counts, Bumped(action))
      /\ Counted(row, action).last = run.last
      /\ Counted(row, action).current = run.current
      /\ Counted(row, action).longest = run.longest
  BY <1>2, <1>3, <1>4 DEF State
<1>. QED  BY <1>1, <1>2, <1>5, GamificationAssumption

LEMMA ShownIs ==
  ASSUME TypeOK, NEW u \in User
  PROVE  /\ ensure_state(u).last = today => Shown(u) = ensure_state(u).counts
         /\ ensure_state(u).last # today => Shown(u) = Zero
         /\ Shown(u) \in [Counter -> Nat]
BY EnsureType, ResetType DEF Shown, State

-----------------------------------------------------------------------------
(* The kinds of steps.                                                      *)

AwardStep(u, reason) ==
  /\ \/ award_xp(u, reason)
     \/ award_xp_fails(u, reason)
     \/ Xp[reason] = 0 /\ UNCHANGED <<ledger, rows, lost, unchecked, used>>
  /\ UNCHANGED <<badges, inbox, chain, completed, skipping, today, activeDays,
                 events, overlapped>>

CountStep(u, action) ==
  /\ \/ update_streak_and_counters(u, action)
     \/ /\ rows' = [rows EXCEPT ![u] = ensure_state(u)]
        /\ Uses("failures")
        /\ UNCHANGED <<events, activeDays, unchecked, overlapped>>
  /\ UNCHANGED <<ledger, badges, inbox, chain, completed, skipping, today, lost>>

BadgeStep(u) == \E at \in Position, next \in Position : BadgeCheck(at, u, next)

RequestStep ==
  /\ \E u \in User, d \in Doc : save(u, d) \/ complete_with_save(u, d) \/ set_complete(u, d)

\* What the rows say of days and counters is as before, and no row disappears.
RowsKept ==
  /\ \A u \in User :
       /\ ensure_state(u)'.last = ensure_state(u).last
       /\ ensure_state(u)'.current = ensure_state(u).current
       /\ ensure_state(u)'.longest = ensure_state(u).longest
       /\ ensure_state(u)'.counts = ensure_state(u).counts
       /\ rows[u] # None => rows'[u] # None
  /\ UNCHANGED <<today, activeDays, events, overlapped>>

LEMMA StepKinds ==
  ASSUME IInv, Next
  PROVE  \/ RequestStep
         \/ \E u \in User, reason \in Reason : AwardStep(u, reason)
         \/ \E u \in User, action \in Action : CountStep(u, action)
         \/ \E u \in User : BadgeStep(u)
         \/ \E u \in User : SkipReads(u) \/ SkipWrites(u)
         \/ Midnight
         \/ Crash
<1>1. /\ job.at # "idle" => job.user \in User
      /\ job.at \in {"kept", "kept_badges"} => job.prior \in User
  BY DEF IInv, TypeOK
<1>2. ASSUME NEW at \in Position \ {"idle"}, NEW next, NEW reason \in Reason, Award(at, reason, next)
      PROVE  \E u \in User, r \in Reason : AwardStep(u, r)
  <2>1. job.user \in User
    BY <1>1, <1>2 DEF Award
  <2>2. AwardStep(job.user, reason)
    BY <1>2 DEF Award, AwardStep
  <2>. QED  BY <2>1, <2>2
<1>3. ASSUME NEW at \in Position \ {"idle"}, NEW next, NEW action \in Action, Count(at, action, next)
      PROVE  \E u \in User, a \in Action : CountStep(u, a)
  <2>1. job.user \in User
    BY <1>1, <1>3 DEF Count
  <2>2. CountStep(job.user, action)
    BY <1>3 DEF Count, CountStep
  <2>. QED  BY <2>1, <2>2
<1>4. ASSUME Kept PROVE \E u \in User, r \in Reason : AwardStep(u, r)
  <2>1. job.prior \in User /\ "review_kept" \in Reason
    BY <1>1, <1>4 DEF Kept, Reason
  <2>2. AwardStep(job.prior, "review_kept")
    BY <1>4 DEF Kept, AwardStep
  <2>. QED  BY <2>1, <2>2
<1>5. AfterBadges \in Position /\ AfterSave \in Position
  BY DEF AfterBadges, AfterSave, Position
<1>6. ASSUME NEW at \in Position \ {"idle"}, NEW next \in Position, NEW u \in User, BadgeCheck(at, u, next)
      PROVE  \E v \in User : BadgeStep(v)
  BY <1>6 DEF BadgeStep
<1>7. ASSUME run_after_save
      PROVE  \/ \E u \in User, reason \in Reason : AwardStep(u, reason)
             \/ \E u \in User, action \in Action : CountStep(u, action)
             \/ \E u \in User : BadgeStep(u)
  <2>1. CASE Award("award", IF job.action = "create" THEN "save" ELSE "review", "streak")
    BY <1>2, <2>1 DEF Reason, Position
  <2>2. CASE Count("streak", IF job.action = "create" THEN "save_create" ELSE "save_edit", "badges")
    BY <1>3, <2>2 DEF Action, Position
  <2>3. CASE BadgeCheck("badges", job.user, AfterBadges)
    <3>1. job.user \in User
      BY <1>1, <2>3 DEF BadgeCheck
    <3>. QED  BY <1>5, <1>6, <2>3, <3>1 DEF Position
  <2>4. CASE Kept
    BY <1>4, <2>4
  <2>5. CASE BadgeCheck("kept_badges", job.prior, AfterSave)
    <3>1. job.prior \in User
      BY <1>1, <2>5 DEF BadgeCheck
    <3>. QED  BY <1>5, <1>6, <2>5, <3>1 DEF Position
  <2>. QED  BY <1>7, <2>1, <2>2, <2>3, <2>4, <2>5 DEF run_after_save
<1>8. ASSUME run_after_complete
      PROVE  \/ \E u \in User, reason \in Reason : AwardStep(u, reason)
             \/ \E u \in User, action \in Action : CountStep(u, action)
             \/ \E u \in User : BadgeStep(u)
  <2>1. CASE Award("done_award", "complete", "done_streak")
    BY <1>2, <2>1 DEF Reason, Position
  <2>2. CASE Count("done_streak", "complete", "done_badges")
    BY <1>3, <2>2 DEF Action, Position
  <2>3. CASE BadgeCheck("done_badges", job.user, "idle")
    <3>1. job.user \in User
      BY <1>1, <2>3 DEF BadgeCheck
    <3>. QED  BY <1>6, <2>3, <3>1 DEF Position
  <2>. QED  BY <1>8, <2>1, <2>2, <2>3 DEF run_after_complete
<1>. QED  BY <1>7, <1>8 DEF Next, RequestStep

-----------------------------------------------------------------------------
(* Types.                                                                   *)

JobOK(j) ==
  /\ j \in [at : Position, user : User \cup {None}, action : {"create", "edit", None},
            prior : User \cup {None}, completes : BOOLEAN]
  /\ j.at # "idle" => j.user \in User
  /\ j.at \in {"kept", "kept_badges"} => j.prior \in User

LEMMA GoToType ==
  ASSUME TypeOK, NEW next \in Position, GoTo(next), job.at # "idle",
         next \in {"kept", "kept_badges"} => job.prior \in User
  PROVE  JobOK(job')
<1>1. CASE next = "idle"
  BY <1>1 DEF GoTo, JobOK, Idle, Position
<1>2. CASE next # "idle"
  BY <1>2 DEF GoTo, JobOK, TypeOK
<1>. QED  BY <1>1, <1>2

LEMMA UsesType ==
  ASSUME TypeOK, NEW c \in Bounded, Uses(c)
  PROVE  used' \in [Bounded -> Nat]
BY DEF TypeOK, Uses

LEMMA RequestType ==
  ASSUME TypeOK, RequestStep
  PROVE  TypeOK'
<1>1. PICK u \in User, d \in Doc : save(u, d) \/ complete_with_save(u, d) \/ set_complete(u, d)
  BY DEF RequestStep
<1>2. chain[d] \in Seq(User)
  BY DEF TypeOK
<1>3. Extended(chain[d], u) \in Seq(User) /\ <<u, u>> \in Seq(User)
  BY <1>2 DEF Extended
<1>4. \A authors \in Seq(User) : PriorVersionUser(authors, u) \in User \cup {None}
  BY DEF PriorVersionUser
<1>5. CASE save(u, d)
  <2>1. JobOK(job') /\ chain' \in [Doc -> Seq(User)]
    BY <1>3, <1>4, <1>5 DEF save, JobOK, Position, TypeOK
  <2>2. used' \in [Bounded -> Nat]
    BY <1>5, UsesType DEF save, Starts, Bounded
  <2>. QED  BY <1>5, <2>1, <2>2 DEF save, TypeOK, JobOK
<1>6. CASE complete_with_save(u, d)
  <2>1. JobOK(job') /\ chain' \in [Doc -> Seq(User)] /\ completed' \subseteq Doc
    BY <1>3, <1>4, <1>6 DEF complete_with_save, JobOK, Position, TypeOK
  <2>2. used' \in [Bounded -> Nat]
    BY <1>6, UsesType DEF complete_with_save, Starts, Bounded
  <2>. QED  BY <1>6, <2>1, <2>2 DEF complete_with_save, TypeOK, JobOK
<1>7. CASE set_complete(u, d)
  <2>1. JobOK(job') /\ chain' \in [Doc -> Seq(User)] /\ completed' \subseteq Doc
    <3>1. JobOK(job)
      BY DEF TypeOK, JobOK
    <3>2. JobOK([Idle EXCEPT !.at = "done_award", !.user = u, !.completes = TRUE])
      <4> DEFINE started == [Idle EXCEPT !.at = "done_award", !.user = u, !.completes = TRUE]
      <4>1. Idle \in [at : Position, user : User \cup {None}, action : {"create", "edit", None},
                      prior : User \cup {None}, completes : BOOLEAN]
        BY DEF Idle, Position
      <4>2. started \in [at : Position, user : User \cup {None}, action : {"create", "edit", None},
                         prior : User \cup {None}, completes : BOOLEAN]
        BY <4>1 DEF Position
      <4>3. started.at = "done_award" /\ started.user = u
        BY <4>1
      <4>. QED  BY <4>2, <4>3 DEF JobOK
    <3>3. JobOK(job')
      <4>1. \/ job' = [Idle EXCEPT !.at = "done_award", !.user = u, !.completes = TRUE]
            \/ job' = job
        BY <1>7 DEF set_complete
      <4>. QED  BY <3>1, <3>2, <4>1
    <3>4. chain' \in [Doc -> Seq(User)] /\ completed' \subseteq Doc
      BY <1>3, <1>7 DEF set_complete, TypeOK
    <3>. QED  BY <3>3, <3>4
  <2>2. used' \in [Bounded -> Nat]
    BY <1>7, UsesType DEF set_complete, Starts, Bounded
  <2>. QED  BY <1>7, <2>1, <2>2 DEF set_complete, TypeOK, JobOK
<1>. QED  BY <1>1, <1>5, <1>6, <1>7

LEMMA JobType ==
  ASSUME TypeOK, Next
  PROVE  JobOK(job')
<1>1. CASE RequestStep
  BY <1>1, RequestType DEF TypeOK, JobOK
<1>2. CASE run_after_save
  <2>1. CASE Award("award", IF job.action = "create" THEN "save" ELSE "review", "streak")
    BY <2>1, GoToType DEF Award, Position
  <2>2. CASE Count("streak", IF job.action = "create" THEN "save_create" ELSE "save_edit", "badges")
    BY <2>2, GoToType DEF Count, Position
  <2>3. CASE BadgeCheck("badges", job.user, AfterBadges)
    <3>1. AfterBadges \in Position /\ (AfterBadges \in {"kept", "kept_badges"} => job.prior \in User)
      BY DEF AfterBadges, AfterSave, Position, TypeOK
    <3>. QED  BY <2>3, <3>1, GoToType DEF BadgeCheck
  <2>4. CASE Kept
    <3>1. job.prior \in User /\ job.at # "idle" /\ AfterSave \in Position
      BY <2>4 DEF Kept, TypeOK, AfterSave, Position
    <3>2. GoTo("kept_badges") \/ GoTo(AfterSave)
      BY <2>4 DEF Kept
    <3>. QED  BY <3>1, <3>2, GoToType DEF Position
  <2>5. CASE BadgeCheck("kept_badges", job.prior, AfterSave)
    <3>1. AfterSave \in Position /\ AfterSave \notin {"kept", "kept_badges"}
      BY DEF AfterSave, Position
    <3>. QED  BY <2>5, <3>1, GoToType DEF BadgeCheck
  <2>. QED  BY <1>2, <2>1, <2>2, <2>3, <2>4, <2>5 DEF run_after_save
<1>3. CASE run_after_complete
  <2>1. CASE Award("done_award", "complete", "done_streak")
    BY <2>1, GoToType DEF Award, Position
  <2>2. CASE Count("done_streak", "complete", "done_badges")
    BY <2>2, GoToType DEF Count, Position
  <2>3. CASE BadgeCheck("done_badges", job.user, "idle")
    BY <2>3, GoToType DEF BadgeCheck, Position
  <2>. QED  BY <1>3, <2>1, <2>2, <2>3 DEF run_after_complete
<1>4. CASE \E u \in User : SkipReads(u) \/ SkipWrites(u)
  BY <1>4 DEF SkipReads, SkipWrites, TypeOK, JobOK
<1>5. CASE Midnight
  BY <1>5 DEF Midnight, TypeOK, JobOK
<1>6. CASE Crash
  BY <1>6 DEF Crash, JobOK, Idle, Position
<1>. QED  BY <1>1, <1>2, <1>3, <1>4, <1>5, <1>6 DEF Next, RequestStep

LEMMA AwardType ==
  ASSUME TypeOK, NEW u \in User, NEW reason \in Reason, AwardStep(u, reason), JobOK(job')
  PROVE  TypeOK'
<1>1. Xp[reason] \in Nat /\ ensure_state(u) \in State
  BY EnsureType, GamificationAssumption
<1>2. CASE award_xp(u, reason)
  <2>1. [ensure_state(u) EXCEPT !.total = @ + Xp[reason]] \in State
    BY <1>1 DEF State
  <2>2. rows' \in [User -> State \cup {None}]
    BY <1>2, <2>1 DEF award_xp, Credited, TypeOK
  <2>3. ledger' \in [User -> [Reason -> Nat]] /\ unchecked' \subseteq User
    BY <1>2 DEF award_xp, TypeOK
  <2>. QED  BY <1>2, <2>2, <2>3 DEF award_xp, AwardStep, TypeOK, JobOK
<1>3. CASE award_xp_fails(u, reason)
  <2>1. rows' \in [User -> State \cup {None}]
    BY <1>1, <1>3 DEF award_xp_fails, TypeOK
  <2>2. ledger' \in [User -> [Reason -> Nat]] /\ unchecked' \subseteq User /\ lost' \in [User -> Nat]
    <3>1. CASE UNCHANGED <<ledger, unchecked, lost>>
      BY <3>1 DEF TypeOK
    <3>2. CASE /\ ledger' = [ledger EXCEPT ![u][reason] = @ + 1]
               /\ unchecked' = unchecked \cup {u}
               /\ lost' = [lost EXCEPT ![u] = @ + Xp[reason]]
      <4>1. /\ ledger \in [User -> [Reason -> Nat]] /\ unchecked \subseteq User
            /\ lost \in [User -> Nat]
        BY DEF TypeOK
      <4>2. ledger' \in [User -> [Reason -> Nat]]
        BY <3>2, <4>1
      <4>3. lost[u] + Xp[reason] \in Nat
        BY <1>1, <4>1
      <4>4. lost' \in [User -> Nat]
        BY <3>2, <4>1, <4>3
      <4>. QED  BY <3>2, <4>1, <4>2, <4>4
    <3>. QED  BY <1>3, <3>1, <3>2 DEF award_xp_fails
  <2>3. used' \in [Bounded -> Nat]
    BY <1>3, UsesType DEF award_xp_fails, Bounded
  <2>. QED  BY <1>3, <2>1, <2>2, <2>3 DEF AwardStep, TypeOK, JobOK
<1>4. CASE UNCHANGED <<ledger, rows, lost, unchecked, used>>
  BY <1>4 DEF AwardStep, TypeOK, JobOK
<1>. QED  BY <1>2, <1>3, <1>4 DEF AwardStep

LEMMA CountType ==
  ASSUME TypeOK, NEW u \in User, NEW action \in Action, CountStep(u, action), JobOK(job')
  PROVE  TypeOK'
<1>1. ensure_state(u) \in State
  BY EnsureType
<1>2. CASE update_streak_and_counters(u, action)
  <2>1. rows' \in [User -> State \cup {None}]
    BY <1>1, <1>2, CountedType DEF update_streak_and_counters, TypeOK
  <2>2. events' \in [User -> [Counter -> Nat]]
    BY <1>2, BumpType DEF update_streak_and_counters, TypeOK
  <2>3. /\ activeDays' \in [User -> SUBSET (0..MaxDay)]
        /\ unchecked' \subseteq User /\ overlapped' \subseteq User
    BY <1>2 DEF update_streak_and_counters, TypeOK
  <2>. QED  BY <1>2, <2>1, <2>2, <2>3 DEF update_streak_and_counters, CountStep, TypeOK, JobOK
<1>3. CASE /\ rows' = [rows EXCEPT ![u] = ensure_state(u)]
           /\ Uses("failures")
           /\ UNCHANGED <<events, activeDays, unchecked, overlapped>>
  <2>1. rows' \in [User -> State \cup {None}]
    BY <1>1, <1>3 DEF TypeOK
  <2>2. used' \in [Bounded -> Nat]
    BY <1>3, UsesType DEF Bounded
  <2>. QED  BY <1>3, <2>1, <2>2 DEF CountStep, TypeOK, JobOK
<1>. QED  BY <1>2, <1>3 DEF CountStep

LEMMA CandidatesAreBadges == ASSUME NEW u PROVE Candidates(u) \subseteq Badge
BY DEF Candidates, Badge

LEMMA BadgeType ==
  ASSUME TypeOK, NEW u \in User, BadgeStep(u), JobOK(job')
  PROVE  TypeOK'
<1>1. PICK at \in Position, next \in Position : BadgeCheck(at, u, next)
  BY DEF BadgeStep
<1>2. ASSUME NEW held \in SUBSET check_badges(u), NEW told, Unlocked(u, held, told)
      PROVE  badges' \in [User -> SUBSET Badge] /\ inbox' \in [User -> [Badge -> Nat]]
  <2>1. held \subseteq Badge
    BY CandidatesAreBadges DEF check_badges
  <2>2. [b \in Badge |-> inbox[u][b] + IF b \in told THEN 1 ELSE 0] \in [Badge -> Nat]
    BY DEF TypeOK
  <2>. QED  BY <1>2, <2>1, <2>2 DEF Unlocked, TypeOK
<1>3. badges' \in [User -> SUBSET Badge] /\ inbox' \in [User -> [Badge -> Nat]]
  BY <1>1, <1>2 DEF BadgeCheck
<1>4. unchecked' \subseteq User /\ used' \in [Bounded -> Nat]
  BY <1>1, UsesType DEF BadgeCheck, TypeOK, Bounded
<1>. QED  BY <1>1, <1>3, <1>4 DEF BadgeCheck, TypeOK, JobOK

LEMMA SkipType ==
  ASSUME TypeOK, SkipsFit, NEW u \in User, SkipReads(u) \/ SkipWrites(u)
  PROVE  TypeOK'
<1>1. ensure_state(u) \in State
  BY EnsureType
<1>2. CASE SkipReads(u)
  <2>1. rows' \in [User -> State \cup {None}]
    BY <1>1, <1>2 DEF SkipReads, TypeOK
  <2>2. Reset(ensure_state(u)).counts \in [Counter -> Nat]
    BY <1>1, ResetType DEF State
  <2>3. skipping' \in [User -> [read : State, counts : [Counter -> Nat]] \cup {None}]
    BY <1>1, <1>2, <2>2 DEF SkipReads, TypeOK
  <2>4. used' \in [Bounded -> Nat]
    BY <1>2, UsesType DEF SkipReads, Bounded
  <2>. QED  BY <1>2, <2>1, <2>3, <2>4 DEF SkipReads, TypeOK
<1>3. CASE SkipWrites(u)
  <2>1. rows[u] \in State /\ skipping[u].counts \in [Counter -> Nat]
    BY <1>3 DEF SkipWrites, SkipsFit, TypeOK
  <2>2. Bump(skipping[u].counts, {"skip"}) \in [Counter -> Nat]
    BY <2>1, BumpType
  <2>3. [rows[u] EXCEPT !.counts = Bump(skipping[u].counts, {"skip"})] \in State
    BY <2>1, <2>2 DEF State
  <2>4. rows' \in [User -> State \cup {None}]
    BY <1>3, <2>3 DEF SkipWrites, TypeOK
  <2>5. events' \in [User -> [Counter -> Nat]]
    BY <1>3, BumpType DEF SkipWrites, TypeOK
  <2>6. overlapped' \subseteq User /\ skipping' \in [User -> [read : State, counts : [Counter -> Nat]] \cup {None}]
    BY <1>3 DEF SkipWrites, TypeOK
  <2>. QED  BY <1>3, <2>4, <2>5, <2>6 DEF SkipWrites, TypeOK
<1>. QED  BY <1>2, <1>3

LEMMA OtherType ==
  ASSUME TypeOK, Midnight \/ Crash, JobOK(job')
  PROVE  TypeOK'
<1>1. CASE Midnight
  <2>1. today' \in 0..MaxDay
    BY <1>1, GamificationAssumption DEF Midnight, TypeOK
  <2>2. events' \in [User -> [Counter -> Nat]]
    BY <1>1, ZeroType DEF Midnight
  <2>. QED  BY <1>1, <2>1, <2>2 DEF Midnight, TypeOK
<1>2. CASE Crash
  <2>1. used' \in [Bounded -> Nat]
    BY <1>2, UsesType DEF Crash, Bounded
  <2>2. skipping' \in [User -> [read : State, counts : [Counter -> Nat]] \cup {None}]
    BY <1>2 DEF Crash
  <2>. QED  BY <1>2, <2>1, <2>2 DEF Crash, TypeOK, JobOK
<1>. QED  BY <1>1, <1>2

LEMMA StepType ==
  ASSUME IInv, Next
  PROVE  TypeOK'
<1>1. TypeOK /\ SkipsFit /\ JobOK(job')
  BY JobType DEF IInv
<1>. QED  BY <1>1, StepKinds, RequestType, AwardType, CountType, BadgeType, SkipType, OtherType

-----------------------------------------------------------------------------
(* Steps that leave days and counters alone.                                *)

LEMMA KeptShown ==
  ASSUME TypeOK, TypeOK', RowsKept, NEW u \in User
  PROVE  Shown(u)' = Shown(u)
<1>1. today' = today /\ ensure_state(u)'.last = ensure_state(u).last
      /\ ensure_state(u)'.counts = ensure_state(u).counts
  BY DEF RowsKept
<1>2. ensure_state(u) \in State /\ ensure_state(u)' \in State
  BY EnsureType, ZeroType DEF TypeOK, ensure_state
<1>3. Reset(ensure_state(u)).counts =
        IF ensure_state(u).last = today THEN ensure_state(u).counts ELSE Zero
  BY <1>2 DEF Reset, State
<1>4. (Reset(ensure_state(u)).counts)' =
        IF ensure_state(u)'.last = today' THEN ensure_state(u)'.counts ELSE Zero
  BY <1>2 DEF Reset, State, Zero
<1>. QED  BY <1>1, <1>3, <1>4 DEF Shown

LEMMA KeptDays ==
  ASSUME IInv, TypeOK', RowsKept
  PROVE  /\ QuietDaysAreEmpty' /\ StreakIsTheRun' /\ CountersAreTheDays'
         /\ \A u \in User :
              /\ activeDays'[u] \subseteq 0..today'
              /\ ensure_state(u)'.last \in Nat => ensure_state(u)'.last <= today'
<1>1. QuietDaysAreEmpty'
  BY DEF IInv, RowsKept, QuietDaysAreEmpty
<1>2. StreakIsTheRun'
  BY DEF IInv, RowsKept, StreakIsTheRun, Active
<1>3. CountersAreTheDays'
  <2>1. \A u \in User : Shown(u)' = Shown(u)
    BY KeptShown DEF IInv
  <2>. QED  BY <2>1 DEF IInv, RowsKept, CountersAreTheDays
<1>4. \A u \in User :
              /\ activeDays'[u] \subseteq 0..today'
              /\ ensure_state(u)'.last \in Nat => ensure_state(u)'.last <= today'
  BY DEF IInv, RowsKept, DaysFit
<1>. QED  BY <1>1, <1>2, <1>3, <1>4

LEMMA KeptSkips ==
  ASSUME IInv, TypeOK', RowsKept, UNCHANGED skipping
  PROVE  DaysFit' /\ SkipsFit' /\ QuietDaysAreEmpty' /\ StreakIsTheRun' /\ CountersAreTheDays'
<1>1. DaysFit'
  BY KeptDays DEF IInv, RowsKept, DaysFit
<1>2. SkipsFit'
  BY DEF IInv, RowsKept, SkipsFit
<1>. QED  BY <1>1, <1>2, KeptDays

LEMMA SameRows == ASSUME UNCHANGED <<rows, today, activeDays, events, overlapped>> PROVE RowsKept
BY DEF RowsKept, ensure_state

LEMMA AwardRows ==
  ASSUME TypeOK, NEW u \in User, NEW reason \in Reason, AwardStep(u, reason)
  PROVE  RowsKept
<1>1. ensure_state(u) \in State /\ ensure_state(u) # None /\ Xp[reason] \in Nat
  BY EnsureType, GamificationAssumption
<1>2. CASE award_xp(u, reason)
  <2> DEFINE row == [ensure_state(u) EXCEPT !.total = @ + Xp[reason]]
  <2>1. /\ row \in State /\ row # None
        /\ row.last = ensure_state(u).last /\ row.current = ensure_state(u).current
        /\ row.longest = ensure_state(u).longest /\ row.counts = ensure_state(u).counts
    BY <1>1, GamificationAssumption DEF State
  <2>2. rows' = [rows EXCEPT ![u] = row]
    BY <1>2 DEF award_xp, Credited
  <2>3. ensure_state(u)' = row /\ \A v \in User \ {u} : ensure_state(v)' = ensure_state(v)
    BY <2>1, <2>2 DEF ensure_state, TypeOK
  <2>. QED  BY <1>2, <2>1, <2>2, <2>3 DEF RowsKept, AwardStep, TypeOK
<1>3. CASE award_xp_fails(u, reason)
  <2>1. rows' = [rows EXCEPT ![u] = ensure_state(u)]
    BY <1>3 DEF award_xp_fails
  <2>2. \A v \in User : ensure_state(v)' = ensure_state(v) /\ (rows[v] # None => rows'[v] # None)
    BY <1>1, <2>1 DEF ensure_state, TypeOK
  <2>. QED  BY <1>3, <2>2 DEF RowsKept, AwardStep
<1>4. CASE UNCHANGED rows
  BY <1>4, SameRows DEF AwardStep
<1>. QED  BY <1>2, <1>3, <1>4 DEF AwardStep

-----------------------------------------------------------------------------
(* Points.                                                                  *)

LEMMA OneMore == ASSUME NEW n \in Nat, NEW x \in Nat PROVE (n + 1) * x = n * x + x /\ n * x \in Nat
OBVIOUS

LEMMA PointsGrow ==
  ASSUME TypeOK, NEW u \in User, NEW reason \in Reason,
         ledger' = [ledger EXCEPT ![u][reason] = @ + 1]
  PROVE  /\ Points(u)' = Points(u) + Xp[reason]
         /\ \A v \in User \ {u} : Points(v)' = Points(v)
<1>1. \A r \in Reason : ledger[u][r] \in Nat /\ Xp[r] \in Nat
  BY GamificationAssumption DEF TypeOK
<1>2. \A r \in Reason : (ledger[u][r] + 1) * Xp[r] = ledger[u][r] * Xp[r] + Xp[r]
                        /\ ledger[u][r] * Xp[r] \in Nat
  BY <1>1, OneMore
<1>3. \A v \in User, r \in Reason :
        ledger'[v][r] = IF v = u /\ r = reason THEN ledger[u][r] + 1 ELSE ledger[v][r]
  BY DEF TypeOK
<1>4. \A v \in User \ {u} : Points(v)' = Points(v)
  BY <1>3 DEF Points, Reason
<1>5. \A r \in Reason : ledger'[u][r] * Xp[r] =
        IF r = reason THEN ledger[u][r] * Xp[r] + Xp[r] ELSE ledger[u][r] * Xp[r]
  BY <1>2, <1>3
<1>6. /\ "save" \in Reason /\ "review" \in Reason /\ "review_kept" \in Reason /\ "complete" \in Reason
      /\ reason \in {"save", "review", "review_kept", "complete"}
  BY DEF Reason
<1> DEFINE P(r) == ledger[u][r] * Xp[r]
           Q(r) == ledger'[u][r] * Xp[r]
<1>7. \A r \in Reason : P(r) \in Nat /\ Xp[r] \in Nat /\ Q(r) = IF r = reason THEN P(r) + Xp[r] ELSE P(r)
  BY <1>1, <1>2, <1>5
<1>8. Points(u) = P("save") + P("review") + P("review_kept") + P("complete")
  BY DEF Points
<1>9. Points(u)' = Q("save") + Q("review") + Q("review_kept") + Q("complete")
  BY DEF Points
<1> HIDE DEF P, Q
<1>10. Points(u)' = Points(u) + Xp[reason]
  BY <1>6, <1>7, <1>8, <1>9
<1>. QED  BY <1>4, <1>10

LEMMA PointsType == ASSUME TypeOK, NEW u \in User PROVE Points(u) \in Nat /\ Total(u) \in Nat
<1>1. \A r \in Reason : ledger[u][r] \in Nat /\ Xp[r] \in Nat /\ ledger[u][r] * Xp[r] \in Nat
  BY GamificationAssumption, OneMore DEF TypeOK
<1>2. Points(u) \in Nat
  <2> DEFINE P(r) == ledger[u][r] * Xp[r]
  <2>1. P("save") \in Nat /\ P("review") \in Nat /\ P("review_kept") \in Nat /\ P("complete") \in Nat
    BY <1>1 DEF Reason
  <2>2. Points(u) = P("save") + P("review") + P("review_kept") + P("complete")
    BY DEF Points
  <2> HIDE DEF P
  <2>. QED  BY <2>1, <2>2
<1>. QED  BY <1>2 DEF TypeOK, Total, State

LEMMA TotalIs ==
  ASSUME TypeOK, NEW u \in User
  PROVE  Total(u) = ensure_state(u).total
BY DEF Total, ensure_state, ZeroState

LEMMA AwardTotal ==
  ASSUME IInv, TypeOK', NEW u \in User, NEW reason \in Reason, AwardStep(u, reason)
  PROVE  TotalIsTheLedger'
<1>1. /\ Xp[reason] \in Nat /\ ensure_state(u) \in State /\ ensure_state(u) # None
      /\ \A v \in User : Points(v) \in Nat /\ Total(v) \in Nat /\ lost[v] \in Nat
                         /\ Total(v) + lost[v] = Points(v)
  BY EnsureType, PointsType, GamificationAssumption DEF IInv, TotalIsTheLedger, TypeOK
<1>2. CASE award_xp(u, reason)
  <2> DEFINE row == [ensure_state(u) EXCEPT !.total = @ + Xp[reason]]
  <2>1. row \in State /\ row # None /\ row.total = ensure_state(u).total + Xp[reason]
    BY <1>1, GamificationAssumption DEF State
  <2>2. rows' = [rows EXCEPT ![u] = row]
    BY <1>2 DEF award_xp, Credited
  <2>3. Total(u)' = Total(u) + Xp[reason] /\ \A v \in User \ {u} : Total(v)' = Total(v)
    BY <2>1, <2>2, TotalIs DEF Total, TypeOK, IInv
  <2>4. Points(u)' = Points(u) + Xp[reason] /\ \A v \in User \ {u} : Points(v)' = Points(v)
    BY <1>2, PointsGrow DEF award_xp, IInv
  <2>5. lost' = lost
    BY <1>2 DEF award_xp
  <2>. QED  BY <1>1, <2>3, <2>4, <2>5 DEF TotalIsTheLedger
<1>3. CASE award_xp_fails(u, reason)
  <2>1. rows' = [rows EXCEPT ![u] = ensure_state(u)]
    BY <1>3 DEF award_xp_fails
  <2>2. \A v \in User : Total(v)' = Total(v)
    BY <1>1, <2>1, TotalIs DEF Total, TypeOK, IInv
  <2>3. CASE UNCHANGED <<ledger, unchecked, lost>>
    BY <1>1, <2>2, <2>3 DEF TotalIsTheLedger, Points
  <2>4. CASE /\ ledger' = [ledger EXCEPT ![u][reason] = @ + 1]
             /\ lost' = [lost EXCEPT ![u] = @ + Xp[reason]]
    <3>1. Points(u)' = Points(u) + Xp[reason] /\ \A v \in User \ {u} : Points(v)' = Points(v)
      BY <2>4, PointsGrow DEF IInv
    <3>2. lost'[u] = lost[u] + Xp[reason] /\ \A v \in User \ {u} : lost'[v] = lost[v]
      BY <2>4 DEF IInv, TypeOK
    <3>. QED  BY <1>1, <2>2, <3>1, <3>2 DEF TotalIsTheLedger
  <2>. QED  BY <1>3, <2>3, <2>4 DEF award_xp_fails
<1>4. CASE UNCHANGED <<ledger, rows, lost>>
  BY <1>4 DEF IInv, TotalIsTheLedger, Total, Points
<1>. QED  BY <1>2, <1>3, <1>4 DEF AwardStep

\* The other steps leave ledger and totals alone.
LEMMA SameTotals ==
  ASSUME IInv, UNCHANGED <<ledger, lost>>, \A u \in User : Total(u)' = Total(u)
  PROVE  TotalIsTheLedger'
BY DEF IInv, TotalIsTheLedger, Points

-----------------------------------------------------------------------------
(* Badges.                                                                  *)

\* What a user is due, spelled out.
LEMMA DueIs ==
  ASSUME TypeOK, NEW u \in User
  PROVE  /\ Candidates(u) =
              {b \in Badge : \/ \E n \in SaveMarks : b = <<"annotations", n>> /\ Saves(u) >= n
                             \/ b = <<"first_completion", 1>> /\ ledger[u]["complete"] >= 1
                             \/ b = <<"marathoner", StreakMark>> /\ ensure_state(u).current >= StreakMark
                             \/ /\ b = <<"good_reviewer", MinReviews>>
                                /\ ledger[u]["review"] >= MinReviews
                                /\ ledger[u]["review_kept"] >= MinKept}
         /\ EverDue(u) = Candidates(u)
              \cup {b \in {<<"marathoner", StreakMark>>} : ensure_state(u).longest >= StreakMark}
<1>1. Streak(u) = ensure_state(u).current
  BY DEF Streak, ensure_state, ZeroState
<1>2. rows[u] # None /\ rows[u].longest >= StreakMark <=> ensure_state(u).longest >= StreakMark
  BY GamificationAssumption DEF ensure_state, ZeroState
<1>. QED  BY <1>1, <1>2 DEF Candidates, EverDue, Badge

\* More entries and the same or a longer streak: what was due stays due.
LEMMA StillDue ==
  ASSUME TypeOK, TypeOK', NEW u \in User,
         \A r \in Reason : ledger[u][r] <= ledger'[u][r],
         ensure_state(u).longest <= ensure_state(u)'.longest,
         ensure_state(u).current <= ensure_state(u).longest
  PROVE  EverDue(u) \subseteq EverDue(u)'
<1>0. \A r \in Reason : ledger[u][r] \in Nat /\ ledger'[u][r] \in Nat
  BY DEF TypeOK
<1>1. /\ Saves(u) <= Saves(u)' /\ Saves(u) \in Nat /\ Saves(u)' \in Nat
      /\ \A r \in Reason : ledger[u][r] \in Nat /\ ledger'[u][r] \in Nat
  <2>1. "save" \in Reason /\ "review" \in Reason
    BY DEF Reason
  <2>. QED  BY <1>0, <2>1 DEF Saves
<1>2. ensure_state(u) \in State /\ ensure_state(u)' \in State
  BY EnsureType, ZeroType DEF TypeOK, ensure_state
<1>3. SaveMarks \subseteq Nat /\ StreakMark \in Nat /\ MinReviews \in Nat /\ MinKept \in Nat
  BY GamificationAssumption
<1>4. ASSUME NEW b \in EverDue(u) PROVE b \in EverDue(u)'
  <2>1. CASE \E n \in SaveMarks : b = <<"annotations", n>> /\ Saves(u) >= n
    BY <1>1, <1>3, <2>1 DEF EverDue, Candidates
  <2>2. CASE b = <<"first_completion", 1>> /\ ledger[u]["complete"] >= 1
    BY <1>1, <2>2 DEF EverDue, Candidates, Reason
  <2>3. CASE /\ b = <<"good_reviewer", MinReviews>>
             /\ ledger[u]["review"] >= MinReviews
             /\ ledger[u]["review_kept"] >= MinKept
    BY <1>1, <1>3, <2>3 DEF EverDue, Candidates, Reason
  <2>4. CASE b = <<"marathoner", StreakMark>> /\ ensure_state(u).longest >= StreakMark
    <3>1. ensure_state(u)'.longest >= StreakMark
      BY <1>2, <1>3, <2>4 DEF State
    <3>2. rows'[u] # None /\ rows'[u].longest >= StreakMark
      BY <3>1, GamificationAssumption DEF ensure_state, ZeroState
    <3>. QED  BY <2>4, <3>2 DEF EverDue
  <2>5. CASE b = <<"marathoner", StreakMark>> /\ ensure_state(u).current >= StreakMark
    BY <1>2, <1>3, <2>4, <2>5 DEF State
  <2>. QED  BY <1>4, <2>1, <2>2, <2>3, <2>4, <2>5, DueIs
<1>. QED  BY <1>4

LEMMA CurrentFits ==
  ASSUME IInv, NEW u \in User
  PROVE  ensure_state(u).current <= ensure_state(u).longest
BY EnsureType DEF IInv, StreakIsTheRun, State

\* The candidates depend on the ledger and the current streak.
LEMMA SameCandidates ==
  ASSUME TypeOK, TypeOK', NEW u \in User, ledger'[u] = ledger[u],
         ensure_state(u)'.current = ensure_state(u).current
  PROVE  Candidates(u)' = Candidates(u)
<1>1. Streak(u) = ensure_state(u).current /\ Streak(u)' = ensure_state(u)'.current
  BY DEF Streak, ensure_state, ZeroState
<1>. QED  BY <1>1 DEF Candidates, Saves

LEMMA KeptBadges ==
  ASSUME IInv, TypeOK', UNCHANGED <<badges, inbox>>,
         \A u \in User : /\ \A r \in Reason : ledger[u][r] <= ledger'[u][r]
                         /\ ensure_state(u).longest <= ensure_state(u)'.longest
                         /\ u \notin unchecked' =>
                              /\ u \notin unchecked /\ ledger'[u] = ledger[u]
                              /\ ensure_state(u)'.current = ensure_state(u).current
  PROVE  BadgesFollowTheLedger'
<1>1. ASSUME NEW u \in User
      PROVE  /\ badges'[u] \subseteq EverDue(u)'
             /\ u \notin unchecked' => Candidates(u)' \subseteq badges'[u]
             /\ \A b \in Badge : inbox'[u][b] <= (IF b \in badges'[u] THEN 1 ELSE 0)
  <2>1. /\ badges[u] \subseteq EverDue(u)
        /\ u \notin unchecked => Candidates(u) \subseteq badges[u]
        /\ \A b \in Badge : inbox[u][b] <= (IF b \in badges[u] THEN 1 ELSE 0)
    BY DEF IInv, BadgesFollowTheLedger
  <2>2. EverDue(u) \subseteq EverDue(u)'
    BY StillDue, CurrentFits DEF IInv
  <2>3. u \notin unchecked' => Candidates(u)' = Candidates(u)
    BY SameCandidates DEF IInv
  <2>. QED  BY <2>1, <2>2, <2>3
<1>. QED  BY <1>1 DEF BadgesFollowTheLedger

LEMMA LedgerReflexive ==
  ASSUME TypeOK, NEW u \in User
  PROVE  \A r \in Reason : ledger[u][r] <= ledger[u][r]
BY DEF TypeOK

\* Rows whose days are kept, the ledger and the checks as they were.
LEMMA StillBadges ==
  ASSUME IInv, TypeOK', RowsKept, UNCHANGED <<ledger, badges, inbox, unchecked>>
  PROVE  BadgesFollowTheLedger'
<1>1. \A u \in User : ensure_state(u).longest \in Nat
  BY EnsureType DEF IInv, State
<1>. QED  BY <1>1, KeptBadges, LedgerReflexive DEF IInv, RowsKept

LEMMA AwardBadges ==
  ASSUME IInv, TypeOK', NEW u \in User, NEW reason \in Reason, AwardStep(u, reason)
  PROVE  BadgesFollowTheLedger'
<1>1. RowsKept /\ UNCHANGED <<badges, inbox>>
  BY AwardRows DEF IInv, AwardStep
<1>2. \A v \in User : ensure_state(v).longest <= ensure_state(v)'.longest
                      /\ ensure_state(v)'.current = ensure_state(v).current
  BY <1>1, EnsureType DEF RowsKept, IInv, State
<1>3. CASE UNCHANGED <<ledger, unchecked>>
  BY <1>1, <1>3, StillBadges
<1>4. CASE ledger' = [ledger EXCEPT ![u][reason] = @ + 1] /\ unchecked' = unchecked \cup {u}
  <2>1. \A v \in User : /\ \A r \in Reason : ledger[v][r] <= ledger'[v][r]
                        /\ v \notin unchecked' => v \notin unchecked /\ ledger'[v] = ledger[v]
    <3>1. ledger \in [User -> [Reason -> Nat]]
      BY DEF IInv, TypeOK
    <3>2. \A v \in User : v # u => ledger'[v] = ledger[v]
      BY <1>4, <3>1
    <3>3. \A r \in Reason : ledger[u][r] <= ledger'[u][r]
      BY <1>4, <3>1
    <3>4. \A v \in User, r \in Reason : ledger[v][r] <= ledger[v][r]
      BY <3>1
    <3>. QED  BY <1>4, <3>2, <3>3, <3>4
  <2>. QED  BY <1>1, <1>2, <2>1, KeptBadges
<1>. QED  BY <1>3, <1>4 DEF AwardStep, award_xp, award_xp_fails

LEMMA BadgeBadges ==
  ASSUME IInv, TypeOK', NEW u \in User, BadgeStep(u)
  PROVE  BadgesFollowTheLedger'
<1>1. PICK at \in Position, next \in Position : BadgeCheck(at, u, next)
  BY DEF BadgeStep
<1>2. UNCHANGED <<ledger, rows>>
  BY <1>1 DEF BadgeCheck
<1>3. \A v \in User : Candidates(v)' = Candidates(v) /\ EverDue(v)' = EverDue(v)
  BY <1>2 DEF Candidates, EverDue, Saves, Streak
<1>4. PICK held \in SUBSET check_badges(u), told \in SUBSET check_badges(u) :
        /\ told \subseteq held
        /\ Unlocked(u, held, told)
        /\ \/ held = check_badges(u) /\ unchecked' = unchecked \ {u}
           \/ unchecked' = unchecked
  BY <1>1 DEF BadgeCheck
<1>5. /\ badges'[u] = badges[u] \cup held
      /\ \A b \in Badge : inbox'[u][b] = inbox[u][b] + IF b \in told THEN 1 ELSE 0
      /\ \A v \in User \ {u} : badges'[v] = badges[v] /\ inbox'[v] = inbox[v]
  BY <1>4 DEF Unlocked, IInv, TypeOK
<1>6. \A v \in User :
        /\ badges[v] \subseteq EverDue(v)
        /\ v \notin unchecked => Candidates(v) \subseteq badges[v]
        /\ \A b \in Badge : inbox[v][b] <= (IF b \in badges[v] THEN 1 ELSE 0) /\ inbox[v][b] \in Nat
  <2>1. BadgesFollowTheLedger /\ inbox \in [User -> [Badge -> Nat]]
    BY DEF IInv, TypeOK
  <2>2. \A v \in User, b \in Badge : inbox[v][b] \in Nat
    BY <2>1
  <2>. QED  BY <2>1, <2>2 DEF BadgesFollowTheLedger
<1>7. held \cap badges[u] = {} /\ held \subseteq Candidates(u) /\ Candidates(u) \subseteq EverDue(u)
      /\ (held = check_badges(u) => Candidates(u) \subseteq badges'[u])
  BY <1>5 DEF check_badges, EverDue
<1>8. /\ badges'[u] \subseteq EverDue(u)
      /\ u \notin unchecked' => Candidates(u) \subseteq badges'[u]
  BY <1>4, <1>5, <1>6, <1>7
<1>9. \A b \in Badge : inbox'[u][b] <= (IF b \in badges'[u] THEN 1 ELSE 0)
  BY <1>4, <1>5, <1>6, <1>7
<1>10. \A v \in User \ {u} :
         /\ badges'[v] \subseteq EverDue(v)
         /\ v \notin unchecked' => Candidates(v) \subseteq badges'[v]
         /\ \A b \in Badge : inbox'[v][b] <= (IF b \in badges'[v] THEN 1 ELSE 0)
  BY <1>4, <1>5, <1>6
<1>. QED  BY <1>3, <1>8, <1>9, <1>10 DEF BadgesFollowTheLedger

-----------------------------------------------------------------------------
(* Streaks.                                                                 *)

Within(days, i, j) == \A k \in 0..MaxDay : i <= k /\ k <= j => k \in days

RunOf(days, last, current, longest) ==
  /\ last \in days /\ \A k \in days : k <= last
  /\ current \in 1..longest
  /\ Within(days, last - current + 1, last)
  /\ last - current \notin days
  /\ \A i, j \in 0..MaxDay : i <= j /\ Within(days, i, j) => j - i + 1 <= longest
  /\ \E i \in 0..MaxDay : Within(days, i, i + longest - 1) /\ i + longest - 1 <= last

LEMMA FirstRun ==
  ASSUME NEW t \in 0..MaxDay
  PROVE  RunOf({t}, t, 1, 1)
<1>1. MaxDay \in Nat
  BY GamificationAssumption
<1>2. ASSUME NEW i \in 0..MaxDay, NEW j \in 0..MaxDay, i <= j, Within({t}, i, j)
      PROVE  j - i + 1 <= 1
  <2>1. i \in {t} /\ j \in {t}
    BY <1>1, <1>2 DEF Within
  <2>. QED  BY <2>1
<1>3. Within({t}, t, t + 1 - 1) /\ Within({t}, t - 1 + 1, t)
  BY <1>1 DEF Within
<1>. QED  BY <1>1, <1>2, <1>3 DEF RunOf

LEMMA NextRun ==
  ASSUME NEW days \in SUBSET (0..MaxDay), NEW last \in Nat, NEW current \in Nat, NEW longest \in Nat,
         RunOf(days, last, current, longest), NEW t \in 0..MaxDay, last < t,
         NEW c \in Nat, c = IF t = last + 1 THEN current + 1 ELSE 1
  PROVE  RunOf(days \cup {t}, t, c, IF c > longest THEN c ELSE longest)
<1> DEFINE best == IF c > longest THEN c ELSE longest
           more == days \cup {t}
<1>1. /\ MaxDay \in Nat /\ t \in Nat /\ days \subseteq Nat /\ best \in Nat
      /\ \A k \in days : k <= last
      /\ current \in 1..longest /\ last \in days
  BY GamificationAssumption DEF RunOf
<1>2. t \in more /\ \A k \in more : k <= t
  BY <1>1
<1>3. c \in 1..best
  BY <1>1
<1>4. Within(more, t - c + 1, t)
  <2>1. CASE t = last + 1
    <3>1. t - c + 1 = last - current + 1
      BY <1>1, <2>1
    <3>2. Within(days, last - current + 1, last)
      BY DEF RunOf
    <3>. QED  BY <1>1, <2>1, <3>1, <3>2 DEF Within
  <2>2. CASE t # last + 1
    BY <1>1, <2>2 DEF Within
  <2>. QED  BY <2>1, <2>2
<1>5. t - c \notin more
  <2>1. CASE t = last + 1
    <3>1. t - c = last - current /\ last - current \notin days
      BY <1>1, <2>1 DEF RunOf
    <3>. QED  BY <1>1, <1>3, <3>1
  <2>2. CASE t # last + 1
    BY <1>1, <2>2
  <2>. QED  BY <2>1, <2>2
<1>6. ASSUME NEW i \in 0..MaxDay, NEW j \in 0..MaxDay, i <= j, Within(more, i, j)
      PROVE  j - i + 1 <= best
  <2>1. j \in more
    BY <1>1, <1>6 DEF Within
  <2>2. CASE j \in days
    <3>1. Within(days, i, j)
      BY <1>1, <1>6, <2>2 DEF Within
    <3>2. j - i + 1 <= longest
      BY <1>6, <3>1 DEF RunOf
    <3>. QED  BY <1>1, <3>2
  <2>3. CASE j = t
    <3>1. SUFFICES ASSUME i <= t - c PROVE FALSE
      BY <1>1, <1>3, <2>3
    <3>2. t - c \in 0..MaxDay /\ i <= t - c /\ t - c <= j
      BY <1>1, <1>3, <1>6, <2>3, <3>1
    <3>3. t - c \in more
      BY <1>6, <3>2 DEF Within
    <3>. QED  BY <1>5, <3>3
  <2>. QED  BY <2>1, <2>2, <2>3
<1>7. \E i \in 0..MaxDay : Within(more, i, i + best - 1) /\ i + best - 1 <= t
  <2>1. CASE c > longest
    <3>1. t - c + 1 \in 0..MaxDay
      <4>1. t - c >= -1
        <5>1. CASE t = last + 1
          <6>1. last - current >= -1
            <7>1. SUFFICES ASSUME last - current < -1 PROVE FALSE
              BY <1>1
            <7>2. Within(days, last - current + 1, last)
              BY DEF RunOf
            <7>3. Within(days, 0, last) /\ 0 \in 0..MaxDay /\ last \in 0..MaxDay /\ 0 <= last
              BY <1>1, <7>1, <7>2 DEF Within
            <7>4. \E i \in 0..MaxDay : i + longest - 1 <= last
              BY DEF RunOf
            <7>. QED  BY <1>1, <7>1, <7>4
          <6>. QED  BY <1>1, <5>1, <6>1
        <5>2. CASE t # last + 1
          BY <1>1, <5>2
        <5>. QED  BY <5>1, <5>2
      <4>. QED  BY <1>1, <1>3, <4>1
    <3>. QED  BY <1>1, <1>4, <2>1, <3>1
  <2>2. CASE ~(c > longest)
    <3>1. PICK i \in 0..MaxDay : Within(days, i, i + longest - 1) /\ i + longest - 1 <= last
      BY DEF RunOf
    <3>2. Within(more, i, i + best - 1) /\ i + best - 1 <= t
      BY <1>1, <2>2, <3>1 DEF Within
    <3>. QED  BY <3>2
  <2>. QED  BY <2>1, <2>2
<1>. QED  BY <1>2, <1>3, <1>4, <1>5, <1>6, <1>7 DEF RunOf

StreakOf(u) ==
  IF ensure_state(u).last = None
  THEN activeDays[u] = {} /\ ensure_state(u).current = 0 /\ ensure_state(u).longest = 0
  ELSE RunOf(activeDays[u], ensure_state(u).last, ensure_state(u).current, ensure_state(u).longest)

LEMMA StreakIs == StreakIsTheRun <=> \A u \in User : StreakOf(u)
BY DEF StreakIsTheRun, StreakOf, RunOf, Within, Active

\* What a committed count does to the row of its user and to the others.
LEMMA CountRows ==
  ASSUME TypeOK, NEW u \in User, NEW action \in Action, update_streak_and_counters(u, action)
  PROVE  /\ ensure_state(u)' = Counted(ensure_state(u), action) /\ rows'[u] # None
         /\ \A v \in User \ {u} : ensure_state(v)' = ensure_state(v) /\ rows'[v] = rows[v]
<1>1. Counted(ensure_state(u), action) # None
  BY EnsureType, CountedType
<1>. QED  BY <1>1 DEF update_streak_and_counters, ensure_state, TypeOK

LEMMA CountStreak ==
  ASSUME IInv, TypeOK', NEW u \in User, NEW action \in Action,
         update_streak_and_counters(u, action), UNCHANGED today
  PROVE  StreakIsTheRun'
<1> DEFINE row == ensure_state(u)
           new == Counted(row, action)
<1>1. /\ row \in State /\ new \in State /\ today \in 0..MaxDay /\ today \in Nat /\ today # None
      /\ activeDays[u] \subseteq 0..MaxDay
  <2>1. TypeOK
    BY DEF IInv
  <2>2. row \in State
    BY <2>1, EnsureType
  <2>3. new \in State
    BY <2>1, <2>2, CountedType
  <2>4. today \in 0..MaxDay /\ activeDays[u] \subseteq 0..MaxDay
    BY <2>1 DEF TypeOK
  <2>5. today \in Nat /\ today # None
    BY <2>4, GamificationAssumption
  <2>. QED  BY <2>2, <2>3, <2>4, <2>5
<1>2. /\ ensure_state(u)' = new
      /\ \A v \in User \ {u} : ensure_state(v)' = ensure_state(v) /\ activeDays'[v] = activeDays[v]
  <2>1. /\ ensure_state(u)' = new
        /\ \A v \in User \ {u} : ensure_state(v)' = ensure_state(v)
    BY CountRows DEF IInv
  <2>2. \A v \in User \ {u} : activeDays'[v] = activeDays[v]
    BY DEF IInv, update_streak_and_counters, TypeOK
  <2>. QED  BY <2>1, <2>2
<1>3. \A v \in User : StreakOf(v)
  BY StreakIs DEF IInv
<1>4. \A v \in User \ {u} : StreakOf(v)'
  BY <1>2, <1>3 DEF StreakOf, RunOf, Within
<1>5. CASE action = "complete"
  <2>1. new.last = row.last /\ new.current = row.current /\ new.longest = row.longest
    BY <1>1, <1>5, CountedType DEF IInv
  <2>2. activeDays' = activeDays
    BY <1>5 DEF update_streak_and_counters
  <2>3. StreakOf(u)'
    BY <1>2, <1>3, <2>1, <2>2 DEF StreakOf, RunOf, Within
  <2>. QED  BY <1>4, <2>3, StreakIs DEF StreakIsTheRun, StreakOf, RunOf, Within, Active
<1>6. CASE action # "complete"
  <2>1. activeDays'[u] = activeDays[u] \cup {today}
    BY <1>6 DEF update_streak_and_counters, IInv, TypeOK
  <2> DEFINE fresh == Reset(row)
  <2>2. /\ new.last = today /\ new.current = NextStreak(fresh).current
        /\ new.longest = NextStreak(fresh).longest
    BY <1>1, <1>6, CountedType DEF IInv
  <2>3. /\ fresh \in State /\ fresh.last = row.last /\ fresh.current = row.current
        /\ fresh.longest = row.longest
    BY <1>1, ResetType
  <2>4. CASE row.last = today
    <3>1. new.current = row.current /\ new.longest = row.longest
      BY <2>2, <2>3, <2>4, StreakType DEF IInv
    <3>2. today \in activeDays[u]
      BY <1>1, <1>3, <2>4 DEF StreakOf, RunOf
    <3>3. StreakOf(u)'
      BY <1>1, <1>2, <1>3, <2>1, <2>2, <2>4, <3>1, <3>2 DEF StreakOf, RunOf, Within
    <3>. QED  BY <1>4, <3>3 DEF StreakIsTheRun, StreakOf, RunOf, Within, Active
  <2>5. CASE row.last # today
    <3>1. /\ new.current = IF IsYesterday(row.last) THEN row.current + 1 ELSE 1
          /\ new.longest = IF new.current > row.longest THEN new.current ELSE row.longest
      BY <2>2, <2>3, <2>5, StreakType DEF IInv
    <3>2. CASE row.last = None
      <4>1. new.current = 1 /\ new.longest = 1 /\ activeDays[u] = {}
        BY <1>3, <3>1, <3>2 DEF StreakOf, IsYesterday
      <4>2. RunOf({today}, today, 1, 1)
        BY <1>1, FirstRun
      <4>3. StreakOf(u)'
        BY <1>1, <1>2, <2>1, <2>2, <4>1, <4>2 DEF StreakOf, RunOf, Within
      <4>. QED  BY <1>4, <4>3 DEF StreakIsTheRun, StreakOf, RunOf, Within, Active
    <3>3. CASE row.last # None
      <4>1. row.last \in Nat /\ row.last < today /\ row.current \in Nat /\ row.longest \in Nat
        BY <1>1, <2>5, <3>3 DEF State, IInv, DaysFit
      <4>2. RunOf(activeDays[u], row.last, row.current, row.longest)
        BY <1>3, <3>3 DEF StreakOf
      <4>3. new.current \in Nat /\ new.current = IF today = row.last + 1 THEN row.current + 1 ELSE 1
        BY <1>1, <3>1, <3>3, <4>1 DEF IsYesterday, State
      <4> DEFINE c == new.current
      <4>4. RunOf(activeDays[u] \cup {today}, today, new.current, new.longest)
        <5>1. c \in Nat /\ c = IF today = row.last + 1 THEN row.current + 1 ELSE 1
          BY <4>3
        <5> HIDE DEF c
        <5>2. RunOf(activeDays[u] \cup {today}, today, c, IF c > row.longest THEN c ELSE row.longest)
          BY <1>1, <4>1, <4>2, <5>1, NextRun
        <5>. QED  BY <3>1, <5>2 DEF c
      <4>5. StreakOf(u)'
        BY <1>1, <1>2, <2>1, <2>2, <4>4 DEF StreakOf, RunOf, Within
      <4>. QED  BY <1>4, <4>5 DEF StreakIsTheRun, StreakOf, RunOf, Within, Active
    <3>. QED  BY <3>2, <3>3
  <2>. QED  BY <2>4, <2>5
<1>. QED  BY <1>5, <1>6

LEMMA CountLongest ==
  ASSUME IInv, NEW u \in User, NEW action \in Action, update_streak_and_counters(u, action)
  PROVE  ensure_state(u).longest <= ensure_state(u)'.longest
<1> DEFINE row == ensure_state(u)
<1>1. row \in State /\ Counted(row, action) \in State /\ Reset(row) \in State
      /\ Reset(row).longest = row.longest
  BY EnsureType, CountedType, ResetType DEF IInv
<1>2. ensure_state(u)' = Counted(row, action)
  BY CountRows DEF IInv
<1>3. NextStreak(Reset(row)) \in State /\ NextStreak(Reset(row)).longest >= Reset(row).longest
  <2>1. CASE Reset(row).last = today
    BY <1>1, <2>1, StreakType DEF IInv, State
  <2>2. CASE Reset(row).last # today
    BY <1>1, <2>2, StreakType DEF IInv, State
  <2>. QED  BY <2>1, <2>2
<1>4. Counted(row, action).longest = row.longest \/ Counted(row, action).longest = NextStreak(Reset(row)).longest
  BY <1>1, CountedType DEF IInv
<1>. QED  BY <1>1, <1>2, <1>3, <1>4 DEF State

-----------------------------------------------------------------------------
(* Counters.                                                                *)

LEMMA BumpAt ==
  ASSUME NEW counts \in [Counter -> Nat], NEW moved, NEW c \in Counter
  PROVE  Bump(counts, moved)[c] = counts[c] + IF c \in moved THEN 1 ELSE 0
BY DEF Bump

LEMMA CountCounters ==
  ASSUME IInv, TypeOK', NEW u \in User, NEW action \in Action,
         update_streak_and_counters(u, action), UNCHANGED today
  PROVE  QuietDaysAreEmpty' /\ CountersAreTheDays'
<1> DEFINE row == ensure_state(u)
           new == Counted(row, action)
           moved == Bumped(action)
<1>1. /\ row \in State /\ new \in State /\ events[u] \in [Counter -> Nat]
      /\ Reset(row).counts \in [Counter -> Nat]
  BY EnsureType, CountedType, ResetType DEF IInv, TypeOK, State
<1>2. /\ ensure_state(u)' = new
      /\ \A v \in User \ {u} : ensure_state(v)' = ensure_state(v)
  BY CountRows DEF IInv
<1>3. /\ events'[u] = Bump(events[u], moved)
      /\ \A v \in User \ {u} : events'[v] = events[v]
  BY DEF IInv, update_streak_and_counters, TypeOK
<1>4. \A v \in User \ {u} : v \notin overlapped' => v \notin overlapped
  BY DEF update_streak_and_counters
<1>5. \A v \in User \ {u} : Shown(v)' = Shown(v)
  BY <1>2 DEF Shown, Reset, Zero
<1>6. \A v \in User \ {u} : v \notin overlapped' =>
        /\ \A c \in {"save", "review"} : Shown(v)'[c] = events'[v][c]
        /\ \A c \in {"complete", "skip"} : Shown(v)'[c] <= events'[v][c]
  BY <1>3, <1>4, <1>5 DEF IInv, CountersAreTheDays
<1>7. \A v \in User \ {u} : ensure_state(v)'.last # today' =>
        events'[v]["save"] = 0 /\ events'[v]["review"] = 0
  BY <1>2, <1>3 DEF IInv, QuietDaysAreEmpty
<1>8. new.counts = Bump(Reset(row).counts, moved)
  BY <1>1, CountedType DEF IInv
<1>9. Shown(u)' = IF new.last = today THEN new.counts ELSE Zero
  BY <1>1, <1>2 DEF Shown, Reset, Zero, State
<1>10. /\ row.last = today => Reset(row).counts = row.counts
       /\ row.last # today => Reset(row).counts = Zero
       /\ Shown(u) = Reset(row).counts
  BY <1>1, ResetType DEF Shown
<1>11. row.last # today => events[u]["save"] = 0 /\ events[u]["review"] = 0
  BY DEF IInv, QuietDaysAreEmpty
<1>12. u \notin overlapped =>
         /\ \A c \in {"save", "review"} : Shown(u)[c] = events[u][c]
         /\ \A c \in {"complete", "skip"} : Shown(u)[c] <= events[u][c]
  BY DEF IInv, CountersAreTheDays
<1>13. /\ \A c \in Counter : Bump(Reset(row).counts, moved)[c] = Reset(row).counts[c] + IF c \in moved THEN 1 ELSE 0
       /\ \A c \in Counter : events'[u][c] = events[u][c] + IF c \in moved THEN 1 ELSE 0
       /\ \A c \in Counter : Zero[c] = 0 /\ events[u][c] \in Nat /\ Reset(row).counts[c] \in Nat
  BY <1>1, <1>3, BumpAt DEF Zero
<1>14. CASE action = "complete"
  <2>1. new.last = row.last /\ moved = {"complete"}
    BY <1>1, <1>14, CountedType DEF IInv, Bumped
  <2>2. u \notin overlapped' => u \notin overlapped
    BY <1>14 DEF update_streak_and_counters
  <2>3. ensure_state(u)'.last # today' => events'[u]["save"] = 0 /\ events'[u]["review"] = 0
    BY <1>2, <1>11, <1>13, <2>1 DEF Counter
  <2>4. u \notin overlapped' =>
          /\ \A c \in {"save", "review"} : Shown(u)'[c] = events'[u][c]
          /\ \A c \in {"complete", "skip"} : Shown(u)'[c] <= events'[u][c]
    <3>1. CASE row.last = today
      BY <1>8, <1>9, <1>10, <1>12, <1>13, <2>1, <2>2, <3>1 DEF Counter
    <3>2. CASE row.last # today
      BY <1>9, <1>11, <1>13, <2>1, <3>2 DEF Counter
    <3>. QED  BY <3>1, <3>2
  <2>. QED  BY <1>6, <1>7, <2>3, <2>4 DEF QuietDaysAreEmpty, CountersAreTheDays
<1>15. CASE action # "complete"
  <2>1. new.last = today
    BY <1>1, <1>15, CountedType DEF IInv
  <2>2. row.last = today => (u \notin overlapped' => u \notin overlapped)
    BY DEF update_streak_and_counters
  <2>3. u \notin overlapped' =>
          /\ \A c \in {"save", "review"} : Shown(u)'[c] = events'[u][c]
          /\ \A c \in {"complete", "skip"} : Shown(u)'[c] <= events'[u][c]
    <3>1. CASE row.last = today
      BY <1>8, <1>9, <1>10, <1>12, <1>13, <2>1, <2>2, <3>1 DEF Counter
    <3>2. CASE row.last # today
      <4>1. \A c \in Counter : Shown(u)'[c] = IF c \in moved THEN 1 ELSE 0
        <5>1. Shown(u)' = Bump(Reset(row).counts, moved)
          BY <1>8, <1>9, <2>1
        <5>2. \A c \in Counter : Reset(row).counts[c] = 0
          BY <1>10, <1>13, <3>2
        <5> HIDE DEF moved
        <5>. QED  BY <1>13, <5>1, <5>2
      <4> HIDE DEF moved
      <4>. QED  BY <1>11, <1>13, <3>2, <4>1 DEF Counter
    <3>. QED  BY <3>1, <3>2
  <2>4. ensure_state(u)'.last = today'
    BY <1>2, <2>1
  <2>. QED  BY <1>6, <1>7, <2>3, <2>4 DEF QuietDaysAreEmpty, CountersAreTheDays
<1>. QED  BY <1>14, <1>15

LEMMA CountDays ==
  ASSUME IInv, TypeOK', NEW u \in User, NEW action \in Action,
         update_streak_and_counters(u, action), UNCHANGED <<today, skipping>>
  PROVE  DaysFit' /\ SkipsFit'
<1> DEFINE row == ensure_state(u)
<1>1. /\ row \in State /\ today \in Nat
      /\ Counted(row, action).last = row.last \/ Counted(row, action).last = today
  BY EnsureType, CountedType DEF IInv, TypeOK
<1>2. /\ ensure_state(u)' = Counted(row, action) /\ rows'[u] # None
      /\ \A v \in User \ {u} : ensure_state(v)' = ensure_state(v) /\ rows'[v] = rows[v]
  BY CountRows DEF IInv
<1>3. \A v \in User : activeDays'[v] \subseteq activeDays[v] \cup {today}
  BY DEF update_streak_and_counters, IInv, TypeOK
<1>4. DaysFit'
  BY <1>1, <1>2, <1>3 DEF IInv, DaysFit
<1>5. SkipsFit'
  BY <1>2 DEF IInv, SkipsFit
<1>. QED  BY <1>4, <1>5

LEMMA CountStepPreserves ==
  ASSUME IInv, TypeOK', NEW u \in User, NEW action \in Action, CountStep(u, action)
  PROVE  IInv'
<1>1. UNCHANGED <<ledger, badges, inbox, skipping, today, lost>>
  BY DEF CountStep
<1>2. CASE update_streak_and_counters(u, action)
  <2>1. /\ ensure_state(u)' = Counted(ensure_state(u), action) /\ ensure_state(u) \in State
        /\ \A v \in User \ {u} : ensure_state(v)' = ensure_state(v)
    BY <1>2, CountRows, EnsureType DEF IInv
  <2>2. TotalIsTheLedger'
    <3>1. \A v \in User : ensure_state(v)'.total = ensure_state(v).total
      BY <2>1, CountedType DEF IInv
    <3>2. \A v \in User : Total(v)' = ensure_state(v)'.total
      BY DEF Total, ensure_state, ZeroState
    <3>3. \A v \in User : Total(v)' = Total(v)
      BY <3>1, <3>2, TotalIs DEF IInv
    <3>. QED  BY <1>1, <3>3, SameTotals
  <2>3. BadgesFollowTheLedger'
    <3>1. \A v \in User : v \notin unchecked' =>
            v \notin unchecked /\ ensure_state(v)'.current = ensure_state(v).current
      <4>1. CASE action = "complete"
        BY <1>2, <2>1, <4>1, CountedType DEF update_streak_and_counters, IInv
      <4>2. CASE action # "complete"
        BY <1>2, <2>1, <4>2 DEF update_streak_and_counters
      <4>. QED  BY <4>1, <4>2
    <3>2. \A v \in User : ensure_state(v).longest <= ensure_state(v)'.longest
      <4>1. \A v \in User : ensure_state(v).longest \in Nat
        BY EnsureType DEF IInv, State
      <4>. QED  BY <1>2, <2>1, <4>1, CountLongest
    <3>. QED  BY <1>1, <3>1, <3>2, KeptBadges, LedgerReflexive DEF IInv
  <2>. QED  BY <1>1, <1>2, <2>2, <2>3, CountStreak, CountCounters, CountDays DEF IInv
<1>3. CASE /\ rows' = [rows EXCEPT ![u] = ensure_state(u)]
           /\ Uses("failures")
           /\ UNCHANGED <<events, activeDays, unchecked, overlapped>>
  <2>1. ensure_state(u) # None
    BY EnsureType DEF IInv
  <2>2. \A v \in User : ensure_state(v)' = ensure_state(v) /\ (rows[v] # None => rows'[v] # None)
    BY <1>3, <2>1 DEF ensure_state, IInv, TypeOK
  <2>3. RowsKept
    BY <1>1, <1>3, <2>2 DEF RowsKept
  <2>4. \A v \in User : Total(v)' = Total(v)
    <3>1. \A v \in User : Total(v)' = ensure_state(v)'.total
      BY DEF Total, ensure_state, ZeroState
    <3>. QED  BY <2>2, <3>1, TotalIs DEF IInv
  <2>5. TotalIsTheLedger'
    BY <1>1, <2>4, SameTotals
  <2>6. BadgesFollowTheLedger'
    BY <1>1, <1>3, <2>3, StillBadges
  <2>. QED  BY <1>1, <2>3, <2>5, <2>6, KeptSkips DEF IInv
<1>. QED  BY <1>2, <1>3 DEF CountStep

-----------------------------------------------------------------------------
(* The other steps.                                                         *)

LEMMA SameTotal ==
  ASSUME TypeOK, \A u \in User : ensure_state(u)'.total = ensure_state(u).total
  PROVE  \A u \in User : Total(u)' = Total(u)
<1>1. \A u \in User : Total(u)' = ensure_state(u)'.total
  BY DEF Total, ensure_state, ZeroState
<1>. QED  BY <1>1, TotalIs

LEMMA RowsUnchanged ==
  ASSUME IInv, TypeOK', UNCHANGED <<ledger, rows, badges, inbox, skipping, today, lost,
                                    unchecked, activeDays, events, overlapped>>
  PROVE  IInv'
<1>1. RowsKept
  BY SameRows
<1>2. TotalIsTheLedger'
  BY DEF IInv, TotalIsTheLedger, Total, Points
<1>3. BadgesFollowTheLedger'
  BY <1>1, StillBadges
<1>. QED  BY <1>1, <1>2, <1>3, KeptSkips DEF IInv

LEMMA AwardStepPreserves ==
  ASSUME IInv, TypeOK', NEW u \in User, NEW reason \in Reason, AwardStep(u, reason)
  PROVE  IInv'
<1>1. RowsKept /\ UNCHANGED skipping
  BY AwardRows DEF IInv, AwardStep
<1>. QED  BY <1>1, AwardTotal, AwardBadges, KeptSkips DEF IInv

LEMMA BadgeStepPreserves ==
  ASSUME IInv, TypeOK', NEW u \in User, BadgeStep(u)
  PROVE  IInv'
<1>1. UNCHANGED <<ledger, rows, skipping, today, lost, activeDays, events, overlapped>>
  BY DEF BadgeStep, BadgeCheck
<1>2. RowsKept
  BY <1>1, SameRows
<1>3. TotalIsTheLedger'
  BY <1>1 DEF IInv, TotalIsTheLedger, Total, Points
<1>. QED  BY <1>1, <1>2, <1>3, BadgeBadges, KeptSkips DEF IInv

LEMMA SkipReadsPreserves ==
  ASSUME IInv, TypeOK', NEW u \in User, SkipReads(u)
  PROVE  IInv'
<1> DEFINE row == ensure_state(u)
<1>1. row \in State /\ row # None
  BY EnsureType DEF IInv
<1>2. /\ UNCHANGED <<ledger, badges, inbox, today, lost, unchecked, activeDays, events, overlapped>>
      /\ rows' = [rows EXCEPT ![u] = row]
  BY DEF SkipReads
<1>3. \A v \in User : ensure_state(v)' = ensure_state(v) /\ (rows[v] # None => rows'[v] # None)
  BY <1>1, <1>2 DEF ensure_state, IInv, TypeOK
<1>4. RowsKept
  BY <1>2, <1>3 DEF RowsKept
<1>5. /\ skipping'[u] = [read |-> row, counts |-> Reset(row).counts] /\ rows'[u] # None
      /\ \A v \in User \ {u} : skipping'[v] = skipping[v]
  BY <1>1, <1>2 DEF SkipReads, IInv, TypeOK
<1>6. DaysFit'
  <2>1. row.last \in Nat => row.last <= today
    BY DEF IInv, DaysFit
  <2>2. \A v \in User : skipping'[v] # None /\ skipping'[v].read.last \in Nat => skipping'[v].read.last <= today'
    BY <1>2, <1>5, <2>1 DEF IInv, DaysFit
  <2>. QED  BY <1>4, <2>2, KeptDays DEF DaysFit
<1>7. SkipsFit'
  <2>1. row.last = today => Reset(row).counts = row.counts
    BY <1>1, ResetType
  <2>. QED  BY <1>2, <1>3, <1>5, <2>1 DEF IInv, SkipsFit
<1>8. TotalIsTheLedger'
  BY <1>2, <1>3, SameTotal, SameTotals DEF IInv
<1>9. BadgesFollowTheLedger'
  BY <1>2, <1>4, StillBadges
<1>. QED  BY <1>4, <1>6, <1>7, <1>8, <1>9, KeptDays DEF IInv

LEMMA SkipWritesPreserves ==
  ASSUME IInv, TypeOK', NEW u \in User, SkipWrites(u)
  PROVE  IInv'
<1> DEFINE old == rows[u]
           new == [old EXCEPT !.counts = Bump(skipping[u].counts, {"skip"})]
<1>1. /\ skipping[u] # None /\ old # None /\ old \in State /\ ensure_state(u) = old
      /\ skipping[u].counts \in [Counter -> Nat]
      /\ skipping[u].read.last = today => skipping[u].counts = skipping[u].read.counts
  BY DEF IInv, TypeOK, SkipsFit, SkipWrites, ensure_state
<1>2. /\ new \in State /\ new # None
      /\ new.total = old.total /\ new.last = old.last
      /\ new.current = old.current /\ new.longest = old.longest
      /\ new.counts = Bump(skipping[u].counts, {"skip"})
  <2>1. Bump(skipping[u].counts, {"skip"}) \in [Counter -> Nat]
    BY <1>1, BumpType
  <2>. QED  BY <1>1, <2>1, GamificationAssumption DEF State
<1>3. /\ rows' = [rows EXCEPT ![u] = new]
      /\ UNCHANGED <<ledger, badges, inbox, today, lost, unchecked, activeDays>>
  BY DEF SkipWrites
<1>4. /\ ensure_state(u)' = new /\ rows'[u] # None
      /\ \A v \in User \ {u} : ensure_state(v)' = ensure_state(v) /\ rows'[v] = rows[v]
  BY <1>2, <1>3 DEF ensure_state, IInv, TypeOK
<1>5. /\ skipping'[u] = None /\ \A v \in User \ {u} : skipping'[v] = skipping[v]
      /\ events'[u] = Bump(events[u], {"skip"}) /\ \A v \in User \ {u} : events'[v] = events[v]
      /\ \A v \in User : v \notin overlapped' => v \notin overlapped
      /\ u \notin overlapped' => ~Stale(u)
  BY DEF SkipWrites, IInv, TypeOK
<1>6. \A v \in User : /\ ensure_state(v)'.last = ensure_state(v).last
                      /\ ensure_state(v)'.current = ensure_state(v).current
                      /\ ensure_state(v)'.longest = ensure_state(v).longest
                      /\ ensure_state(v)'.total = ensure_state(v).total
  BY <1>1, <1>2, <1>4
<1>7. DaysFit' /\ SkipsFit'
  BY <1>3, <1>4, <1>5, <1>6 DEF IInv, DaysFit, SkipsFit
<1>8. TotalIsTheLedger'
  BY <1>3, <1>6, SameTotal, SameTotals DEF IInv
<1>9. StreakIsTheRun'
  BY <1>3, <1>6 DEF IInv, StreakIsTheRun, Active
<1>10. BadgesFollowTheLedger'
  <2>1. \A v \in User : ensure_state(v).longest \in Nat
    BY EnsureType DEF IInv, State
  <2>. QED  BY <1>3, <1>6, <2>1, KeptBadges, LedgerReflexive DEF IInv
<1>11. events[u] \in [Counter -> Nat] /\ \A c \in Counter :
         events'[u][c] = events[u][c] + IF c \in {"skip"} THEN 1 ELSE 0
  <2>1. events[u] \in [Counter -> Nat]
    BY DEF IInv, TypeOK
  <2>. QED  BY <1>5, <2>1, BumpAt
<1>12. QuietDaysAreEmpty'
  BY <1>3, <1>5, <1>6, <1>11 DEF IInv, QuietDaysAreEmpty, Counter
<1>13. CountersAreTheDays'
  <2>1. \A v \in User \ {u} : Shown(v)' = Shown(v)
    BY <1>3, <1>4 DEF Shown, Reset, Zero
  <2>2. Shown(u)' = IF old.last = today THEN new.counts ELSE Zero
    BY <1>2, <1>3, <1>4 DEF Shown, Reset, Zero, State
  <2>3. \A v \in User : v \notin overlapped =>
          /\ \A c \in {"save", "review"} : Shown(v)[c] = events[v][c]
          /\ \A c \in {"complete", "skip"} : Shown(v)[c] <= events[v][c]
    BY DEF IInv, CountersAreTheDays
  <2>4. ASSUME u \notin overlapped'
        PROVE  /\ \A c \in {"save", "review"} : Shown(u)'[c] = events'[u][c]
               /\ \A c \in {"complete", "skip"} : Shown(u)'[c] <= events'[u][c]
    <3>1. skipping[u].read.last = old.last /\ skipping[u].read.counts = old.counts /\ u \notin overlapped
      BY <1>5, <2>4 DEF Stale
    <3>2. CASE old.last = today
      <4>1. Shown(u) = old.counts /\ Shown(u)' = Bump(old.counts, {"skip"})
        BY <1>1, <1>2, <2>2, <3>1, <3>2, ShownIs DEF IInv
      <4>2. old.counts \in [Counter -> Nat] /\ \A c \in Counter :
              Shown(u)'[c] = old.counts[c] + IF c \in {"skip"} THEN 1 ELSE 0
        BY <1>1, <4>1, BumpAt DEF State
      <4>. QED  BY <1>11, <2>3, <3>1, <4>1, <4>2 DEF Counter
    <3>3. CASE old.last # today
      <4>1. Shown(u) = Zero /\ Shown(u)' = Zero
        BY <1>1, <2>2, <3>3, ShownIs DEF IInv
      <4>2. \A c \in Counter : Zero[c] = 0
        BY DEF Zero
      <4>. QED  BY <1>11, <2>3, <3>1, <4>1, <4>2 DEF Counter
    <3>. QED  BY <3>2, <3>3
  <2>. QED  BY <1>5, <2>1, <2>3, <2>4 DEF CountersAreTheDays
<1>. QED  BY <1>7, <1>8, <1>9, <1>10, <1>12, <1>13 DEF IInv

LEMMA MidnightPreserves ==
  ASSUME IInv, TypeOK', Midnight
  PROVE  IInv'
<1>1. /\ UNCHANGED <<ledger, rows, badges, inbox, skipping, lost, unchecked, activeDays, overlapped>>
      /\ today' = today + 1 /\ today \in Nat
      /\ \A u \in User : events'[u] = Zero
  BY DEF Midnight, IInv, TypeOK
<1>2. \A u \in User : ensure_state(u)' = ensure_state(u) /\ ensure_state(u) \in State
  BY <1>1, EnsureType DEF ensure_state, IInv
<1>3. \A c \in Counter : Zero[c] = 0
  BY DEF Zero
<1>4. \A u \in User : ensure_state(u).last # today' /\ (skipping[u] # None => skipping[u].read.last # today')
  BY <1>1, GamificationAssumption DEF IInv, DaysFit
<1>5. DaysFit'
  BY <1>1, <1>2 DEF IInv, DaysFit
<1>6. SkipsFit'
  BY <1>1, <1>4 DEF IInv, SkipsFit
<1>7. QuietDaysAreEmpty'
  BY <1>1, <1>3 DEF QuietDaysAreEmpty, Counter
<1>8. TotalIsTheLedger'
  BY <1>1 DEF IInv, TotalIsTheLedger, Total, Points
<1>9. BadgesFollowTheLedger'
  BY <1>1 DEF IInv, BadgesFollowTheLedger, EverDue, Candidates, Saves, Streak
<1>10. StreakIsTheRun'
  BY <1>1, <1>2 DEF IInv, StreakIsTheRun, Active
<1>11. CountersAreTheDays'
  <2>1. \A u \in User : Shown(u)' = Zero
    BY <1>2, <1>4 DEF Shown, Reset, State, Zero
  <2>. QED  BY <1>1, <1>3, <2>1 DEF CountersAreTheDays, Counter
<1>. QED  BY <1>5, <1>6, <1>7, <1>8, <1>9, <1>10, <1>11 DEF IInv

LEMMA CrashPreserves ==
  ASSUME IInv, TypeOK', Crash
  PROVE  IInv'
<1>1. /\ UNCHANGED <<ledger, rows, badges, inbox, today, lost, unchecked, activeDays, events, overlapped>>
      /\ \A u \in User : skipping'[u] = None
  BY DEF Crash
<1>2. RowsKept
  BY <1>1, SameRows
<1>3. DaysFit' /\ SkipsFit'
  BY <1>1, <1>2, KeptDays DEF DaysFit, SkipsFit
<1>4. TotalIsTheLedger'
  BY <1>1 DEF IInv, TotalIsTheLedger, Total, Points
<1>5. BadgesFollowTheLedger'
  BY <1>1, <1>2, StillBadges
<1>. QED  BY <1>2, <1>3, <1>4, <1>5, KeptDays DEF IInv

LEMMA InitHolds == Init => IInv
<1> SUFFICES ASSUME Init PROVE IInv
  OBVIOUS
<1>1. \A u \in User : ensure_state(u) = ZeroState
  BY DEF Init, ensure_state
<1>2. ZeroState.last = None /\ ZeroState.current = 0 /\ ZeroState.longest = 0
      /\ ZeroState.counts = Zero /\ ZeroState.total = 0 /\ \A c \in Counter : Zero[c] = 0
  BY DEF ZeroState, Zero
<1>3. TypeOK
  BY ZeroType, GamificationAssumption DEF Init, TypeOK, Idle, Position
<1>4. DaysFit /\ SkipsFit /\ QuietDaysAreEmpty
  BY <1>1, <1>2, <1>3, GamificationAssumption DEF Init, DaysFit, SkipsFit, QuietDaysAreEmpty, TypeOK, Counter
<1>5. TotalIsTheLedger
  <2>1. \A x \in Nat : 0 * x = 0
    OBVIOUS
  <2>2. \A r \in Reason : Xp[r] \in Nat
    BY GamificationAssumption
  <2>3. \A u \in User : Points(u) = 0
    BY <2>1, <2>2 DEF Init, Points, Reason
  <2>. QED  BY <2>3 DEF Init, TotalIsTheLedger, Total
<1>6. BadgesFollowTheLedger
  <2>1. \A u \in User : Candidates(u) = {}
    <3> SUFFICES ASSUME NEW u \in User PROVE Candidates(u) = {}
      OBVIOUS
    <3>1. /\ \A n \in SaveMarks : n \in Nat \ {0}
          /\ StreakMark \in Nat \ {0} /\ MinReviews \in Nat \ {0}
      BY GamificationAssumption
    <3>2. /\ ledger[u]["save"] = 0 /\ ledger[u]["review"] = 0
          /\ ledger[u]["complete"] = 0
      BY DEF Init, Reason
    <3>3. Saves(u) = 0 /\ Streak(u) = 0
      BY <3>2 DEF Init, Saves, Streak
    <3>4. {m \in SaveMarks : Saves(u) >= m} = {}
      BY <3>1, <3>3
    <3>5. {<<"annotations", n>> : n \in {m \in SaveMarks : Saves(u) >= m}} = {}
      BY <3>4
    <3>6. ~(ledger[u]["complete"] >= 1) /\ ~(Streak(u) >= StreakMark) /\ ~(ledger[u]["review"] >= MinReviews)
      BY <3>1, <3>2, <3>3
    <3>. QED  BY <3>5, <3>6 DEF Candidates
  <2>. QED  BY <2>1 DEF Init, BadgesFollowTheLedger
<1>7. StreakIsTheRun
  BY <1>1, <1>2 DEF Init, StreakIsTheRun
<1>8. CountersAreTheDays
  <2>1. \A u \in User : Shown(u) = Zero
    BY <1>1, <1>2 DEF Shown, Reset, ZeroState, Zero
  <2>. QED  BY <1>2, <2>1 DEF Init, CountersAreTheDays, Counter
<1>. QED  BY <1>3, <1>4, <1>5, <1>6, <1>7, <1>8 DEF IInv

LEMMA NextPreserves == IInv /\ [Next]_vars => IInv'
<1> SUFFICES ASSUME IInv, [Next]_vars PROVE IInv'
  OBVIOUS
<1>1. CASE Next
  <2>1. TypeOK'
    BY <1>1, StepType
  <2>2. CASE RequestStep
    <3>1. UNCHANGED <<ledger, rows, badges, inbox, skipping, today, lost,
                      unchecked, activeDays, events, overlapped>>
      BY <2>2 DEF RequestStep, save, complete_with_save, set_complete
    <3>. QED  BY <2>1, <3>1, RowsUnchanged
  <2>. QED
    BY <1>1, <2>1, <2>2, StepKinds, AwardStepPreserves, CountStepPreserves, BadgeStepPreserves,
       SkipReadsPreserves, SkipWritesPreserves, MidnightPreserves, CrashPreserves
<1>2. CASE UNCHANGED vars
  <2>1. TypeOK'
    BY <1>2 DEF IInv, TypeOK, vars
  <2>. QED  BY <1>2, <2>1, RowsUnchanged DEF vars
<1>. QED  BY <1>1, <1>2

\* IInv holds in every reachable state: days, skips on their way and counters fit.
THEOREM Inductive == Spec => []IInv
<1>. QED  BY InitHolds, NextPreserves, PTL DEF Spec

-----------------------------------------------------------------------------
(* What the runs check on a small instance.                                 *)

\* Every variable keeps its type.
THEOREM TypesHold == Spec => []TypeOK
<1>1. IInv => TypeOK
  BY DEF IInv
<1>. QED  BY <1>1, Inductive, PTL

\* The total is the sum of the ledger less the rows that lost their second
\* statement, for any settings of the points.
THEOREM TotalsHold == Spec => []TotalIsTheLedger
<1>1. IInv => TotalIsTheLedger
  BY DEF IInv
<1>. QED  BY <1>1, Inductive, PTL

\* Badges are earned, announced at most once and not missed, for any thresholds.
THEOREM BadgesHold == Spec => []BadgesFollowTheLedger
<1>1. IInv => BadgesFollowTheLedger
  BY DEF IInv
<1>. QED  BY <1>1, Inductive, PTL

\* Streaks are the runs of days with a counted save, over any number of days.
THEOREM StreaksHold == Spec => []StreakIsTheRun
<1>1. IInv => StreakIsTheRun
  BY DEF IInv
<1>. QED  BY <1>1, Inductive, PTL

\* The counters shown are those of the day for who had no overlapping skip.
THEOREM CountersHold == Spec => []CountersAreTheDays
<1>1. IInv => CountersAreTheDays
  BY DEF IInv
<1>. QED  BY <1>1, Inductive, PTL
=============================================================================
