------------------------------ MODULE LiveViews ------------------------------
(* Who is online and what an open page shows: the broker of server-sent     *)
(* events (backend/shared/sse.py, backend/sse), GET /users/online, and one  *)
(* page in a browser (frontend useSSE, its handlers, queries/feed.ts and    *)
(* queries/users.ts) that shows one tab of the feed and the roster.         *)
(* The event loop runs a publication without interruption; reads run in    *)
(* the thread pool beside it.  The page keeps its queries in TanStack      *)
(* Query: an invalidation drops the fetch in flight and starts over, but   *)
(* joins the very first one, and an infinite query reads its pages again   *)
(* one after the other.                                                    *)
EXTENDS Feed

CONSTANTS
  Viewer,      \* the user whose page is watched
  Stream,      \* connections the browsers may hold at GET /events
  OwnerOf,     \* the user of a connection
  PageStream,  \* the connections of the watched page
  Edited,      \* the document that is open in its editor
  Nil,
  QueueCap,    \* events a queue holds (100 in the code)
  Watched,      \* what is watched: a tab, or the roster, which is Nil
  FeedBudgets,  \* bounds on writes, connections, lock events, failures around a feed ...
  RosterBudget, \* ... and around a roster
  MaxPages      \* bound on the pages the viewer scrolls through

ASSUME LiveAssumption ==
  /\ Viewer \in Reader /\ Edited \in Doc /\ Nil \notin Stream
  /\ PageStream \subseteq Stream /\ PageStream # {}
  /\ OwnerOf \in [Stream -> Reader] /\ \A s \in PageStream : OwnerOf[s] = Viewer
  /\ QueueCap \in Nat \ {0} /\ Watched \subseteq Tab \union {Nil}

VARIABLES
  owed,       \* events a handler publishes next, its transaction being committed
  live,       \* connections whose generator runs
  sub,        \* connections whose queue is in _subscribers
  queue,      \* the queue of each connection
  tab,        \* the tab the page shows, Nil where its roster is watched
  link,       \* the connection the page's EventSource holds
  feed,       \* the page's feed query
  roster,     \* the page's roster query
  own,        \* the page's own draft write, and the draft it has in its cache
  feedSure,   \* since its last full fetch began, the page was told of every change
  rosterSure, \* ... of every change of the roster
  left        \* writes, connections, lock events and failures that may still come

brokerVars == <<live, sub, queue>>
pageVars == <<tab, link, feed, roster, own, feedSure, rosterSure>>
liveVars == <<corpusVars, owed, brokerVars, pageVars, left>>

FeedKind == {"saved", "completed", "lock"}
Kind == FeedKind \union {"presence"}

Page == [items: Seq(Item), total: Nat \union {Nil}]
Ask == [offset: Nat, stage: {"none", "idle", "sent", "selected", "answered"},
        items: Seq(Item), total: Nat \union {Nil}]
Sent(offset) == [offset |-> offset, stage |-> "sent", items |-> <<>>, total |-> Nil]
NoAsk == [Sent(0) EXCEPT !.stage = "idle"]

\* Why the last invalidation may not be followed by a full read of the list.
Missed == {"nothing", "joined", "scrolled", "failed"}

FeedQuery == [pages: Seq(Page), acc: Seq(Page), ask: Ask, missed: Missed]
OwnWrite == [cached: BOOLEAN, stage: {"idle", "sent", "done"},
             to: {"none", "filled", "skip"}, crossed: BOOLEAN]
NoWrite(cached) == [cached |-> cached, stage |-> "idle", to |-> "none", crossed |-> FALSE]

LiveTypeOK ==
  /\ ann \in [Doc -> AnnState]
  /\ draft \in [Reader -> [Doc -> DraftState]]
  /\ owed \in Seq({"saved", "completed"})
  /\ live \subseteq Stream /\ sub \subseteq live
  /\ queue \in [Stream -> Seq(Kind)] /\ \A s \in Stream : Len(queue[s]) <= QueueCap
  /\ tab \in Tab \union {Nil} /\ link \in PageStream \union {Nil}
  /\ feed \in FeedQuery
  /\ roster \in [seen: BOOLEAN, data: SUBSET Reader, answer: SUBSET Reader,
                 stage: {"none", "idle", "sent", "answered"}]
  /\ own \in OwnWrite /\ feedSure \in BOOLEAN /\ rosterSure \in BOOLEAN

\* The page has just been opened, or, where it is connected, turned to a tab it
\* had not shown; the query is under way.  The feed and the roster share nothing
\* but the connection, so one of them is watched at a time.
LiveInit ==
  /\ \E state \in {"none", "open"} : ann = [d \in Doc |-> state]
  /\ draft = [u \in Reader |-> [d \in Doc |-> "none"]]
  /\ owed = <<>>
  /\ tab \in Watched /\ link \in IF tab = Nil THEN {Nil} ELSE {Nil, CHOOSE s \in PageStream : TRUE}
  /\ live = {link} \ {Nil} /\ sub = live /\ queue = [s \in Stream |-> <<>>]
  /\ feed = [pages |-> <<>>, acc |-> <<>>, missed |-> "nothing",
             ask |-> [Sent(0) EXCEPT !.stage = IF tab = Nil THEN "none" ELSE @]]
  /\ roster = [seen |-> FALSE, data |-> {}, answer |-> {},
               stage |-> IF tab = Nil THEN "sent" ELSE "none"]
  /\ own = NoWrite(FALSE) /\ feedSure = (link # Nil) /\ rosterSure = FALSE
  /\ left \in IF tab = Nil THEN {RosterBudget} ELSE FeedBudgets

-----------------------------------------------------------------------------
(* The broker.                                                             *)

Users(S) == {OwnerOf[s] : s \in S}

Online == Users(sub)

StreamsOf(U) == {s \in Stream : OwnerOf[s] \in U}

\* What is left of a queue after n more presence events, as far as they fit.
Filled(q, n) == Start(q \o [i \in 1..n |-> "presence"], QueueCap)

Full(S) == {s \in S : Len(queue[s]) = QueueCap}

\* Mutant: cleaning up a full queue tells nobody.
GoneSilently(S, T) == {}

\* The users whose last queue is dropped because it is full.
Gone(S, T) == Users(Full(S \intersect T)) \ Users(S \ Full(S \intersect T))

\* publish_to: the event goes to the queues T of the subscribers S, a full one is
\* dropped, and the others hear of the users who left with it if there is room.
Published(S, T, kind) ==
  LET kept == S \ Full(S \intersect T)
      gone == Gone(S, T)
  IN  [sub |-> kept,
       gone |-> gone,
       queue |-> [s \in Stream |->
         IF s \notin kept THEN queue[s]
         ELSE Filled(IF s \in T THEN Append(queue[s], kind) ELSE queue[s],
                     Cardinality(gone))]]

\* The watched page keeps being told of everything as long as its queue is
\* subscribed and a departure that was dropped is covered by another event.
Tell(told) ==
  /\ sub' = told.sub /\ queue' = told.queue
  /\ feedSure' = (feedSure /\ link \in told.sub)
  /\ rosterSure' = (rosterSure /\ link \in told.sub
                    /\ (told.gone = {} \/ "presence" \in Range(told.queue[link])))

Others(s) == {t \in Stream : OwnerOf[t] # OwnerOf[s]}

-----------------------------------------------------------------------------
(* The page's queries.                                                     *)

Items(pages) == FlattenSeq([i \in DOMAIN pages |-> pages[i].items])

\* getNextPageParam: the number of items so far, while it is below the first total.
HasNext(pages) == Len(Items(pages)) < pages[1].total

\* The very first fetch has nothing to show yet and is not cancelled.
FirstFetch == feed.pages = <<>> /\ feed.ask # NoAsk

\* isFetchingNextPage
FetchingNext == feed.pages # <<>> /\ feed.acc = feed.pages

\* invalidateQueries on the feed, with the connection the page then has.  Joined to
\* a first fetch that has read already, it changes nothing.
FeedInvalidated(conn) ==
  /\ feed' = IF ~FirstFetch
             THEN [feed EXCEPT !.acc = <<>>, !.ask = Sent(0), !.missed = "nothing"]
             ELSE IF feed.ask.stage \in {"selected", "answered"}
             THEN [feed EXCEPT !.missed = "joined"] ELSE feed
  /\ feedSure' = (conn \in sub /\ (FirstFetch => feedSure))

RosterInvalidated(conn) ==
  /\ roster' = IF roster.seen THEN [roster EXCEPT !.stage = "sent", !.answer = {}] ELSE roster
  /\ rosterSure' = IF roster.seen THEN conn \in sub ELSE rosterSure

\* Mutant: only saves change the lists of the page.
FeedEventSavedOnly(kind) == kind = "saved"

\* registerFeedHandlers, registerLockHandlers
FeedEvent(kind) == kind \in FeedKind

\* registerPresenceHandlers
RosterEvent(kind) == kind = "presence"

-----------------------------------------------------------------------------
(* Connections.                                                            *)

Free(u) == StreamsOf({u}) \ live

\* The head of _stream_for_user: subscribe, and tell the others unless the lookup
\* of the user fails.
Opened(s, announced) ==
  LET S == sub \union {s}
  IN  /\ left.connects > 0
      /\ live' = live \union {s}
      /\ left' = [left EXCEPT !.connects = @ - 1]
      /\ IF announced
         THEN Tell(Published(S, S \intersect Others(s), "presence"))
         ELSE /\ sub' = S /\ queue' = queue /\ feedSure' = feedSure
              /\ rosterSure' = (rosterSure /\ Online = Users(S))

\* Who else is connected matters to the roster only.
Connect(u) ==
  /\ tab = Nil /\ u # Viewer /\ owed = <<>> /\ Free(u) # {}
  /\ \E announced \in BOOLEAN : Opened(CHOOSE s \in Free(u) : TRUE, announced)
  /\ UNCHANGED <<corpusVars, owed, tab, link, feed, roster, own>>

\* The watched page connects, again after a loss.
PageConnect ==
  LET s == CHOOSE t \in PageStream \ live : TRUE
  IN  /\ link = Nil /\ owed = <<>> /\ PageStream \ live # {}
      /\ Opened(s, TRUE)
      /\ link' = s
      /\ UNCHANGED <<corpusVars, owed, tab, feed, roster, own>>

\* onerror while the browser reconnects: both queries are invalidated.
LinkLost ==
  /\ link # Nil
  /\ link' = Nil
  /\ FeedInvalidated(Nil) /\ RosterInvalidated(Nil)
  /\ UNCHANGED <<corpusVars, owed, brokerVars, tab, own, left>>

\* The finally of _stream_for_user, once the server notices that the client has
\* gone.  A user without a queue is reported offline, a second time if its queue
\* had been dropped.
StreamEnds(s) ==
  LET S == sub \ {s}
      offline == OwnerOf[s] \notin Users(S)
      told == IF offline THEN Published(S, S \intersect Others(s), "presence")
              ELSE [sub |-> S, gone |-> {}, queue |-> queue]
  IN  /\ s \in live /\ s # link /\ owed = <<>>
      /\ live' = live \ {s}
      /\ Tell([told EXCEPT !.queue[s] = <<>>])
      /\ UNCHANGED <<corpusVars, owed, tab, link, feed, roster, own, left>>

\* The generator takes an event from its queue, dropped from the broker or not.
\* What a connection without a page gets goes nowhere.
Deliver(s) ==
  LET kind == Head(queue[s])
  IN  /\ s \in live /\ queue[s] # <<>>
      /\ queue' = [queue EXCEPT ![s] = Tail(@)]
      /\ IF s = link /\ FeedEvent(kind) THEN FeedInvalidated(s)
         ELSE UNCHANGED <<feed, feedSure>>
      /\ IF s = link /\ RosterEvent(kind) THEN RosterInvalidated(s)
         ELSE UNCHANGED <<roster, rosterSure>>
      /\ UNCHANGED <<corpusVars, owed, live, sub, tab, link, own, left>>

-----------------------------------------------------------------------------
(* Writes.                                                                 *)

\* A write does nothing to the roster; its event is one like a lock event.
Write ==
  /\ left.writes > 0
  /\ left' = [left EXCEPT !.writes = @ - 1]

Undrafted(u, d) == draft' = [draft EXCEPT ![u][d] = "none"]

\* save_annotation and set_complete, up to the commit; the event loop runs nothing
\* else before their events are published.
Save(u, d) ==
  /\ Write /\ owed = <<>>
  /\ \E state \in IF ann[d] = "completed" THEN {"open", "completed"} ELSE {"open"} :
       ann' = [ann EXCEPT ![d] = state]
  /\ Undrafted(u, d)
  /\ owed' = <<"saved">>
  /\ UNCHANGED <<brokerVars, pageVars>>

Complete(u, d) ==
  /\ Write /\ owed = <<>>
  /\ ann' = [ann EXCEPT ![d] = "completed"]
  /\ \/ ann[d] = "open" /\ owed' = <<"completed">> /\ draft' = draft
     \/ ann[d] # "completed" /\ owed' = <<"saved", "completed">> /\ Undrafted(u, d)
     \/ ann[d] = "completed" /\ owed' = <<"saved">> /\ Undrafted(u, d)
  /\ UNCHANGED <<brokerVars, pageVars>>

Uncomplete(d) ==
  /\ Write /\ owed = <<>> /\ ann[d] = "completed"
  /\ ann' = [ann EXCEPT ![d] = "open"]
  /\ owed' = <<"completed">>
  /\ UNCHANGED <<draft, brokerVars, pageVars>>

\* publish_broadcast after the commit.
Publish ==
  /\ owed # <<>>
  /\ owed' = Tail(owed)
  /\ Tell(Published(sub, sub, Head(owed)))
  /\ UNCHANGED <<corpusVars, live, tab, link, feed, roster, own, left>>

\* A lock is granted, released or swept: the lists do not show it.
LockEvent ==
  /\ owed = <<>> /\ left.locks > 0
  /\ left' = [left EXCEPT !.locks = @ - 1]
  /\ Tell(Published(sub, sub, "lock"))
  /\ UNCHANGED <<corpusVars, owed, live, tab, link, feed, roster, own>>

\* A draft moves between having references and not having any.
Crosses(u, d, state) == (draft[u][d] = "filled") # (state = "filled")

\* PUT and DELETE of a draft publish nothing.  What another page of the viewer, or
\* an aborted request of this one, writes, the watched page does not know.
WriteDraft(u, d, state) ==
  /\ Write
  /\ draft' = [draft EXCEPT ![u][d] = state]
  /\ feedSure' = (feedSure /\ (u = Viewer => ~Crosses(u, d, state)))
  /\ UNCHANGED <<ann, owed, brokerVars, tab, link, feed, roster, own, rosterSure>>

\* The drafts that are left when retention has deleted those in D.
Undeleted(D) ==
  [u \in Reader |-> [d \in Doc |-> IF <<u, d>> \in D THEN "none" ELSE draft[u][d]]]

\* run_purge, in a worker thread: old drafts of anybody go, and nothing is published.
RetentionPurge ==
  /\ Write
  /\ \E D \in SUBSET {p \in Reader \X Doc : draft[p[1]][p[2]] # "none"} :
       /\ draft' = Undeleted(D)
       /\ feedSure' = (feedSure /\ \A d \in Doc :
                        <<Viewer, d>> \in D => ~Crosses(Viewer, d, "none"))
  /\ UNCHANGED <<ann, owed, brokerVars, tab, link, feed, roster, own, rosterSure>>

\* debouncedSave and handleSkip: a list with references is put, an empty one is
\* deleted, and so is the draft of a skipped document.
SendDraft(to) ==
  /\ Write /\ tab # Nil /\ own.stage = "idle"
  /\ own' = [own EXCEPT !.stage = "sent", !.to = to]
  /\ UNCHANGED <<corpusVars, owed, brokerVars, tab, link, feed, roster, feedSure, rosterSure>>

ServeDraft ==
  LET state == IF own.to = "filled" THEN "filled" ELSE "none"
  IN  /\ own.stage = "sent"
      /\ draft' = [draft EXCEPT ![Viewer][Edited] = state]
      /\ own' = [own EXCEPT !.stage = "done", !.crossed = Crosses(Viewer, Edited, state)]
      /\ UNCHANGED <<ann, owed, brokerVars, tab, link, feed, roster,
                     feedSure, rosterSure, left>>

\* The page compares the draft it has in its cache, not the one in the database,
\* with what it wrote, and invalidates its feed if there is a difference; after a
\* skip it always does, answered or not.
DraftAnswered ==
  LET written == own.to = "filled"
      tells == own.to = "skip" \/ own.cached # written
  IN  /\ own.stage = "done" \/ (own.stage = "sent" /\ own.to = "skip")
      /\ own' = NoWrite(IF own.stage = "done" THEN written ELSE own.cached)
      /\ IF tells THEN FeedInvalidated(link)
         ELSE feed' = feed /\ feedSure' = (feedSure /\ ~own.crossed)
      /\ UNCHANGED <<corpusVars, owed, brokerVars, tab, link, roster, rosterSure, left>>

\* An answer that is aborted, by the next write or on leaving the document, an
\* error or a request that fails: nothing is invalidated.
DraftDropped ==
  /\ own.stage # "idle" /\ own.to # "skip"
  /\ own' = NoWrite(own.cached)
  /\ feedSure' = (feedSure /\ ~own.crossed)
  /\ UNCHANGED <<corpusVars, owed, brokerVars, tab, link, feed, roster, rosterSure, left>>

\* useDraftQuery: read when the document is opened, again after a completion.
DraftRead ==
  LET cached == draft[Viewer][Edited] = "filled"
  IN  /\ tab # Nil /\ own.stage = "idle" /\ own.cached # cached
      /\ own' = [own EXCEPT !.cached = cached]
      /\ UNCHANGED <<corpusVars, owed, brokerVars, tab, link, feed, roster,
                     feedSure, rosterSure, left>>

-----------------------------------------------------------------------------
(* Requests of the page.                                                   *)

\* list_feed: the page, then for the first page the count, each on its own.
FeedSelect ==
  LET list == Listing(Viewer, tab)
      items == PageAt(list, feed.ask.offset)
  IN  /\ feed.ask.stage = "sent"
      /\ feed' = [feed EXCEPT !.ask.items = items,
                              !.ask.stage = IF @ = "sent" /\ feed.ask.offset = 0
                                            THEN "selected" ELSE "answered"]
      /\ UNCHANGED <<corpusVars, owed, brokerVars, tab, link, roster, own,
                     feedSure, rosterSure, left>>

FeedCount ==
  /\ feed.ask.stage = "selected"
  /\ feed' = [feed EXCEPT !.ask.total = Len(Listing(Viewer, tab)), !.ask.stage = "answered"]
  /\ UNCHANGED <<corpusVars, owed, brokerVars, tab, link, roster, own,
                 feedSure, rosterSure, left>>

\* A page of the feed arrives.  A fetch that began at offset 0 asks for as many
\* pages as are shown, as long as there are any.
FeedReceive ==
  LET got == Append(feed.acc, [items |-> feed.ask.items, total |-> feed.ask.total])
      more == Len(got) < Len(feed.pages) /\ HasNext(got)
  IN  /\ feed.ask.stage = "answered"
      /\ feed' = IF more
                 THEN [feed EXCEPT !.acc = got, !.ask = Sent(Len(Items(got)))]
                 ELSE [feed EXCEPT !.pages = got, !.acc = <<>>, !.ask = NoAsk]
      /\ UNCHANGED <<corpusVars, owed, brokerVars, tab, link, roster, own,
                     feedSure, rosterSure, left>>

\* fetchNextPage: one page more, after those that are shown.  A refetch under way is
\* cancelled, and with the answer the list counts as read.
FeedMore ==
  /\ feed.pages # <<>> /\ ~FetchingNext
  /\ Len(feed.pages) < MaxPages /\ HasNext(feed.pages)
  /\ feed' = [feed EXCEPT !.acc = feed.pages, !.ask = Sent(Len(Items(feed.pages))),
                          !.missed = IF feed.ask = NoAsk THEN @ ELSE "scrolled"]
  /\ UNCHANGED <<corpusVars, owed, brokerVars, tab, link, roster, own,
                 feedSure, rosterSure, left>>

\* A request fails, and so does its retry: the pages stay as they are.
FeedFails ==
  /\ feed.ask.stage \in {"sent", "selected", "answered"} /\ left.failures > 0
  /\ left' = [left EXCEPT !.failures = @ - 1]
  /\ feed' = [feed EXCEPT !.acc = <<>>, !.ask = NoAsk,
                          !.missed = IF FetchingNext THEN @ ELSE "failed"]
  /\ UNCHANGED <<corpusVars, owed, brokerVars, tab, link, roster, own, feedSure, rosterSure>>

\* list_online_users
RosterRead ==
  /\ roster.stage = "sent"
  /\ roster' = [roster EXCEPT !.answer = Online, !.stage = "answered"]
  /\ UNCHANGED <<corpusVars, owed, brokerVars, tab, link, feed, own, feedSure, rosterSure, left>>

RosterReceive ==
  /\ roster.stage = "answered"
  /\ roster' = [seen |-> TRUE, data |-> roster.answer, stage |-> "idle", answer |-> {}]
  /\ UNCHANGED <<corpusVars, owed, brokerVars, tab, link, feed, own, feedSure, rosterSure, left>>

Polled ==
  /\ roster.stage = "idle"
  /\ roster' = [roster EXCEPT !.stage = "sent"]
  /\ rosterSure' = (link \in sub)
  /\ UNCHANGED <<corpusVars, owed, brokerVars, tab, link, feed, own, feedSure, left>>

\* Mutant: a page with a connection need not poll.
PollUnlessConnected == link = Nil /\ Polled

\* refetchInterval: the roster is asked for every minute.
Poll == Polled

-----------------------------------------------------------------------------
LiveNext ==
  \/ \E u \in Reader : Connect(u)
  \/ PageConnect \/ LinkLost
  \/ \E s \in Stream : StreamEnds(s) \/ Deliver(s)
  \/ \E u \in Reader, d \in Doc : Save(u, d) \/ Complete(u, d)
  \/ \E d \in Doc : Uncomplete(d)
  \/ \E u \in Reader, d \in Doc, state \in DraftState : WriteDraft(u, d, state)
  \/ RetentionPurge
  \/ \E to \in {"none", "filled", "skip"} : SendDraft(to)
  \/ ServeDraft \/ DraftAnswered \/ DraftDropped \/ DraftRead
  \/ Publish \/ LockEvent
  \/ FeedSelect \/ FeedCount \/ FeedReceive \/ FeedMore \/ FeedFails
  \/ RosterRead \/ RosterReceive \/ Poll

LiveSpec == LiveInit /\ [][LiveNext]_liveVars

\* The server answers, and the page receives and polls as long as it is in view
\* (refetchInterval rests in a hidden one); nobody has to connect, write or scroll.
LiveFairness ==
  WF_liveVars(RosterRead) /\ WF_liveVars(RosterReceive) /\ WF_liveVars(Poll)

LiveFairSpec == LiveSpec /\ LiveFairness

-----------------------------------------------------------------------------
(* At rest, a page that was told of every change since its last full fetch *)
(* began shows the list of its tab as the database has it.                   *)
ShowsTheList ==
  LET list == Listing(Viewer, tab)
      n == PageSize * Len(feed.pages)
  IN  (/\ feedSure /\ feed.pages # <<>> /\ feed.ask = NoAsk /\ owed = <<>> /\ ~own.crossed
       /\ FeedKind \intersect Range(queue[link]) = {})
      => /\ Items(feed.pages) = Start(list, n)
         /\ feed.pages[1].total = Len(list)

(* A page that was told of every change since its last full fetch began,    *)
(* that has no event left to handle and no fetch under way, and whose last  *)
(* full fetch was neither joined too late nor cut short nor lost, shows the *)
(* list of its tab as the database has it now: the beginning of it, as many *)
(* pages as it loaded, no document twice and none left out between them     *)
(* although the pages were read by offset while documents moved between the *)
(* tabs.  Commit before publication, the invalidation that drops the fetch  *)
(* in flight and the pages read again from the first one make it so.        *)
FeedIsCurrent == feed.missed = "nothing" => ShowsTheList

(* The roster of a page that was told of every arrival and departure since  *)
(* its last fetch began is the set of users with a subscribed queue, also    *)
(* when a queue ran full and was dropped, a user had several connections,    *)
(* or a connection ended long after its queue was gone.                     *)
RosterIsCurrent ==
  (/\ rosterSure /\ roster.seen /\ roster.stage = "idle"
   /\ "presence" \notin Range(queue[link]))
  => roster.data = Online

(* Every document is in exactly one tab of every user, and its item there   *)
(* says the state that tab stands for, one of a draft only to the user who  *)
(* has it: no list loses a document, none shares one, whatever drafts are   *)
(* left behind by a completion or another user.                             *)
TabsPartition ==
  \A u \in Reader, d \in Doc :
    \E t \in Tab :
      /\ \A other \in Tab : InTab(u, other, d) <=> other = t
      /\ StateOf(t, d) \in StatesOf[t]
      /\ StateOf(t, d) = "draft" => draft[u][d] = "filled"

(* Once nobody comes or goes any more the roster becomes right and stays    *)
(* right, whatever events were dropped: the poll repairs what the broker    *)
(* accepts to lose (sse.py: next polling reconcile will converge state).    *)
RosterConverges == <>[](roster.seen => roster.data = Online)
=============================================================================
