---------------------------- MODULE BrowserProofs ----------------------------
(***************************************************************************)
(* What runs in the owner's browser, for every number of resources, polls, *)
(* ranges, entries and traversals: the poller of the dashboard (Poller),   *)
(* the panel that shows its snapshots (Panel) and the guard around unsaved *)
(* changes (Navigation).  The parts share nothing but this module.         *)
(***************************************************************************)
EXTENDS Poller, Navigation, Panel, FiniteSetTheorems, TLAPS

------------------------------------------------------------------------------
(* The poller.                                                              *)

\* The variables' types.
Views == [data : [Resources -> Versions \cup {None}], etags : [Resources -> Versions \cup {None}],
          status : Statuses]
PollerTyped ==
  /\ running \in BOOLEAN /\ expired \in BOOLEAN /\ inFlight \in BOOLEAN /\ timer \in BOOLEAN
  /\ visible \in BOOLEAN /\ online \in BOOLEAN /\ session \in BOOLEAN
  /\ polls \in [Slots -> Poll \cup {NoPoll}]
  /\ view \in Views /\ content \in Versions

\* A poll whose answer will count.
Live(p) == p.current /\ p.open

\* An answer has a version; a request that is under way is of a live poll.
PollSound(p) ==
  p # NoPoll => \A r \in Resources :
    /\ p.fetch[r].at \in {"200", "304", "401", "body", "done"} => p.fetch[r].version # None
    /\ p.fetch[r].at = "sent" => Live(p)

\* A live poll asked with the ETags of what is shown, and has been answered
\* with nothing older.
PollFresh(p, v, c) ==
  Live(p) => \A r \in Resources :
    \/ p.fetch[r].at = "failed"
    \/ /\ p.fetch[r].etag = v.etags[r]
       /\ p.fetch[r].version # None => p.fetch[r].version \in v.data[r]..c

PollsSound == \A s \in Slots : PollSound(polls[s])
PollsFresh == \A s \in Slots : PollFresh(polls[s], view, content)
OneLive ==
  /\ inFlight <=> \E s \in Slots : Live(polls[s])
  /\ \A s, t \in Slots : Live(polls[s]) /\ Live(polls[t]) => s = t
FlagsSound ==
  /\ inFlight \/ timer => ~expired
  /\ inFlight => Active
  /\ LoadingEnds
  /\ view.status = "auth-expired" <=> expired
ViewSound ==
  /\ (\E r \in Resources : view.data[r] = None) => expired
  /\ EtagOfShown /\ ExpiredShowsNothing
  /\ \A r \in Resources : view.data[r] <= content

PollerInv == PollerTyped /\ PollsSound /\ PollsFresh /\ OneLive /\ FlagsSound /\ ViewSound

------------------------------------------------------------------------------
(* What an operation makes of one poll.                                     *)

LEMMA NoPollFacts == ~NoPoll.current /\ ~NoPoll.open
BY DEF NoPoll

LEMMA PollFields ==
  ASSUME NEW p \in Poll \cup {NoPoll}
  PROVE  /\ p.current \in BOOLEAN /\ p.open \in BOOLEAN
         /\ p # NoPoll => p \in Poll /\ p.fetch \in [Resources -> Fetch]
         /\ Live(p) => p # NoPoll
<1>1. CASE p = NoPoll
  BY <1>1, NoPollFacts DEF NoPoll, Live
<1>2. CASE p # NoPoll
  BY <1>2 DEF Poll
<1> QED
  BY <1>1, <1>2

LEMMA TidyEither == ASSUME NEW p PROVE Tidy(p) = p \/ Tidy(p) = NoPoll
BY DEF Tidy

LEMMA SupersedingPoll ==
  ASSUME NEW p \in Poll \cup {NoPoll}
  PROVE  /\ Superseding(p) \in Poll \cup {NoPoll} /\ ~Superseding(p).current
         /\ PollSound(p) /\ ~Live(p) => PollSound(Superseding(p))
<1>1. CASE p = NoPoll
  BY <1>1, NoPollFacts DEF Superseding, PollSound
<1>2. CASE p # NoPoll
  <2>1. p \in Poll /\ Superseding(p) = [p EXCEPT !.current = FALSE]
    BY <1>2 DEF Superseding
  <2>2. PICK q : q = [p EXCEPT !.current = FALSE]
    OBVIOUS
  <2>3. q \in Poll /\ q.current = FALSE /\ q.open = p.open /\ q.fetch = p.fetch
    BY <2>1, <2>2 DEF Poll
  <2>4. PollSound(p) /\ ~Live(p) => PollSound(q)
    BY <2>3, <1>2 DEF PollSound
  <2> QED
    BY <2>1, <2>2, <2>3, <2>4
<1> QED
  BY <1>1, <1>2

LEMMA FailedFetch == Failed \in Fetch /\ Failed.at = "failed" /\ Failed.version = None
BY DEF Failed, Fetch

LEMMA AbortedPoll ==
  ASSUME NEW p \in Poll \cup {NoPoll}, PollSound(p)
  PROVE  /\ Aborted(p) \in Poll \cup {NoPoll} /\ PollSound(Aborted(p))
         /\ Superseding(Aborted(p)) \in Poll \cup {NoPoll}
         /\ ~Superseding(Aborted(p)).current
         /\ PollSound(Superseding(Aborted(p)))
         /\ Aborted(p) # NoPoll =>
              \A r \in Resources : Aborted(p).fetch[r].at # "sent"
         /\ Live(Aborted(p)) => Live(p)
<1>1. CASE p = NoPoll
  BY <1>1, NoPollFacts DEF Superseding, PollSound, Aborted, Live
<1>2. CASE p # NoPoll
  <2> DEFINE fetched == [r \in Resources |->
               IF p.fetch[r].at \in {"sent", "body"} THEN Failed ELSE p.fetch[r]]
  <2>1. p \in Poll /\ p.fetch \in [Resources -> Fetch]
    BY <1>2 DEF Poll
  <2>2. fetched \in [Resources -> Fetch]
    BY <2>1, FailedFetch
  <2>3. PICK q : q = [p EXCEPT !.fetch = [r \in Resources |->
                        IF @[r].at \in {"sent", "body"} THEN Failed ELSE @[r]]]
    OBVIOUS
  <2>4. q \in Poll /\ q.current = p.current /\ q.open = p.open /\ q.fetch = fetched
    BY <2>1, <2>2, <2>3 DEF Poll
  <2>5. \A r \in Resources :
          /\ fetched[r].at # "sent"
          /\ fetched[r].at \in {"200", "304", "401", "body", "done"} =>
               fetched[r].at = p.fetch[r].at /\ fetched[r].version = p.fetch[r].version
    BY FailedFetch
  <2>6. PollSound(q)
    BY <2>4, <2>5, <1>2 DEF PollSound
  <2>7. Aborted(p) = q \/ Aborted(p) = NoPoll
    BY <1>2, <2>3, TidyEither DEF Aborted
  <2>8. PollSound(NoPoll) /\ ~Live(NoPoll)
    BY NoPollFacts DEF PollSound, Live
  <2>9. Aborted(p) \in Poll \cup {NoPoll} /\ PollSound(Aborted(p)) /\ (Live(Aborted(p)) => Live(p))
    BY <2>4, <2>6, <2>7, <2>8 DEF Live
  <2>10. Aborted(p) # NoPoll => \A r \in Resources : Aborted(p).fetch[r].at # "sent"
    BY <2>4, <2>5, <2>7
  <2>11. PICK a : a = Aborted(p)
    OBVIOUS
  <2>12. a \in Poll \cup {NoPoll} /\ PollSound(a)
         /\ (a # NoPoll => \A r \in Resources : a.fetch[r].at # "sent")
    BY <2>9, <2>10, <2>11
  <2>13. PollSound(Superseding(a))
    <3>1. CASE a = NoPoll
      BY <3>1, <2>8 DEF Superseding
    <3>2. CASE a # NoPoll
      <4>1. a \in Poll /\ Superseding(a) = [a EXCEPT !.current = FALSE]
        BY <3>2, <2>12 DEF Superseding
      <4>2. PICK b : b = [a EXCEPT !.current = FALSE]
        OBVIOUS
      <4>3. b.fetch = a.fetch
        BY <4>1, <4>2 DEF Poll
      <4>4. PollSound(b)
        BY <4>3, <3>2, <2>12 DEF PollSound
      <4> QED
        BY <4>1, <4>2, <4>4
    <3> QED
      BY <3>1, <3>2
  <2>14. Superseding(a) \in Poll \cup {NoPoll} /\ ~Superseding(a).current
    BY <2>12, SupersedingPoll
  <2> QED
    BY <2>9, <2>10, <2>11, <2>13, <2>14
<1> QED
  BY <1>1, <1>2

------------------------------------------------------------------------------
(* What the handlers share.                                                 *)

\* The table of polls, before and after, with what must be kept of it.
PollsGood == polls \in [Slots -> Poll \cup {NoPoll}] /\ PollsSound /\ OneLive

LEMMA AbortStep ==
  ASSUME PollsGood, view \in Views, Abort
  PROVE  /\ polls' \in [Slots -> Poll \cup {NoPoll}] /\ PollsSound'
         /\ inFlight' = FALSE /\ \A s \in Slots : ~Live(polls'[s])
<1>1. PICK q : q = [s \in Slots |-> Superseding(Aborted(polls[s]))]
  OBVIOUS
<1>2. polls' = q /\ inFlight' = FALSE
  BY <1>1 DEF Abort
<1>3. \A s \in Slots : /\ q[s] \in Poll \cup {NoPoll} /\ ~q[s].current /\ PollSound(q[s])
  <2> TAKE s \in Slots
  <2>1. polls[s] \in Poll \cup {NoPoll} /\ PollSound(polls[s])
    BY DEF PollsGood, PollsSound
  <2> QED
    BY <1>1, <2>1, AbortedPoll
<1> QED
  BY <1>1, <1>2, <1>3 DEF PollsSound, Live

LEMMA BeginStep ==
  ASSUME PollsGood, view \in Views, ~inFlight, Begin
  PROVE  /\ polls' \in [Slots -> Poll \cup {NoPoll}] /\ PollsSound' /\ OneLive'
         /\ inFlight' = TRUE
         /\ view' = [view EXCEPT !.status = "loading"]
         /\ \A s \in Slots : PollFresh(polls'[s], view, content)
<1>1. PICK s \in Slots :
        polls' = [t \in Slots |->
            IF t # s THEN Superseding(polls[t])
            ELSE [current |-> TRUE, open |-> TRUE,
                  fetch |-> [r \in Resources |->
                    [etag |-> view.etags[r], version |-> None, at |-> "sent"]]]]
  BY DEF Begin
<1>2. PICK p : p = [current |-> TRUE, open |-> TRUE,
                  fetch |-> [r \in Resources |->
                    [etag |-> view.etags[r], version |-> None, at |-> "sent"]]]
  OBVIOUS
<1>3. /\ p \in Poll /\ Live(p)
      /\ \A r \in Resources : /\ p.fetch[r].etag = view.etags[r]
                              /\ p.fetch[r].version = None /\ p.fetch[r].at = "sent"
  BY <1>2 DEF Poll, Fetch, Live, Views
<1>4. PollSound(p) /\ PollFresh(p, view, content)
  BY <1>3 DEF PollSound, PollFresh
<1>5. PICK q : q = polls'
  OBVIOUS
<1>6. q = [t \in Slots |-> IF t # s THEN Superseding(polls[t]) ELSE p]
  BY <1>1, <1>2, <1>5
<1>7. q[s] = p /\ \A t \in Slots \ {s} : q[t] = Superseding(polls[t])
  BY <1>6
<1>8. \A t \in Slots \ {s} : /\ q[t] \in Poll \cup {NoPoll} /\ PollSound(q[t]) /\ ~Live(q[t])
  <2> TAKE t \in Slots \ {s}
  <2>1. polls[t] \in Poll \cup {NoPoll} /\ PollSound(polls[t]) /\ ~Live(polls[t])
    BY DEF PollsGood, PollsSound, OneLive
  <2> QED
    BY <1>7, <2>1, SupersedingPoll DEF Live
<1>9. inFlight' = TRUE /\ view' = [view EXCEPT !.status = "loading"]
  BY DEF Begin, Status
<1>10. \A t \in Slots : q[t] \in Poll \cup {NoPoll} /\ PollSound(q[t]) /\ PollFresh(q[t], view, content)
                        /\ (Live(q[t]) <=> t = s)
  BY <1>3, <1>4, <1>7, <1>8 DEF PollFresh
<1>11. q \in [Slots -> Poll \cup {NoPoll}]
  BY <1>6, <1>10
<1> QED
  BY <1>5, <1>9, <1>10, <1>11 DEF PollsSound, OneLive

LEMMA StatusView ==
  ASSUME view \in Views, NEW status \in Statuses
  PROVE  /\ [view EXCEPT !.status = status] \in Views
         /\ [view EXCEPT !.status = status].data = view.data
         /\ [view EXCEPT !.status = status].etags = view.etags
         /\ [view EXCEPT !.status = status].status = status
BY DEF Views

LEMMA FreshKept ==
  ASSUME NEW p \in Poll \cup {NoPoll}, NEW v \in Views, NEW w, w.data = v.data, w.etags = v.etags,
         NEW c \in Int, NEW d \in Int, c <= d, PollFresh(p, v, c)
  PROVE  PollFresh(p, w, d)
<1>1. \A r \in Resources : v.data[r] \in Int
  BY PollerConstants DEF Views, Versions, None
<1> QED
  BY <1>1 DEF PollFresh

\* What a step has to show when it changes at most the status of the view.
LEMMA OnlyStatus ==
  ASSUME PollerInv, view' \in Views, view'.data = view.data, view'.etags = view.etags,
         content' \in Versions, content' >= content, expired' = expired,
         view'.status = "auth-expired" <=> expired
  PROVE  ViewSound'
<1>1. content \in Int /\ content' \in Int
  BY PollerConstants DEF PollerInv, PollerTyped, Versions
<1>2. \A r \in Resources : view.data[r] \in Int
  BY PollerConstants DEF PollerInv, PollerTyped, Views, Versions, None
<1>3. PICK v : v = view'
  OBVIOUS
<1>4. v.data = view.data /\ v.etags = view.etags
  BY <1>3
<1>5. PICK c : c = content'
  OBVIOUS
<1>6. \A r \in Resources : view.data[r] <= c
  <2>1. \A r \in Resources : view.data[r] <= content
    BY DEF PollerInv, ViewSound
  <2> QED
    BY <1>1, <1>2, <1>5, <2>1
<1>7. \A r \in Resources : v.data[r] <= c
  BY <1>4, <1>6
<1>8. /\ (\E r \in Resources : v.data[r] = None) => expired
      /\ \A r \in Resources : v.etags[r] # None => v.data[r] = v.etags[r]
      /\ expired => v.data = Wiped /\ v.etags = Wiped
  BY <1>4 DEF PollerInv, ViewSound, EtagOfShown, ExpiredShowsNothing
<1>9. Wiped' = Wiped
  BY DEF Wiped
<1> QED
  BY <1>3, <1>5, <1>7, <1>8, <1>9 DEF ViewSound, EtagOfShown, ExpiredShowsNothing

------------------------------------------------------------------------------
(* The steps of the page.                                                   *)

\* What every step below starts from.
LEMMA InvFacts ==
  ASSUME PollerInv
  PROVE  /\ PollsGood /\ view \in Views /\ content \in Versions /\ content >= content
         /\ inFlight \in BOOLEAN /\ expired \in BOOLEAN /\ running \in BOOLEAN
         /\ view.data \in [Resources -> Versions \cup {None}] /\ view.status \in Statuses
BY PollerConstants DEF PollerInv, PollerTyped, PollsGood, Views, Versions

LEMMA ContentInt == \A c \in Versions : c \in Int /\ c >= 1
BY PollerConstants DEF Versions

LEMMA SlotTyped ==
  ASSUME PollerInv
  PROVE  \A s \in Slots : polls[s] \in Poll \cup {NoPoll}
BY DEF PollerInv, PollerTyped

\* After an abort.
LEMMA QuietSlots ==
  ASSUME \A s \in Slots : ~Live(polls'[s]), inFlight' = FALSE
  PROVE  OneLive' /\ PollsFresh'
BY DEF OneLive, PollsFresh, PollFresh, Live

\* A poll has begun.
LEMMA BegunStep ==
  ASSUME PollerInv, ~inFlight, Begin, ~expired, expired' = expired,
         running' \in BOOLEAN, running', timer' \in BOOLEAN,
         visible' \in BOOLEAN, visible', online' \in BOOLEAN, online',
         session' \in BOOLEAN, content' = content
  PROVE  PollerInv'
<1>1. /\ polls' \in [Slots -> Poll \cup {NoPoll}] /\ PollsSound' /\ OneLive' /\ inFlight' = TRUE
      /\ view' = [view EXCEPT !.status = "loading"]
      /\ \A s \in Slots : PollFresh(polls'[s], view, content)
  BY InvFacts, BeginStep
<1>2. "loading" \in Statuses
  BY DEF Statuses
<1>3. view' \in Views /\ view'.data = view.data /\ view'.etags = view.etags /\ view'.status = "loading"
  BY <1>1, <1>2, StatusView, InvFacts
<1>4. ViewSound'
  BY <1>3, InvFacts, OnlyStatus
<1>5. PollsFresh'
  BY <1>1, <1>3, FreshKept, InvFacts, ContentInt DEF PollsFresh
<1>6. FlagsSound'
  BY <1>1, <1>3 DEF FlagsSound, Active, LoadingEnds
<1>7. PollerTyped'
  BY <1>1, <1>3, InvFacts DEF PollerTyped
<1> QED
  BY <1>1, <1>4, <1>5, <1>6, <1>7 DEF PollerInv

\* Everything has been aborted, and no timer is set.
LEMMA AbortedStep ==
  ASSUME PollerInv, Abort, expired' = expired, timer' = FALSE,
         view' \in Views, view'.data = view.data, view'.etags = view.etags,
         view'.status = "auth-expired" <=> expired,
         running' => view'.status # "loading",
         running' \in BOOLEAN, visible' \in BOOLEAN, online' \in BOOLEAN,
         session' \in BOOLEAN, content' = content
  PROVE  PollerInv'
<1>1. /\ polls' \in [Slots -> Poll \cup {NoPoll}] /\ PollsSound'
      /\ inFlight' = FALSE /\ \A s \in Slots : ~Live(polls'[s])
  BY InvFacts, AbortStep
<1>2. OneLive' /\ PollsFresh'
  BY <1>1, QuietSlots
<1>3. ViewSound'
  BY InvFacts, OnlyStatus
<1>4. FlagsSound'
  BY <1>1 DEF FlagsSound, LoadingEnds
<1>5. PollerTyped'
  BY <1>1, InvFacts DEF PollerTyped
<1> QED
  BY <1>1, <1>2, <1>3, <1>4, <1>5 DEF PollerInv

\* The polls are as they were; the status of the view may change.
LEMMA PollsKept ==
  ASSUME PollerInv, polls' = polls, inFlight' = inFlight, expired' = expired,
         view' \in Views, view'.data = view.data, view'.etags = view.etags,
         view'.status = "auth-expired" <=> expired,
         running' /\ view'.status = "loading" => inFlight,
         inFlight => Active', timer' => ~expired,
         running' \in BOOLEAN, timer' \in BOOLEAN, visible' \in BOOLEAN, online' \in BOOLEAN,
         session' \in BOOLEAN, content' \in Versions, content' >= content
  PROVE  PollerInv'
<1>1. ViewSound'
  BY OnlyStatus
<1>2. PollsSound' /\ OneLive'
  BY DEF PollerInv, PollsSound, OneLive
<1>3. PollsFresh'
  BY FreshKept, InvFacts, SlotTyped, ContentInt DEF PollerInv, PollsFresh
<1>4. FlagsSound'
  BY DEF PollerInv, FlagsSound, LoadingEnds
<1>5. PollerTyped'
  BY DEF PollerInv, PollerTyped
<1> QED
  BY <1>1, <1>2, <1>3, <1>4, <1>5 DEF PollerInv

LEMMA FlagFacts ==
  ASSUME PollerInv
  PROVE  /\ inFlight => Active /\ ~expired
         /\ timer => ~expired
         /\ view.status = "auth-expired" <=> expired
         /\ running /\ view.status = "loading" => inFlight
BY DEF PollerInv, FlagsSound, LoadingEnds

LEMMA StartKeeps ==
  ASSUME PollerInv, Start
  PROVE  PollerInv'
<1>1. ~inFlight /\ ~expired /\ expired' = expired /\ running' = TRUE /\ timer' = timer
      /\ visible' = visible /\ online' = online /\ session' = session /\ content' = content
  BY FlagFacts DEF Start, Active, page, world
<1>2. visible \in BOOLEAN /\ online \in BOOLEAN /\ session \in BOOLEAN /\ timer \in BOOLEAN
  BY DEF PollerInv, PollerTyped
<1>3. ASSUME NEW status \in {"offline", "paused"}, view' = Status(status),
             UNCHANGED <<polls, inFlight>>
      PROVE  PollerInv'
  <2>1. status \in Statuses /\ status # "loading" /\ status # "auth-expired"
    BY DEF Statuses
  <2>2. view' \in Views /\ view'.data = view.data /\ view'.etags = view.etags /\ view'.status = status
    BY <1>3, <2>1, StatusView, InvFacts DEF Status
  <2> QED
    BY <1>1, <1>2, <1>3, <2>1, <2>2, InvFacts, PollsKept
<1>4. CASE online /\ visible /\ Begin
  BY <1>1, <1>2, <1>4, BegunStep
<1> QED
  BY <1>3, <1>4 DEF Start

LEMMA StopKeeps ==
  ASSUME PollerInv, Stop
  PROVE  PollerInv'
<1>1. running' = FALSE /\ timer' = FALSE /\ Abort /\ expired' = expired /\ view' = view
      /\ visible' = visible /\ online' = online /\ session' = session /\ content' = content
  BY DEF Stop, page, world
<1>2. visible \in BOOLEAN /\ online \in BOOLEAN /\ session \in BOOLEAN
  BY DEF PollerInv, PollerTyped
<1> QED
  BY <1>1, <1>2, InvFacts, FlagFacts, AbortedStep

LEMMA RefreshKeeps ==
  ASSUME PollerInv, Refresh
  PROVE  PollerInv'
<1>1. Begin /\ ~inFlight /\ Active /\ expired' = expired /\ running' = running /\ timer' = timer
      /\ visible' = visible /\ online' = online /\ session' = session /\ content' = content
  BY DEF Refresh, page, world
<1>2. visible \in BOOLEAN /\ online \in BOOLEAN /\ session \in BOOLEAN /\ timer \in BOOLEAN
      /\ running \in BOOLEAN
  BY DEF PollerInv, PollerTyped
<1> QED
  BY <1>1, <1>2, BegunStep DEF Active

LEMMA TimerKeeps ==
  ASSUME PollerInv, TimerFires
  PROVE  PollerInv'
<1>1. BeginIfIdle /\ expired' = expired /\ running' = running /\ timer' = FALSE
      /\ visible' = visible /\ online' = online /\ session' = session /\ content' = content
  BY DEF TimerFires, page, world
<1>2. visible \in BOOLEAN /\ online \in BOOLEAN /\ session \in BOOLEAN /\ running \in BOOLEAN
  BY DEF PollerInv, PollerTyped
<1>3. CASE Active /\ ~inFlight
  BY <1>1, <1>2, <1>3, BegunStep DEF Active, BeginIfIdle
<1>4. CASE ~(Active /\ ~inFlight)
  <2>1. polls' = polls /\ inFlight' = inFlight /\ view' = view
    BY <1>1, <1>4 DEF BeginIfIdle
  <2>2. inFlight => Active'
    BY <1>1, FlagFacts DEF Active
  <2> QED
    BY <1>1, <1>2, <2>1, <2>2, InvFacts, FlagFacts, PollsKept
<1> QED
  BY <1>3, <1>4

\* Hiding the page or losing the network.
LEMMA LeavesKeeps ==
  ASSUME PollerInv, NEW status \in {"paused", "offline"}, Leaves(status),
         running' = running, expired' = expired, visible' \in BOOLEAN, online' \in BOOLEAN,
         session' = session, content' = content
  PROVE  PollerInv'
<1>1. session \in BOOLEAN /\ timer \in BOOLEAN
  BY DEF PollerInv, PollerTyped
<1>2. CASE Listening
  <2>1. timer' = FALSE /\ Abort /\ view' = Status(status) /\ ~expired
    BY <1>2 DEF Leaves, Listening
  <2>2. status \in Statuses /\ status # "loading" /\ status # "auth-expired"
    BY DEF Statuses
  <2>3. view' \in Views /\ view'.data = view.data /\ view'.etags = view.etags /\ view'.status = status
    BY <2>1, <2>2, StatusView, InvFacts DEF Status
  <2> QED
    BY <1>1, <2>1, <2>2, <2>3, InvFacts, AbortedStep
<1>3. CASE ~Listening
  <2>1. timer' = timer /\ polls' = polls /\ inFlight' = inFlight /\ view' = view
    BY <1>3 DEF Leaves
  <2>2. ~inFlight
    BY <1>3, FlagFacts DEF Active, Listening
  <2> QED
    BY <1>1, <2>1, <2>2, InvFacts, FlagFacts, PollsKept
<1> QED
  BY <1>2, <1>3

LEMMA HideKeeps ==
  ASSUME PollerInv, Hide
  PROVE  PollerInv'
<1>1. Leaves("paused") /\ visible' = FALSE /\ running' = running /\ expired' = expired
      /\ online' = online /\ session' = session /\ content' = content
  BY DEF Hide, world
<1>2. online' \in BOOLEAN /\ visible' \in BOOLEAN
  BY <1>1 DEF PollerInv, PollerTyped
<1> QED
  BY <1>1, <1>2, LeavesKeeps

LEMMA GoOfflineKeeps ==
  ASSUME PollerInv, GoOffline
  PROVE  PollerInv'
<1>1. Leaves("offline") /\ online' = FALSE /\ running' = running /\ expired' = expired
      /\ visible' = visible /\ session' = session /\ content' = content
  BY DEF GoOffline, world
<1>2. online' \in BOOLEAN /\ visible' \in BOOLEAN
  BY <1>1 DEF PollerInv, PollerTyped
<1> QED
  BY <1>1, <1>2, LeavesKeeps

LEMMA ShowKeeps ==
  ASSUME PollerInv, Show
  PROVE  PollerInv'
<1>1. /\ visible' = TRUE /\ running' = running /\ expired' = expired /\ inFlight' = inFlight
      /\ polls' = polls /\ view' = view /\ online' = online /\ session' = session
      /\ content' = content
  BY DEF Show, world
<1>2. session \in BOOLEAN /\ online \in BOOLEAN /\ running \in BOOLEAN /\ timer \in BOOLEAN
      /\ inFlight \in BOOLEAN
  BY DEF PollerInv, PollerTyped
<1>3. timer' \in BOOLEAN /\ (timer' => ~expired)
  BY <1>2, FlagFacts DEF Show, Listening
<1>4. inFlight => Active'
  BY <1>1, FlagFacts DEF Active
<1> QED
  BY <1>1, <1>2, <1>3, <1>4, InvFacts, FlagFacts, PollsKept

LEMMA GoOnlineKeeps ==
  ASSUME PollerInv, GoOnline
  PROVE  PollerInv'
<1>1. /\ online' = TRUE /\ running' = running /\ expired' = expired
      /\ visible' = visible /\ session' = session /\ content' = content
  BY DEF GoOnline, world
<1>2. session \in BOOLEAN /\ visible \in BOOLEAN /\ running \in BOOLEAN /\ timer \in BOOLEAN
  BY DEF PollerInv, PollerTyped
<1>3. CASE Listening /\ visible /\ ~inFlight
  <2>1. timer' = FALSE /\ Begin
    BY <1>3 DEF GoOnline
  <2>2. running /\ ~expired
    BY <1>3 DEF Listening
  <2>3. running' /\ running' \in BOOLEAN /\ visible' /\ visible' \in BOOLEAN
        /\ online' /\ online' \in BOOLEAN /\ timer' \in BOOLEAN /\ session' \in BOOLEAN
    BY <1>1, <1>2, <1>3, <2>1, <2>2
  <2> QED
    BY <1>1, <1>3, <2>1, <2>2, <2>3, BegunStep
<1>4. CASE ~(Listening /\ visible /\ ~inFlight)
  <2>1. polls' = polls /\ inFlight' = inFlight /\ view' = view /\ timer' = (timer /\ ~Listening)
    BY <1>4 DEF GoOnline
  <2>2. inFlight => Active'
    BY <1>1, FlagFacts DEF Active
  <2> QED
    BY <1>1, <1>2, <2>1, <2>2, InvFacts, FlagFacts, PollsKept
<1> QED
  BY <1>3, <1>4

LEMMA ServerKeeps ==
  ASSUME PollerInv, Changes \/ SessionEnds
  PROVE  PollerInv'
<1>1. running' = running /\ expired' = expired /\ inFlight' = inFlight /\ timer' = timer
      /\ polls' = polls /\ view' = view /\ visible' = visible /\ online' = online
  BY DEF Changes, SessionEnds, poller, page
<1>2. content' \in Versions /\ content' >= content /\ session' \in BOOLEAN
  <2>1. content \in Versions /\ session \in BOOLEAN
    BY DEF PollerInv, PollerTyped
  <2>2. CASE Changes
    <3>1. content < MaxVersion /\ content' = content + 1 /\ session' = session
      BY <2>2 DEF Changes
    <3>2. MaxVersion \in Int /\ content \in Int /\ content >= 1
      BY <2>1, PollerConstants DEF Versions
    <3>3. content' \in Versions /\ content' >= content
      BY <3>1, <3>2 DEF Versions
    <3> QED
      BY <2>1, <3>1, <3>3
  <2>3. CASE SessionEnds
    <3>1. content' = content /\ session' = FALSE
      BY <2>3 DEF SessionEnds
    <3>2. content' >= content
      BY <2>1, <3>1, ContentInt
    <3> QED
      BY <2>1, <3>1, <3>2
  <2> QED
    BY <2>2, <2>3
<1>3. visible \in BOOLEAN /\ online \in BOOLEAN /\ running \in BOOLEAN /\ timer \in BOOLEAN
  BY DEF PollerInv, PollerTyped
<1>4. inFlight => Active'
  BY <1>1, FlagFacts DEF Active
<1> QED
  BY <1>1, <1>2, <1>3, <1>4, InvFacts, FlagFacts, PollsKept

------------------------------------------------------------------------------
(* The steps of one fetch.                                                  *)

LEMMA OneSet ==
  ASSUME PollerInv, NEW s \in Slots, NEW q \in Poll \cup {NoPoll},
         polls' = [polls EXCEPT ![s] = q], PollSound(q), PollFresh(q, view, content),
         Live(q) <=> Live(polls[s]), UNCHANGED <<poller, view, page, world>>
  PROVE  PollerInv'
<1>1. running' = running /\ expired' = expired /\ inFlight' = inFlight /\ timer' = timer
      /\ view' = view /\ visible' = visible /\ online' = online /\ content' = content
      /\ session' = session
  BY DEF poller, page, world
<1>2. PICK p : p = polls'
  OBVIOUS
<1>3. p \in [Slots -> Poll \cup {NoPoll}] /\ p[s] = q /\ \A t \in Slots \ {s} : p[t] = polls[t]
  BY <1>2 DEF PollerInv, PollerTyped
<1>4. \A t \in Slots : PollSound(p[t]) /\ PollFresh(p[t], view, content) /\ (Live(p[t]) <=> Live(polls[t]))
  BY <1>3 DEF PollerInv, PollsSound, PollsFresh
<1>5. OneLive'
  BY <1>1, <1>2, <1>4 DEF PollerInv, OneLive
<1>6. PollsSound' /\ PollsFresh'
  BY <1>1, <1>2, <1>4 DEF PollsSound, PollsFresh
<1>7. FlagsSound' /\ ViewSound'
  BY <1>1 DEF PollerInv, FlagsSound, ViewSound, Active, LoadingEnds, EtagOfShown,
              ExpiredShowsNothing, Wiped
<1>8. PollerTyped'
  BY <1>1, <1>2, <1>3 DEF PollerInv, PollerTyped
<1> QED
  BY <1>5, <1>6, <1>7, <1>8 DEF PollerInv

\* One fetch of a poll comes further.
LEMMA FetchSet ==
  ASSUME NEW p \in Poll, p # NoPoll, PollSound(p), PollFresh(p, view, content),
         NEW r \in Resources, NEW f \in Fetch,
         f.at # "sent", f.at \in {"200", "304", "401", "body", "done"} => f.version # None,
         \/ f.at = "failed"
         \/ /\ p.fetch[r].at # "failed" /\ f.etag = p.fetch[r].etag
            /\ f.version = p.fetch[r].version \/ (f.version # None => f.version \in view.data[r]..content)
  PROVE  /\ [p EXCEPT !.fetch[r] = f] \in Poll
         /\ PollSound([p EXCEPT !.fetch[r] = f]) /\ PollFresh([p EXCEPT !.fetch[r] = f], view, content)
         /\ Live([p EXCEPT !.fetch[r] = f]) <=> Live(p)
         /\ [p EXCEPT !.fetch[r] = f].current = p.current
<1>1. PICK q : q = [p EXCEPT !.fetch[r] = f]
  OBVIOUS
<1>2. /\ q \in Poll /\ q.current = p.current /\ q.open = p.open
      /\ q.fetch[r] = f /\ \A t \in Resources \ {r} : q.fetch[t] = p.fetch[t]
  BY <1>1 DEF Poll
<1>3. PollSound(q)
  BY <1>2 DEF PollSound, Live
<1>4. PollFresh(q, view, content)
  BY <1>2 DEF PollFresh, Live
<1> QED
  BY <1>1, <1>2, <1>3, <1>4 DEF Live

LEMMA TidyPoll ==
  ASSUME NEW p \in Poll, PollSound(p), PollFresh(p, view, content)
  PROVE  /\ Tidy(p) \in Poll \cup {NoPoll} /\ PollSound(Tidy(p)) /\ PollFresh(Tidy(p), view, content)
         /\ Live(Tidy(p)) <=> Live(p)
<1>1. PollSound(NoPoll) /\ ~Live(NoPoll) /\ PollFresh(NoPoll, view, content)
  BY NoPollFacts DEF PollSound, Live, PollFresh
<1>2. CASE Tidy(p) = p
  BY <1>2
<1>3. CASE Tidy(p) # p
  <2>1. Tidy(p) = NoPoll /\ ~p.open
    BY <1>3, TidyEither DEF Tidy
  <2> QED
    BY <1>1, <2>1 DEF Live
<1> QED
  BY <1>2, <1>3

LEMMA SlotFacts ==
  ASSUME PollerInv, NEW s \in Slots
  PROVE  /\ polls[s] \in Poll \cup {NoPoll} /\ PollSound(polls[s]) /\ PollFresh(polls[s], view, content)
         /\ Live(polls[s]) => inFlight
         /\ polls[s] # NoPoll => /\ polls[s] \in Poll
                                 /\ \A r \in Resources : polls[s].fetch[r] \in Fetch
BY DEF PollerInv, PollerTyped, PollsSound, PollsFresh, OneLive, Poll

LEMMA AnswersKeeps ==
  ASSUME PollerInv, NEW s \in Slots, NEW r \in Resources, Answers(s, r)
  PROVE  PollerInv'
<1>1. polls[s].current /\ polls[s].fetch[r].at = "sent" /\ UNCHANGED <<poller, view, page, world>>
  BY DEF Answers
<1>2. PICK at \in {"200", "304", "401"} :
        polls' = [polls EXCEPT ![s].fetch[r].at = at, ![s].fetch[r].version = content]
  BY DEF Answers
<1>3. polls[s] # NoPoll /\ polls[s] \in Poll
  BY <1>1, NoPollFacts, SlotFacts
<1>4. PICK p : p = polls[s]
  OBVIOUS
<1>5. PICK f : f = [p.fetch[r] EXCEPT !.at = at, !.version = content]
  OBVIOUS
<1>6. p.fetch[r] \in Fetch
  BY <1>3, <1>4, SlotFacts
<1>7. content \in Versions /\ content # None /\ content \in view.data[r]..content
  BY PollerConstants DEF PollerInv, PollerTyped, Views, Versions, None, ViewSound
<1>8. f \in Fetch /\ f.at = at /\ f.version = content /\ f.etag = p.fetch[r].etag
  BY <1>5, <1>6, <1>7 DEF Fetch
<1>9. PICK q : q = [p EXCEPT !.fetch[r] = f]
  OBVIOUS
<1>10. polls' = [polls EXCEPT ![s] = q]
  <2>1. p \in Poll /\ p.fetch \in [Resources -> Fetch]
    BY <1>3, <1>4 DEF Poll
  <2>2. polls \in [Slots -> Poll \cup {NoPoll}]
    BY DEF PollerInv, PollerTyped
  <2> QED
    BY <1>2, <1>4, <1>5, <1>9, <2>1, <2>2
<1>11. q \in Poll /\ PollSound(q) /\ PollFresh(q, view, content) /\ (Live(q) <=> Live(p))
  BY <1>1, <1>3, <1>4, <1>7, <1>8, <1>9, SlotFacts, FetchSet
<1> QED
  BY <1>1, <1>4, <1>10, <1>11, OneSet

\* A fetch ends, or its response has been looked at.
LEMMA SettlesKeeps ==
  ASSUME PollerInv, NEW s \in Slots, NEW r \in Resources, NEW at \in {"body", "done", "failed"},
         polls[s] # NoPoll, Settles(s, r, at), UNCHANGED <<page, world>>,
         at # "failed" => polls[s].fetch[r].at \in {"200", "304", "body"}
  PROVE  PollerInv'
<1>1. polls[s] \in Poll /\ polls[s].fetch[r] \in Fetch
  BY SlotFacts
<1>2. PICK p : p = polls[s]
  OBVIOUS
<1>3. PICK f : f = IF at = "failed" THEN Failed ELSE [p.fetch[r] EXCEPT !.at = at]
  OBVIOUS
<1>4. /\ f \in Fetch /\ f.at = at
      /\ at # "failed" => f.version = p.fetch[r].version /\ f.etag = p.fetch[r].etag
                          /\ f.version # None /\ p.fetch[r].at # "failed"
  <2>1. at # "failed" => p.fetch[r].version # None
    BY <1>2, SlotFacts DEF PollSound
  <2> QED
    BY <1>1, <1>2, <1>3, <2>1, FailedFetch DEF Fetch
<1>5. PICK q : q = [p EXCEPT !.fetch[r] = f]
  OBVIOUS
<1>6. q = [polls[s] EXCEPT !.fetch[r] = IF at = "failed" THEN Failed ELSE [@ EXCEPT !.at = at]]
  BY <1>1, <1>2, <1>3, <1>5 DEF Poll
<1>7. q \in Poll /\ PollSound(q) /\ PollFresh(q, view, content) /\ (Live(q) <=> Live(p))
  BY <1>1, <1>2, <1>4, <1>5, SlotFacts, FetchSet
<1>8. polls' = [polls EXCEPT ![s] = Tidy(q)] /\ UNCHANGED <<poller, view, page, world>>
  BY <1>6 DEF Settles, At
<1>9. Tidy(q) \in Poll \cup {NoPoll} /\ PollSound(Tidy(q)) /\ PollFresh(Tidy(q), view, content)
      /\ (Live(Tidy(q)) <=> Live(q))
  BY <1>7, TidyPoll
<1>10. PICK t : t = Tidy(q)
  OBVIOUS
<1> QED
  BY <1>2, <1>7, <1>8, <1>9, <1>10, OneSet

\* The session has ended: everything is forgotten.
LEMMA ExpireKeeps ==
  ASSUME PollerInv, NEW s \in Slots, NEW r \in Resources, polls[s] # NoPoll,
         ExpireAuthentication(s, r), UNCHANGED <<page, world>>
  PROVE  PollerInv'
<1>1. /\ expired' = TRUE /\ timer' = FALSE /\ inFlight' = FALSE /\ running' = running
      /\ view' = [data |-> Wiped, etags |-> Wiped, status |-> "auth-expired"]
      /\ visible' = visible /\ online' = online /\ content' = content /\ session' = session
  BY DEF ExpireAuthentication, page, world
<1>2. PICK a : a = At(s, r, "failed")
  OBVIOUS
<1>3. a \in Poll \cup {NoPoll} /\ PollSound(a)
  <2>1. polls[s] \in Poll /\ PollSound(polls[s]) /\ PollFresh(polls[s], view, content)
    BY SlotFacts
  <2>2. PICK q : q = [polls[s] EXCEPT !.fetch[r] = Failed]
    OBVIOUS
  <2>3. q \in Poll /\ PollSound(q) /\ PollFresh(q, view, content)
    BY <2>1, <2>2, FailedFetch, FetchSet
  <2>4. a = Tidy(q)
    BY <1>2, <2>2 DEF At
  <2> QED
    BY <2>3, <2>4, TidyPoll
<1>4. PICK q : q = [t \in Slots |-> IF t = s THEN Superseding(Aborted(a))
                                  ELSE Superseding(Aborted(polls[t]))]
  OBVIOUS
<1>5. polls' = q
  BY <1>2, <1>4 DEF ExpireAuthentication
<1>6. \A t \in Slots : q[t] \in Poll \cup {NoPoll} /\ ~q[t].current /\ PollSound(q[t])
  <2> TAKE t \in Slots
  <2>1. CASE t = s
    BY <1>3, <1>4, <2>1, AbortedPoll
  <2>2. CASE t # s
    <3>1. polls[t] \in Poll \cup {NoPoll} /\ PollSound(polls[t])
      BY SlotFacts
    <3> QED
      BY <1>4, <2>2, <3>1, AbortedPoll
  <2> QED
    BY <2>1, <2>2
<1>7. PollsSound' /\ OneLive' /\ PollsFresh'
  BY <1>1, <1>5, <1>6 DEF PollsSound, OneLive, PollsFresh, PollFresh, Live
<1>8. Wiped \in [Resources -> Versions \cup {None}] /\ \A x \in Resources : Wiped[x] = None
  BY DEF Wiped
<1>9. view' \in Views
  BY <1>1, <1>8 DEF Views, Statuses
<1>10. PollerTyped'
  BY <1>1, <1>4, <1>5, <1>6, <1>9 DEF PollerInv, PollerTyped
<1>11. FlagsSound'
  BY <1>1 DEF FlagsSound, LoadingEnds
<1>12. ViewSound'
  <2>1. content \in Int /\ content >= 0
    BY PollerConstants DEF PollerInv, PollerTyped, Versions
  <2>2. PICK w : w = Wiped
    OBVIOUS
  <2>3. Wiped' = w /\ view'.data = w /\ view'.etags = w /\ \A x \in Resources : w[x] = 0
    BY <1>1, <1>8, <2>2 DEF Wiped, None
  <2> QED
    BY <1>1, <2>1, <2>3 DEF ViewSound, EtagOfShown, ExpiredShowsNothing, None
<1> QED
  BY <1>7, <1>10, <1>11, <1>12 DEF PollerInv

LEMMA LooksKeeps ==
  ASSUME PollerInv, NEW s \in Slots, NEW r \in Resources, Looks(s, r)
  PROVE  PollerInv'
<1>1. polls[s] # NoPoll /\ UNCHANGED <<page, world>>
  BY DEF Looks
<1>2. \/ Settles(s, r, "failed") \/ ExpireAuthentication(s, r)
      \/ \E at \in {"body", "done"} :
           Settles(s, r, at) /\ polls[s].fetch[r].at \in {"200", "304"}
  BY DEF Looks
<1>3. CASE Settles(s, r, "failed")
  BY <1>1, <1>3, SettlesKeeps
<1>4. CASE ExpireAuthentication(s, r)
  BY <1>1, <1>4, ExpireKeeps
<1>5. CASE \E at \in {"body", "done"} :
             Settles(s, r, at) /\ polls[s].fetch[r].at \in {"200", "304"}
  BY <1>1, <1>5, SettlesKeeps
<1> QED
  BY <1>2, <1>3, <1>4, <1>5

LEMMA ReadsKeeps ==
  ASSUME PollerInv, NEW s \in Slots, NEW r \in Resources, Reads(s, r)
  PROVE  PollerInv'
<1>1. polls[s] # NoPoll /\ polls[s].fetch[r].at = "body" /\ UNCHANGED <<page, world>>
      /\ \E at \in {"done", "failed"} : Settles(s, r, at)
  BY DEF Reads
<1> QED
  BY <1>1, SettlesKeeps

LEMMA FailsKeeps ==
  ASSUME PollerInv, NEW s \in Slots, NEW r \in Resources, Fails(s, r)
  PROVE  PollerInv'
<1>1. polls[s] # NoPoll /\ Settles(s, r, "failed") /\ UNCHANGED <<page, world>>
  BY NoPollFacts DEF Fails
<1> QED
  BY <1>1, SettlesKeeps

------------------------------------------------------------------------------
(* A poll ends.                                                             *)

\* The slot of a poll that has ended, and the flags.
LEMMA EndsStep ==
  ASSUME PollerInv, NEW s \in Slots, NEW p \in Poll \cup {NoPoll}, Open(s),
         PollSound(p), p = NoPoll \/ p.current = polls[s].current,
         ~Live(polls[s]) \/ (p # NoPoll => \A r \in Resources : p.fetch[r].at # "sent"),
         Finally(s, p)
  PROVE  /\ polls' \in [Slots -> Poll \cup {NoPoll}] /\ PollsSound'
         /\ \A t \in Slots : Live(polls'[t]) <=> t # s /\ Live(polls[t])
         /\ \A t \in Slots \ {s} : polls'[t] = polls[t]
         /\ OneLive'
         /\ inFlight' = (inFlight /\ ~polls[s].current)
         /\ timer' \in BOOLEAN /\ (timer' => timer \/ Active)
<1>1. polls[s] # NoPoll /\ polls[s] \in Poll /\ polls[s].open
  BY NoPollFacts, SlotFacts DEF Open
<1>2. PICK q : q = Tidy([p EXCEPT !.open = FALSE])
  OBVIOUS
<1>3. q \in Poll \cup {NoPoll} /\ PollSound(q) /\ ~Live(q)
  <2>1. PICK u : u = [p EXCEPT !.open = FALSE]
    OBVIOUS
  <2>2. CASE p = NoPoll
    <3>1. u = NoPoll
      BY <2>1, <2>2 DEF NoPoll
    <3>2. Tidy(NoPoll) = NoPoll
      BY DEF Tidy
    <3> QED
      BY <1>2, <2>1, <3>1, <3>2, NoPollFacts DEF PollSound, Live
  <2>3. CASE p # NoPoll
    <3>1. u \in Poll /\ u.open = FALSE /\ u.current = p.current /\ u.fetch = p.fetch
      BY <2>1, <2>3 DEF Poll
    <3>2. \A r \in Resources : p.fetch[r].at # "sent"
      <4>1. CASE p # NoPoll /\ ~Live(polls[s])
        <5>1. ~polls[s].current
          BY <1>1, <4>1 DEF Live
        <5>2. ~Live(p)
          BY <5>1, <2>3 DEF Live
        <5> QED
          BY <5>2, <2>3 DEF PollSound
      <4> QED
        BY <4>1, <2>3
    <3>3. PollSound(u)
      BY <3>1, <3>2, <2>3 DEF PollSound
    <3>4. q = u \/ q = NoPoll
      BY <1>2, <2>1, TidyEither
    <3> QED
      BY <3>1, <3>3, <3>4, NoPollFacts DEF PollSound, Live
  <2> QED
    BY <2>2, <2>3
<1>4. PICK t1 : t1 = polls'
  OBVIOUS
<1>5. t1 = [polls EXCEPT ![s] = q]
  BY <1>2, <1>4 DEF Finally
<1>6. t1 \in [Slots -> Poll \cup {NoPoll}] /\ t1[s] = q /\ \A t \in Slots \ {s} : t1[t] = polls[t]
  BY <1>3, <1>5 DEF PollerInv, PollerTyped
<1>7. \A t \in Slots : PollSound(t1[t]) /\ (Live(t1[t]) <=> t # s /\ Live(polls[t]))
  BY <1>3, <1>6 DEF PollerInv, PollsSound
<1>8. inFlight \in BOOLEAN /\ polls[s].current \in BOOLEAN
  BY <1>1 DEF PollerInv, PollerTyped, Poll
<1>9. /\ inFlight' = (inFlight /\ ~polls[s].current)
      /\ polls[s].current => timer' = Active
      /\ ~polls[s].current => timer' = timer
  BY <1>8 DEF Finally
<1>10. Active \in BOOLEAN /\ timer \in BOOLEAN
  BY DEF Active, PollerInv, PollerTyped
<1>11. OneLive'
  <2>1. \A t, w \in Slots : Live(t1[t]) /\ Live(t1[w]) => t = w
    BY <1>7 DEF PollerInv, OneLive
  <2>2. CASE polls[s].current
    <3>1. Live(polls[s])
      BY <2>2, <1>1 DEF Live
    <3>2. \A t \in Slots : ~Live(t1[t])
      BY <1>7, <3>1 DEF PollerInv, OneLive
    <3>3. inFlight' = FALSE
      BY <1>9, <2>2
    <3> QED
      BY <1>4, <2>1, <3>2, <3>3 DEF OneLive
  <2>3. CASE ~polls[s].current
    <3>1. ~Live(polls[s]) /\ inFlight' = inFlight
      BY <2>3, <1>8, <1>9 DEF Live
    <3>2. \A t \in Slots : Live(t1[t]) <=> Live(polls[t])
      BY <1>7, <3>1
    <3>3. inFlight <=> \E t \in Slots : Live(t1[t])
      BY <3>2 DEF PollerInv, OneLive
    <3> QED
      BY <1>4, <2>1, <3>1, <3>3 DEF OneLive
  <2> QED
    BY <2>2, <2>3
<1> QED
  BY <1>4, <1>6, <1>7, <1>9, <1>10, <1>11 DEF PollsSound

LEMMA FinallyFlags ==
  ASSUME NEW s, NEW p, Finally(s, p)
  PROVE  /\ running' = running /\ expired' = expired /\ visible' = visible /\ online' = online
         /\ content' = content /\ session' = session
BY DEF Finally, page, world

\* A poll that no longer counts, and one whose failure is shown.
LEMMA EndsUnseen ==
  ASSUME PollerInv, NEW s \in Slots, NEW p \in Poll \cup {NoPoll}, Open(s),
         PollSound(p), p = NoPoll \/ p.current = polls[s].current,
         ~Live(polls[s]) \/ (p # NoPoll => \A r \in Resources : p.fetch[r].at # "sent"),
         Finally(s, p),
         \/ Ignored(s) /\ view' = view
         \/ \E status \in {"error", "offline"} : ~Ignored(s) /\ view' = Status(status)
  PROVE  PollerInv'
<1>1. /\ polls' \in [Slots -> Poll \cup {NoPoll}] /\ PollsSound' /\ OneLive'
      /\ \A t \in Slots : Live(polls'[t]) <=> t # s /\ Live(polls[t])
      /\ \A t \in Slots \ {s} : polls'[t] = polls[t]
      /\ inFlight' = (inFlight /\ ~polls[s].current)
      /\ timer' \in BOOLEAN /\ (timer' => timer \/ Active)
  BY EndsStep
<1>2. /\ running' = running /\ expired' = expired /\ visible' = visible /\ online' = online
      /\ content' = content /\ session' = session
  BY FinallyFlags
<1>3. /\ view' \in Views /\ view'.data = view.data /\ view'.etags = view.etags
      /\ view'.status = "auth-expired" <=> expired
      /\ view'.status = "loading" => Ignored(s) /\ view.status = "loading"
  <2>1. CASE Ignored(s) /\ view' = view
    BY <2>1, InvFacts, FlagFacts
  <2>2. ASSUME NEW status \in {"error", "offline"}, ~Ignored(s), view' = Status(status)
        PROVE  /\ view' \in Views /\ view'.data = view.data /\ view'.etags = view.etags
               /\ view'.status = "auth-expired" <=> expired
               /\ view'.status = "loading" => Ignored(s) /\ view.status = "loading"
    <3>1. status \in Statuses /\ ~expired /\ status # "auth-expired" /\ status # "loading"
      BY <2>2 DEF Statuses, Ignored
    <3> QED
      BY <2>2, <3>1, StatusView, InvFacts DEF Status
  <2> QED
    BY <2>1, <2>2
<1>4. PollsFresh'
  <2>1. \A t \in Slots \ {s} : PollFresh(polls'[t], view', content')
    BY <1>1, <1>2, <1>3, FreshKept, InvFacts, SlotTyped, ContentInt DEF PollerInv, PollsFresh
  <2>2. PollFresh(polls'[s], view', content')
    BY <1>1 DEF PollFresh
  <2> QED
    BY <2>1, <2>2 DEF PollsFresh
<1>5. ViewSound'
  BY <1>2, <1>3, InvFacts, OnlyStatus
<1>6. FlagsSound'
  <2>1. inFlight' => inFlight /\ Active' /\ ~expired'
    BY <1>1, <1>2, FlagFacts DEF Active
  <2>2. timer' => ~expired'
    BY <1>1, <1>2, FlagFacts DEF Active
  <2>3. view'.status = "auth-expired" <=> expired'
    BY <1>2, <1>3
  <2>4. running' /\ view'.status = "loading" => inFlight'
    <3> SUFFICES ASSUME running', view'.status = "loading" PROVE inFlight'
      OBVIOUS
    <3>1. Ignored(s) /\ view.status = "loading" /\ running
      BY <1>2, <1>3
    <3>2. inFlight /\ ~expired
      BY <3>1, FlagFacts
    <3>3. ~polls[s].current
      BY <3>1, <3>2 DEF Ignored, Superseded
    <3> QED
      BY <1>1, <3>2, <3>3
  <2> QED
    BY <2>1, <2>2, <2>3, <2>4 DEF FlagsSound, LoadingEnds
<1>7. PollerTyped'
  BY <1>1, <1>2, <1>3 DEF PollerInv, PollerTyped
<1> QED
  BY <1>1, <1>4, <1>5, <1>6, <1>7 DEF PollerInv

LEMMA GivesKeeps ==
  ASSUME PollerInv, NEW s \in Slots, Gives(s)
  PROVE  PollerInv'
<1>1. Open(s) /\ Finally(s, IF Ignored(s) THEN polls[s] ELSE Aborted(polls[s]))
  BY DEF Gives
<1>2. polls[s] \in Poll \cup {NoPoll} /\ PollSound(polls[s])
  BY SlotFacts
<1>3. CASE Ignored(s)
  <2>1. Finally(s, polls[s]) /\ view' = view
    BY <1>1, <1>3 DEF Gives
  <2>2. ~Live(polls[s])
    BY <1>3, SlotFacts, FlagFacts DEF Ignored, Superseded, Live, Active
  <2> QED
    BY <1>1, <1>2, <1>3, <2>1, <2>2, EndsUnseen
<1>4. CASE ~Ignored(s)
  <2>1. PICK a : a = Aborted(polls[s])
    OBVIOUS
  <2>2. /\ a \in Poll \cup {NoPoll} /\ PollSound(a)
        /\ a # NoPoll => \A r \in Resources : a.fetch[r].at # "sent"
    BY <1>2, <2>1, AbortedPoll
  <2>3. a = NoPoll \/ a.current = polls[s].current
    <3>1. polls[s] # NoPoll /\ polls[s] \in Poll
      BY <1>1, <1>2, NoPollFacts DEF Open
    <3>2. PICK q : q = [polls[s] EXCEPT !.fetch = [r \in Resources |->
                        IF @[r].at \in {"sent", "body"} THEN Failed ELSE @[r]]]
      OBVIOUS
    <3>3. q.current = polls[s].current
      BY <3>1, <3>2 DEF Poll
    <3>4. a = Tidy(q)
      BY <2>1, <3>1, <3>2 DEF Aborted
    <3> QED
      BY <3>3, <3>4, TidyEither
  <2>4. Finally(s, a)
    BY <1>1, <1>4, <2>1
  <2>5. \E status \in {"error", "offline"} : view' = Status(status)
    BY <1>4 DEF Gives, AfterFailure
  <2> QED
    BY <1>1, <1>4, <2>2, <2>3, <2>4, <2>5, EndsUnseen
<1> QED
  BY <1>3, <1>4

\* What a poll that succeeds shows is its server's answer, and no older.
LEMMA SucceedsShows ==
  ASSUME PollerInv, NEW s \in Slots, Succeeds(s), ~Ignored(s)
  PROVE  /\ Live(polls[s]) /\ view' \in Views /\ view'.status \in {"offline", "paused", "ready"}
         /\ \A r \in Resources :
              /\ view'.data[r] # None /\ view'.etags[r] = view'.data[r]
              /\ view'.data[r] \in view.data[r]..content
<1>1. Open(s) /\ polls[s].current /\ ~expired
  BY DEF Succeeds, Ignored, Superseded
<1>2. Live(polls[s]) /\ polls[s] # NoPoll /\ polls[s] \in Poll /\ PollSound(polls[s])
      /\ PollFresh(polls[s], view, content)
  BY <1>1, NoPollFacts, SlotFacts DEF Live, Open
<1>3. \A r \in Resources :
        LET f == polls[s].fetch[r] IN
        /\ f \in Fetch /\ f.version # None /\ f.etag = view.etags[r]
        /\ f.version \in view.data[r]..content
  <2> TAKE r \in Resources
  <2>1. polls[s].fetch[r].at = "done" /\ polls[s].fetch[r] \in Fetch
    BY <1>2, SlotFacts DEF Succeeds
  <2> QED
    BY <1>2, <2>1 DEF PollSound, PollFresh
<1>4. \A r \in Resources : view.etags[r] # None => view.data[r] = view.etags[r]
  BY DEF PollerInv, ViewSound, EtagOfShown
<1>5. PICK status \in {"offline", "paused", "ready"} :
        view' = [data |-> [r \in Resources |-> Shown(r, polls[s].fetch[r])],
                 etags |-> [r \in Resources |-> polls[s].fetch[r].version],
                 status |-> status]
  BY DEF Succeeds
<1>6. \A r \in Resources : Shown(r, polls[s].fetch[r]) = polls[s].fetch[r].version
  BY <1>3, <1>4 DEF Shown
<1>7. PICK d : d = [r \in Resources |-> Shown(r, polls[s].fetch[r])]
  OBVIOUS
<1>8. PICK e : e = [r \in Resources |-> polls[s].fetch[r].version]
  OBVIOUS
<1>9. d = e /\ \A r \in Resources : e[r] = polls[s].fetch[r].version
  BY <1>6, <1>7, <1>8
<1>10. e \in [Resources -> Versions \cup {None}]
  BY <1>3, <1>8 DEF Fetch
<1>11. view' = [data |-> d, etags |-> e, status |-> status]
  BY <1>5, <1>7, <1>8
<1>12. status \in Statuses
  BY DEF Statuses
<1> QED
  BY <1>2, <1>3, <1>9, <1>10, <1>11, <1>12 DEF Views

LEMMA SucceedsKeeps ==
  ASSUME PollerInv, NEW s \in Slots, Succeeds(s)
  PROVE  PollerInv'
<1>1. Open(s) /\ Finally(s, polls[s])
  BY DEF Succeeds
<1>2. polls[s] \in Poll \cup {NoPoll} /\ PollSound(polls[s])
      /\ \A r \in Resources : polls[s].fetch[r].at # "sent"
  BY SlotFacts DEF Succeeds
<1>3. CASE Ignored(s)
  <2>1. view' = view
    BY <1>3 DEF Succeeds
  <2> QED
    BY <1>1, <1>2, <1>3, <2>1, EndsUnseen
<1>4. CASE ~Ignored(s)
  <2>1. /\ Live(polls[s]) /\ view' \in Views /\ view'.status \in {"offline", "paused", "ready"}
        /\ \A r \in Resources :
              /\ view'.data[r] # None /\ view'.etags[r] = view'.data[r]
    BY <1>4, SucceedsShows
  <2>2. /\ polls' \in [Slots -> Poll \cup {NoPoll}] /\ PollsSound' /\ OneLive'
        /\ \A t \in Slots : Live(polls'[t]) <=> t # s /\ Live(polls[t])
        /\ inFlight' = (inFlight /\ ~polls[s].current)
        /\ timer' \in BOOLEAN /\ (timer' => timer \/ Active)
    BY <1>1, <1>2, EndsStep
  <2>3. /\ running' = running /\ expired' = expired /\ visible' = visible /\ online' = online
        /\ content' = content /\ session' = session
    BY <1>1, FinallyFlags
  <2>4. ~expired /\ polls[s].current
    BY <1>4 DEF Ignored, Superseded
  <2>5. \A t \in Slots : ~Live(polls'[t])
    BY <2>1, <2>2 DEF PollerInv, OneLive
  <2>6. PollsFresh'
    BY <2>5 DEF PollsFresh, PollFresh
  <2>7. FlagsSound'
    <3>1. inFlight' = FALSE
      BY <2>2, <2>4
    <3> QED
      BY <2>1, <2>3, <2>4, <3>1 DEF FlagsSound, LoadingEnds
  <2>8. ViewSound'
    <3>0. \A r \in Resources : view'.data[r] \in view.data[r]..content
      BY <1>4, SucceedsShows
    <3>1. \A r \in Resources : view'.data[r] <= content
      BY <3>0
    <3> QED
      BY <2>1, <2>3, <2>4, <3>1 DEF ViewSound, EtagOfShown, ExpiredShowsNothing
  <2>9. PollerTyped'
    BY <2>1, <2>2, <2>3 DEF PollerInv, PollerTyped
  <2> QED
    BY <2>2, <2>6, <2>7, <2>8, <2>9 DEF PollerInv
<1> QED
  BY <1>3, <1>4

------------------------------------------------------------------------------
LEMMA PollerStarts == Init => PollerInv
<1> SUFFICES ASSUME Init PROVE PollerInv
  OBVIOUS
<1>1. PollerTyped
  <2>1. 1 \in Versions
    BY PollerConstants DEF Versions
  <2>2. view \in Views
    BY <2>1 DEF Init, Views, None, Statuses, Wiped
  <2> QED
    BY <2>1, <2>2 DEF Init, PollerTyped
<1>2. \A s \in Slots : polls[s] = NoPoll
  BY DEF Init
<1>3. PollsSound /\ PollsFresh /\ OneLive
  BY <1>2, NoPollFacts DEF Init, PollsSound, PollsFresh, OneLive, PollSound, PollFresh, Live
<1>4. FlagsSound
  BY DEF Init, FlagsSound, LoadingEnds
<1>5. ViewSound
  BY DEF Init, ViewSound, EtagOfShown, ExpiredShowsNothing, Wiped, None
<1> QED
  BY <1>1, <1>3, <1>4, <1>5 DEF PollerInv

LEMMA PollerKeeps == PollerInv /\ [Next]_vars => PollerInv'
<1> SUFFICES ASSUME PollerInv, [Next]_vars PROVE PollerInv'
  OBVIOUS
<1>1. CASE UNCHANGED vars
  <2>1. /\ running' = running /\ expired' = expired /\ inFlight' = inFlight /\ timer' = timer
        /\ polls' = polls /\ view' = view /\ visible' = visible /\ online' = online
        /\ content' = content /\ session' = session
    BY <1>1 DEF vars, poller, page, world
  <2>2. running \in BOOLEAN /\ timer \in BOOLEAN /\ visible \in BOOLEAN /\ online \in BOOLEAN
        /\ session \in BOOLEAN
    BY DEF PollerInv, PollerTyped
  <2>3. inFlight => Active'
    BY <2>1, FlagFacts DEF Active
  <2> QED
    BY <2>1, <2>2, <2>3, InvFacts, ContentInt, FlagFacts, PollsKept
<1>2. ASSUME NEW s \in Slots, Work(s) PROVE PollerInv'
  BY <1>2, AnswersKeeps, LooksKeeps, ReadsKeeps, SucceedsKeeps, GivesKeeps DEF Work
<1>3. CASE Fault
  BY <1>3, FailsKeeps DEF Fault
<1> QED
  BY <1>1, <1>2, <1>3, StartKeeps, StopKeeps, RefreshKeeps, TimerKeeps, HideKeeps, ShowKeeps,
     GoOfflineKeeps, GoOnlineKeeps, ServerKeeps DEF Next

\* The end of whatever was in flight sets the timer again, or finds nobody to
\* poll for; every other way to lose a poll or a timer ends the activity, and
\* every way back to it starts one of them.
LEMMA AwakeKeeps == PollerInv /\ NeverSilent /\ [Next]_vars => NeverSilent'
<1> SUFFICES ASSUME PollerInv, NeverSilent, [Next]_vars, Active' PROVE inFlight' \/ timer'
  BY DEF NeverSilent
<1>1. Begin => inFlight'
  BY DEF Begin
<1>2. CASE UNCHANGED <<poller, page>>
  BY <1>2 DEF poller, page, Active, NeverSilent
<1>3. CASE Start
  BY <1>1, <1>3 DEF Start, Active, page
<1>4. CASE Stop \/ Hide \/ GoOffline
  BY <1>4 DEF Stop, Hide, GoOffline, Active
<1>5. CASE Refresh
  BY <1>1, <1>5 DEF Refresh
<1>6. CASE TimerFires
  <2>1. Active
    BY <1>6 DEF TimerFires, Active, page
  <2> QED
    BY <1>1, <1>6, <2>1 DEF TimerFires, BeginIfIdle
<1>7. CASE Show
  <2>1. Listening /\ online
    BY <1>7 DEF Show, Active, Listening
  <2> QED
    BY <1>7, <2>1 DEF Show
<1>8. CASE GoOnline
  <2>1. Listening /\ visible
    BY <1>8 DEF GoOnline, Active, Listening
  <2> QED
    BY <1>1, <1>8, <2>1 DEF GoOnline
<1>9. ASSUME NEW s, NEW p, Finally(s, p) PROVE inFlight' \/ timer'
  <2>1. Active
    BY <1>9 DEF Finally, Active, page
  <2> QED
    BY <1>9, <2>1 DEF Finally, NeverSilent
<1>10. ASSUME NEW s \in Slots, Work(s) PROVE inFlight' \/ timer'
  <2>1. CASE Succeeds(s) \/ Gives(s)
    BY <1>9, <2>1 DEF Succeeds, Gives
  <2>2. ASSUME NEW r \in Resources, Answers(s, r) \/ Looks(s, r) \/ Reads(s, r)
        PROVE  inFlight' \/ timer'
    BY <1>2, <2>2 DEF Answers, Looks, Reads, Settles, ExpireAuthentication, Active
  <2> QED
    BY <1>10, <2>1, <2>2 DEF Work
<1>11. CASE Fault
  BY <1>2, <1>11 DEF Fault, Fails, Settles
<1>12. CASE Changes \/ SessionEnds
  BY <1>2, <1>12 DEF Changes, SessionEnds
<1>13. CASE UNCHANGED vars
  BY <1>2, <1>13 DEF vars
<1> QED
  BY <1>3, <1>4, <1>5, <1>6, <1>7, <1>8, <1>10, <1>11, <1>12, <1>13 DEF Next

LEMMA PollerHonestOf ==
  ASSUME PollerInv, NeverSilent
  PROVE  PollerHonest
<1>1. TypeOK
  BY DEF PollerInv, PollerTyped, TypeOK, Views, FlagsSound, ViewSound
<1>2. OneInFlight
  <2>1. \A s \in Slots, r \in Resources :
          polls[s] # NoPoll /\ polls[s].fetch[r].at = "sent" => polls[s].current /\ Open(s)
    BY SlotFacts DEF PollSound, Live, Open
  <2> DEFINE L == {s \in Slots : polls[s].current /\ Open(s)}
  <2>2. L = {s \in Slots : Live(polls[s])}
    BY DEF Live, Open
  <2>3. CASE inFlight
    <3>1. PICK s \in Slots : Live(polls[s])
      BY <2>3 DEF PollerInv, OneLive
    <3>2. L = {s}
      BY <2>2, <3>1 DEF PollerInv, OneLive
    <3>3. Cardinality({s}) = 1
      BY FS_Singleton
    <3> QED
      BY <2>1, <2>3, <3>2, <3>3, FlagFacts DEF OneInFlight
  <2>4. CASE ~inFlight
    <3>1. L = {}
      BY <2>2, <2>4 DEF PollerInv, OneLive
    <3>2. Cardinality({}) = 0
      BY FS_EmptySet
    <3> QED
      BY <2>1, <2>4, <3>1, <3>2, FlagFacts DEF OneInFlight
  <2> QED
    BY <2>3, <2>4
<1> QED
  BY <1>1, <1>2 DEF PollerHonest, PollsSerialized, PollerInv, FlagsSound, ViewSound

\* What a step shows is no older than what was shown.
LEMMA PollerForward == PollerInv /\ [Next]_vars =>
  [\A r \in Resources : view'.data[r] # None => view'.data[r] >= view.data[r]]_vars
<1> SUFFICES ASSUME PollerInv, Next
             PROVE  \A r \in Resources : view'.data[r] # None => view'.data[r] >= view.data[r]
  OBVIOUS
<1>1. \A r \in Resources : view.data[r] \in Int
  BY InvFacts, PollerConstants DEF Versions, None
<1>2. SUFFICES \/ view'.data = view.data
               \/ view'.data = Wiped
               \/ \A r \in Resources : view'.data[r] \in view.data[r]..content
  BY <1>1 DEF Wiped
<1>3. \A status : Status(status).data = view.data
  BY InvFacts DEF Status, Views
<1>4. ASSUME Begin PROVE view'.data = view.data
  BY <1>3, <1>4 DEF Begin
<1>5. ASSUME NEW s \in Slots, Work(s) 
      PROVE  \/ view'.data = view.data
             \/ view'.data = Wiped
             \/ \A r \in Resources : view'.data[r] \in view.data[r]..content
  <2>1. CASE Succeeds(s)
    BY <2>1, SucceedsShows DEF Succeeds
  <2>2. CASE Gives(s)
    BY <2>2, <1>3 DEF Gives, AfterFailure
  <2>3. ASSUME NEW r \in Resources, Answers(s, r) \/ Looks(s, r) \/ Reads(s, r)
        PROVE  view'.data = view.data \/ view'.data = Wiped
    BY <2>3 DEF Answers, Looks, Reads, Settles, ExpireAuthentication
  <2> QED
    BY <1>5, <2>1, <2>2, <2>3 DEF Work
<1>6. CASE Fault
  BY <1>6 DEF Fault, Fails, Settles
<1>7. ASSUME Start \/ Stop \/ Refresh \/ TimerFires \/ Hide \/ Show \/ GoOffline \/ GoOnline
             \/ Changes \/ SessionEnds
      PROVE  view'.data = view.data
  BY <1>3, <1>4, <1>7 DEF Start, Stop, Refresh, TimerFires, Hide, Show, GoOffline, GoOnline,
     Changes, SessionEnds, BeginIfIdle, Leaves
<1> QED
  BY <1>5, <1>6, <1>7 DEF Next

------------------------------------------------------------------------------
\* Whatever starts, hides, ends or expires, one poll is in flight and its
\* answer alone counts; what it leaves on the screen and in the cache of
\* ETags is true; and one more is always to come while the page is looked at
\* (polling.ts).
THEOREM PollerIsHonest == Spec => []PollerHonest
<1>1. Spec => []PollerInv
  BY PollerStarts, PollerKeeps, PTL DEF Spec
<1>2. Init => NeverSilent
  BY DEF Init, NeverSilent, Active
<1>3. Spec => []NeverSilent
  BY <1>1, <1>2, AwakeKeeps, PTL DEF Spec
<1> QED
  BY <1>1, <1>3, PollerHonestOf, PTL

\* A late response never brings an older version back (polling.ts).
THEOREM PollerNeverOlder == Spec => NeverOlder
<1>1. Spec => []PollerInv
  BY PollerStarts, PollerKeeps, PTL DEF Spec
<1> QED
  BY <1>1, PollerForward, PTL DEF Spec, NeverOlder

------------------------------------------------------------------------------
(* The panel, for every set of ranges and any number of late transitions.   *)

\* A snapshot, and what the component and the pollers hold: the rendered
\* poller is of the selected range.  An ended session is flagged before a
\* snapshot without data is anywhere.
Snapshots == [key : Ranges, latest : Int, series : Int, failed : BOOLEAN, cleared : BOOLEAN]
Told(s) == s.cleared => lapsed
PanelInv ==
  /\ range \in Ranges /\ polled \in Snapshots /\ polled.key = range /\ Told(polled)
  /\ kept \in Snapshots /\ Told(kept)
  /\ old = <<>> \/ \E s \in Snapshots : old = <<s>> /\ Told(s)
  /\ pending \in Seq(Snapshots) /\ \A i \in 1..Len(pending) : Told(pending[i])
  /\ version \in Int

LEMMA InitialSnapshot ==
  ASSUME NEW r \in Ranges
  PROVE  Initial(r) \in Snapshots /\ Initial(r).key = r /\ ~Initial(r).cleared
<1>1. \A x \in Int : LET s == [key |-> r, latest |-> 0, series |-> x, failed |-> FALSE,
                              cleared |-> FALSE]
                      IN  s \in Snapshots /\ s.key = r /\ ~s.cleared
  BY DEF Snapshots
<1>2. CASE r = FirstRange
  BY <1>1, <1>2 DEF Initial
<1>3. CASE r # FirstRange
  BY <1>1, <1>3 DEF Initial, Nothing
<1> QED
  BY <1>2, <1>3

LEMMA ClearedSnapshot ==
  ASSUME NEW s \in Snapshots
  PROVE  /\ Cleared(s) \in Snapshots /\ Cleared(s).key = s.key
         /\ Cleared(s).latest = Nothing /\ Cleared(s).series = Nothing
<1>1. Nothing \in Int
  BY DEF Nothing
<1> QED
  BY <1>1 DEF Cleared, Snapshots

LEMMA ResultSnapshot ==
  ASSUME NEW s \in Snapshots, NEW t \in Results(s), version \in Int
  PROVE  t \in Snapshots /\ t.key = s.key
<1>1. CASE t = [s EXCEPT !.failed = TRUE]
  BY <1>1 DEF Snapshots
<1>2. CASE t = Cleared(s)
  BY <1>2, ClearedSnapshot
<1>3. CASE t = [s EXCEPT !.latest = version, !.series = version, !.failed = FALSE]
  BY <1>3 DEF Snapshots
<1>4. CASE t = [s EXCEPT !.latest = version, !.failed = TRUE]
  BY <1>4 DEF Snapshots
<1> QED
  BY <1>1, <1>2, <1>3, <1>4 DEF Results

LEMMA ToldAfter ==
  ASSUME lapsed => lapsed', NEW s, Told(s)
  PROVE  s.cleared => lapsed'
BY DEF Told

LEMMA PublishesKeeps ==
  ASSUME PanelInv, NEW s \in Snapshots, NEW t \in Results(s), Publishes(s, t)
  PROVE  /\ t \in Snapshots /\ t.key = s.key /\ (t.cleared => lapsed') /\ (lapsed => lapsed')
         /\ pending' \in Seq(Snapshots) /\ \A i \in 1..Len(pending') : pending'[i].cleared => lapsed'
<1>1. t \in Snapshots /\ t.key = s.key
  BY ResultSnapshot DEF PanelInv
<1>2. lapsed' = (lapsed \/ t.cleared) /\ t.cleared \in BOOLEAN /\ pending' = Append(pending, t)
  BY <1>1 DEF Publishes, Snapshots
<1>3. (t.cleared => lapsed') /\ (lapsed => lapsed')
  BY <1>2
<1>4. pending \in Seq(Snapshots) /\ \A i \in 1..Len(pending) : pending[i].cleared => lapsed
  BY DEF PanelInv, Told
<1>5. PICK q : q = Append(pending, t)
  OBVIOUS
<1>6. /\ q \in Seq(Snapshots) /\ Len(q) = Len(pending) + 1 /\ q[Len(pending) + 1] = t
      /\ \A i \in 1..Len(pending) : q[i] = pending[i]
  BY <1>1, <1>4, <1>5
<1>7. \A i \in 1..Len(q) : q[i].cleared => lapsed'
  <2> TAKE i \in 1..Len(q)
  <2>1. CASE i \in 1..Len(pending)
    BY <1>3, <1>4, <1>6, <2>1
  <2>2. CASE i \notin 1..Len(pending)
    <3>1. i = Len(pending) + 1
      BY <1>4, <1>6, <2>2
    <3> QED
      BY <1>3, <1>6, <3>1
  <2> QED
    BY <2>1, <2>2
<1> QED
  BY <1>1, <1>2, <1>3, <1>5, <1>6, <1>7

LEMMA PanelStarts == PanelInit => PanelInv
BY InitialSnapshot, PanelConstants DEF PanelInit, PanelInv, Told

LEMMA PanelKeeps == PanelInv /\ [PanelNext]_panelVars => PanelInv'
<1> SUFFICES ASSUME PanelInv, [PanelNext]_panelVars PROVE PanelInv'
  OBVIOUS
<1>1. ASSUME PollerPublishes PROVE PanelInv'
  <2>1. PICK t \in Results(polled) : Publishes(polled, t) /\ polled' = t
    BY <1>1 DEF PollerPublishes
  <2>2. /\ t \in Snapshots /\ t.key = polled.key /\ (t.cleared => lapsed') /\ (lapsed => lapsed')
        /\ pending' \in Seq(Snapshots) /\ \A i \in 1..Len(pending') : pending'[i].cleared => lapsed'
    BY <2>1, PublishesKeeps DEF PanelInv
  <2> QED
    BY <1>1, <2>1, <2>2 DEF PollerPublishes, PanelInv, Told
<1>2. ASSUME OldPublishes PROVE PanelInv'
  <2>1. PICK s \in Snapshots : old = <<s>>
    BY <1>2 DEF OldPublishes, PanelInv
  <2>2. PICK t \in Results(s) : Publishes(s, t) /\ old' = <<t>>
    BY <1>2, <2>1 DEF OldPublishes
  <2>3. /\ t \in Snapshots /\ t.key = s.key /\ (t.cleared => lapsed') /\ (lapsed => lapsed')
        /\ pending' \in Seq(Snapshots) /\ \A i \in 1..Len(pending') : pending'[i].cleared => lapsed'
    BY <2>2, PublishesKeeps
  <2> QED
    BY <1>2, <2>2, <2>3 DEF OldPublishes, PanelInv, Told
<1>3. ASSUME Selects PROVE PanelInv'
  <2>1. PICK r \in Ranges : range' = r /\ polled' = Initial(r) /\ old' = <<polled>>
    BY <1>3 DEF Selects
  <2> QED
    BY <1>3, <2>1, InitialSnapshot DEF Selects, PanelInv, Told
<1>4. ASSUME TransitionEnds PROVE PanelInv'
  <2>1. pending \in Seq(Snapshots) /\ pending # <<>> /\ \A i \in 1..Len(pending) : Told(pending[i])
    BY <1>4 DEF TransitionEnds, PanelInv
  <2>2. /\ Head(pending) \in Snapshots /\ Told(Head(pending)) /\ Tail(pending) \in Seq(Snapshots)
        /\ \A i \in 1..Len(Tail(pending)) : Told(Tail(pending)[i])
    BY <2>1
  <2> QED
    BY <1>4, <2>2 DEF TransitionEnds, PanelInv, Told
<1>5. ASSUME ServerPublishes \/ SessionLapses \/ EffectRuns \/ UNCHANGED panelVars PROVE PanelInv'
  BY <1>5 DEF ServerPublishes, SessionLapses, EffectRuns, panelVars, PanelInv, Told
<1> QED
  BY <1>1, <1>2, <1>3, <1>4, <1>5 DEF PanelNext

\* Beside the selected range stands its own history or none, whatever is
\* still under way, and nothing after a poll has found the session ended
\* (useOwnerObservability.ts, OwnerTelemetryBoundary.tsx).
THEOREM PanelIsHonest == PanelSpec => [](PanelHonest /\ (Current.cleared => lapsed))
<1>1. PanelInv => PanelHonest /\ (Current.cleared => lapsed)
  <2> SUFFICES ASSUME PanelInv PROVE PanelHonest /\ (Current.cleared => lapsed)
    OBVIOUS
  <2>1. Current \in Snapshots /\ Current.key = range /\ (Current.cleared => lapsed)
    BY DEF Current, PanelInv, Told
  <2> QED
    BY <2>1, ClearedSnapshot DEF PanelHonest, OnScreen, BoundaryHides
<1> QED
  BY <1>1, PanelStarts, PanelKeeps, PTL DEF PanelSpec

------------------------------------------------------------------------------
(* The guard around unsaved changes, for every history and every order of    *)
(* traversals.                                                               *)

\* An editor with unsaved changes is left only by a step that has asked the
\* owner (useUnsavedChanges.ts).
THEOREM LeavingIsAgreed == NavSpec => LeftOnlyAgreed
<1>1. [NavNext]_navVars => [(Mounted /\ Dirty(guard) /\ ~Mounted') => agreed']_navVars
  <2> SUFFICES ASSUME NavNext, Mounted, Dirty(guard), ~Mounted'
               PROVE  agreed'
    OBVIOUS
  <2>1. shown' # shown
    BY DEF Mounted
  <2>2. ASSUME NEW target \in Entries,
               \/ CanceledFirst(target) \/ AgreedFirst(target)
               \/ PassesOn(target) \/ RestoreDone(target)
               \/ AgreedAfter(target) \/ RefusedAfter(target)
        PROVE  agreed'
    BY <2>1, <2>2 DEF CanceledFirst, AgreedFirst, PassesOn, RestoreDone, AgreedAfter,
                      RefusedAfter, Stays, Unguarded
  <2> QED
    BY <2>1, <2>2 DEF NavNext, Edit, Save, ClickLink, Traverse, Step, Nowhere
<1> QED
  BY <1>1, PTL DEF NavSpec, LeftOnlyAgreed

\* A browser without the Navigation API.  While another entry than the
\* editor's is active, a traversal is queued that leads toward it and not
\* beyond; and the guard waits for it.
Traversals == [by : Int, own : BOOLEAN]
Guards == {NoGuard} \cup [dirty : {TRUE}, protected : {Home}, restoring : BOOLEAN]
Homeward(by, from) == IF from < Home THEN by \in 1..(Home - from) ELSE by = Home - from
Strayed == shown # current
NavTyped ==
  /\ native \in BOOLEAN /\ last \in Nat /\ Home <= last /\ current \in Entries
  /\ shown \in Entries /\ guard \in Guards /\ queue \in Seq(Traversals)
NavSound ==
  /\ Dirty(guard) => shown = Home
  /\ Strayed => /\ shown = Home /\ (Dirty(guard) => guard.restoring)
                /\ \E i \in 1..Len(queue) : Homeward(queue[i].by, current)
NavInv == native \/ (NavTyped /\ NavSound)

LEMMA GuardFacts ==
  /\ ~Dirty(NoGuard)
  /\ \A b \in BOOLEAN : /\ [dirty |-> TRUE, protected |-> Home, restoring |-> b] \in Guards
                       /\ Dirty([dirty |-> TRUE, protected |-> Home, restoring |-> b])
  /\ \A g \in Guards : Dirty(g) => /\ g.protected = Home /\ g.restoring \in BOOLEAN
                                   /\ \A b \in BOOLEAN : /\ [g EXCEPT !.restoring = b] \in Guards
                                                        /\ [g EXCEPT !.restoring = b].restoring = b
BY DEF Guards, Dirty, NoGuard

LEMMA NavStarts == NavInit => NavInv
<1> SUFFICES ASSUME NavInit PROVE NavTyped /\ NavSound
  BY DEF NavInv
<1> QED
  BY NavigationConstants, GuardFacts DEF NavInit, NavTyped, NavSound, Strayed, Entries, Guards

\* The rest of a queue, and a queue that grows.
LEMMA QueueTail ==
  ASSUME NEW q \in Seq(Traversals), q # <<>>
  PROVE  /\ Tail(q) \in Seq(Traversals) /\ Head(q) = q[1] /\ q[1] \in Traversals
         /\ Len(Tail(q)) = Len(q) - 1 /\ \A i \in 1..Len(Tail(q)) : Tail(q)[i] = q[i + 1]
         /\ Tail(q) \o <<>> = Tail(q)
OBVIOUS

LEMMA QueueGrows ==
  ASSUME NEW q \in Seq(Traversals), NEW t \in Traversals
  PROVE  /\ q \o <<t>> \in Seq(Traversals) /\ Len(q \o <<t>>) = Len(q) + 1
         /\ (q \o <<t>>)[Len(q) + 1] = t /\ \A i \in 1..Len(q) : (q \o <<t>>)[i] = q[i]
         /\ Append(q, t) = q \o <<t>>
OBVIOUS

\* The guard's own way back.
LEMMA ReverseHomeward ==
  ASSUME Untracked \subseteq 0..(Home - 1), NavTyped, Dirty(guard), NEW target \in Entries
  PROVE  /\ ReverseSteps(target) \in Int
         /\ target # Home => Homeward(ReverseSteps(target), target)
<1>1. guard.protected = Home /\ Home \in Int /\ target \in Int /\ Home \notin Untracked
  BY NavigationConstants, GuardFacts DEF NavTyped, Entries
<1>2. target \in Untracked => target < Home
  BY <1>1
<1> QED
  BY <1>1, <1>2 DEF ReverseSteps, Tracked, Homeward

LEMMA NavKeeps ==
  ASSUME Untracked \subseteq 0..(Home - 1)
  PROVE  NavInv /\ [NavNext]_navVars => NavInv'
<1> SUFFICES ASSUME NavInv, [NavNext]_navVars PROVE NavInv'
  OBVIOUS
<1>1. native' = native
  BY DEF NavNext, Edit, Save, ClickLink, Traverse, Step, Nowhere, CanceledFirst, AgreedFirst,
         PassesOn, RestoreDone, AgreedAfter, RefusedAfter, Moved, Arrives, navVars
<1>2. CASE native
  BY <1>1, <1>2 DEF NavInv
<1>3. CASE ~native
  <2>1. NavTyped /\ NavSound /\ Home \in Nat
    BY <1>3, NavigationConstants DEF NavInv
  <2> SUFFICES NavTyped' /\ NavSound'
    BY DEF NavInv
  <2>2. current \in Int /\ last \in Int /\ queue \in Seq(Traversals)
    BY <2>1 DEF NavTyped, Entries
  <2>3. CASE Edit
    <3>1. shown = current /\ shown = Home
      BY <2>1, <2>3 DEF Edit, Mounted, NavSound, Strayed
    <3>2. guard' \in Guards
      BY <2>1, <2>3, <3>1, GuardFacts DEF Edit, Guard, NavTyped
    <3> QED
      BY <1>1, <2>1, <2>3, <3>1, <3>2 DEF Edit, NavTyped, NavSound, Strayed, Entries
  <2>4. CASE Save
    <3>1. guard' \in Guards /\ ~Dirty(guard')
      BY <2>4, GuardFacts DEF Save, Guards
    <3> QED
      BY <1>1, <2>1, <2>4, <3>1 DEF Save, NavTyped, NavSound, Strayed, Entries, Homeward, Dirty
  <2>5. CASE ClickLink
    <3>1. shown = current /\ shown = Home
      BY <2>1, <2>5 DEF ClickLink, Mounted, NavSound, Strayed
    <3>2. /\ last' = Home + 1 /\ current' = Home + 1 /\ shown' = Home + 1 /\ queue' = queue
          /\ guard' = NoGuard
      BY <2>5, <3>1 DEF ClickLink
    <3>3. NavTyped'
      BY <1>1, <2>1, <3>2 DEF NavTyped, Entries, Guards
    <3>4. NavSound'
      BY <3>2, GuardFacts DEF NavSound, Strayed, Dirty, NoGuard
    <3> QED
      BY <3>3, <3>4
  <2>6. ASSUME NEW by \in -2..2 \ {0}, Traverse(by) PROVE NavTyped' /\ NavSound'
    <3>1. [by |-> by, own |-> TRUE] \in Traversals
      BY DEF Traversals
    <3>2. PICK q : q = queue'
      OBVIOUS
    <3>3. /\ q \in Seq(Traversals) /\ Len(q) = Len(queue) + 1
          /\ \A i \in 1..Len(queue) : q[i] = queue[i]
      BY <2>2, <2>6, <3>1, <3>2, QueueGrows DEF Traverse
    <3>4. UNCHANGED <<native, last, current, shown, guard>>
      BY <2>6 DEF Traverse
    <3>5. NavTyped'
      BY <2>1, <3>2, <3>3, <3>4 DEF NavTyped, Entries
    <3>6. ASSUME Strayed PROVE \E i \in 1..Len(q) : Homeward(q[i].by, current)
      BY <2>1, <2>2, <3>3, <3>6 DEF NavSound
    <3>7. NavSound'
      BY <2>1, <3>2, <3>4, <3>6 DEF NavSound, Strayed, Homeward, Dirty
    <3> QED
      BY <3>5, <3>7
  <2>7. CASE Nowhere
    <3>1. queue # <<>> /\ Target \notin Entries /\ queue' = Tail(queue)
          /\ UNCHANGED <<native, last, current, shown, guard>>
      BY <2>7 DEF Nowhere
    <3>2. PICK q : q = Tail(queue)
      OBVIOUS
    <3>3. /\ q \in Seq(Traversals) /\ Len(q) = Len(queue) - 1
          /\ \A i \in 1..Len(q) : q[i] = queue[i + 1]
          /\ Head(queue) = queue[1] /\ queue[1].by \in Int
      BY <2>2, <3>1, <3>2, QueueTail DEF Traversals
    <3>4. ~Homeward(queue[1].by, current)
      BY <2>1, <2>2, <3>1, <3>3 DEF Homeward, Target, Entries, NavTyped
    <3>5. ASSUME Strayed PROVE \E i \in 1..Len(q) : Homeward(q[i].by, current)
      <4>1. PICK i \in 1..Len(queue) : Homeward(queue[i].by, current)
        BY <2>1, <3>5 DEF NavSound
      <4>2. i - 1 \in 1..Len(q) /\ q[i - 1] = queue[i]
        BY <2>2, <3>3, <3>4, <4>1
      <4> QED
        BY <4>1, <4>2
    <3>6. NavTyped'
      BY <2>1, <3>1, <3>2, <3>3 DEF NavTyped, Entries
    <3>7. NavSound'
      BY <2>1, <3>1, <3>2, <3>5 DEF NavSound, Strayed, Homeward, Dirty
    <3> QED
      BY <3>6, <3>7
  <2>8. ASSUME NEW target \in Entries,
               \/ CanceledFirst(target) \/ AgreedFirst(target)
               \/ PassesOn(target) \/ RestoreDone(target)
               \/ AgreedAfter(target) \/ RefusedAfter(target)
        PROVE  NavTyped' /\ NavSound'
    <3>1. queue # <<>> /\ UNCHANGED <<native, last>>
      BY <2>8 DEF CanceledFirst, AgreedFirst, PassesOn, RestoreDone, AgreedAfter, RefusedAfter,
                  Moved, Arrives
    <3>2. PICK q : q = Tail(queue)
      OBVIOUS
    <3>3. q \in Seq(Traversals) /\ q \o <<>> = q
      BY <2>2, <3>1, <3>2, QueueTail
    <3>4. ASSUME Routed(target), Later(<<>>) PROVE NavTyped' /\ NavSound'
      <4>1. current' = target /\ shown' = target /\ queue' = q
            /\ guard' = IF target = Home THEN guard ELSE NoGuard
        BY <3>2, <3>3, <3>4 DEF Routed, Later
      <4>2. guard' \in Guards /\ (Dirty(guard') => target = Home)
        BY <2>1, <4>1, GuardFacts DEF NavTyped, Guards
      <4>3. NavTyped'
        BY <2>1, <2>8, <3>1, <3>3, <4>1, <4>2 DEF NavTyped, Entries
      <4>4. NavSound'
        BY <4>1, <4>2 DEF NavSound, Strayed, Dirty
      <4> QED
        BY <4>3, <4>4
    <3>5. CASE RestoreDone(target)
      <4>1. Dirty(guard) /\ target = Home /\ current' = Home /\ shown' = shown /\ queue' = q
            /\ guard' = [guard EXCEPT !.restoring = FALSE]
        BY <2>1, <3>2, <3>3, <3>5, GuardFacts
           DEF RestoreDone, Unguarded, Restored, AtProtected, NavTyped, Later
      <4>2. guard' \in Guards /\ shown = Home
        BY <2>1, <4>1, GuardFacts DEF NavTyped, NavSound
      <4>3. NavTyped'
        BY <2>1, <2>8, <3>1, <3>3, <4>1, <4>2 DEF NavTyped, Entries
      <4>4. NavSound'
        BY <4>1, <4>2 DEF NavSound, Strayed
      <4> QED
        BY <4>3, <4>4
    <3>6. CASE RefusedAfter(target)
      <4>1. Dirty(guard) /\ current' = target /\ shown' = shown
            /\ queue' = q \o <<[by |-> ReverseSteps(target), own |-> FALSE]>>
            /\ guard' = [guard EXCEPT !.restoring = TRUE]
        BY <3>2, <3>6 DEF RefusedAfter, Unguarded, Later
      <4>2. guard' \in Guards /\ guard'.restoring /\ shown = Home
        BY <2>1, <4>1, GuardFacts DEF NavTyped, NavSound
      <4>3. /\ ReverseSteps(target) \in Int
            /\ target # Home => Homeward(ReverseSteps(target), target)
        BY <2>1, <4>1, ReverseHomeward
      <4>4. PICK t : t = [by |-> ReverseSteps(target), own |-> FALSE]
        OBVIOUS
      <4>5. t \in Traversals /\ t.by = ReverseSteps(target)
        BY <4>3, <4>4 DEF Traversals
      <4>6. PICK w : w = queue'
        OBVIOUS
      <4>7. w \in Seq(Traversals) /\ Len(w) = Len(q) + 1 /\ w[Len(q) + 1] = t
        BY <3>3, <4>1, <4>4, <4>5, <4>6, QueueGrows
      <4>8. target # Home => \E i \in 1..Len(w) : Homeward(w[i].by, target)
        BY <3>3, <4>3, <4>5, <4>7
      <4>9. NavTyped'
        BY <2>1, <2>8, <3>1, <4>1, <4>2, <4>6, <4>7 DEF NavTyped, Entries
      <4>10. NavSound'
        BY <4>1, <4>2, <4>6, <4>8 DEF NavSound, Strayed, Homeward
      <4> QED
        BY <4>9, <4>10
    <3>7. ~CanceledFirst(target) /\ ~AgreedFirst(target)
      BY <1>3 DEF CanceledFirst, AgreedFirst
    <3> QED
      BY <2>8, <3>4, <3>5, <3>6, <3>7 DEF PassesOn, AgreedAfter
  <2>9. CASE UNCHANGED navVars
    BY <2>1, <2>9 DEF navVars, NavTyped, NavSound, Entries, Strayed, Homeward, Dirty
  <2> QED
    BY <2>3, <2>4, <2>5, <2>6, <2>7, <2>8, <2>9 DEF NavNext, Step
<1> QED
  BY <1>2, <1>3

\* Whenever such a tab has come to rest beside an editor with unsaved
\* changes, the address is the editor's: however fast the owner traversed,
\* and wherever, when the entries without a position are those behind the
\* editor (reverseSteps, useUnsavedChanges.ts:191-198).
THEOREM RestsAtHome ==
  ASSUME Untracked \subseteq 0..(Home - 1)
  PROVE  NavSpec => [](~native /\ queue = <<>> /\ Dirty(guard) => current = Home)
<1>1. NavInv => (~native /\ queue = <<>> /\ Dirty(guard) => current = Home)
  BY DEF NavInv, NavTyped, NavSound, Strayed
<1> QED
  BY <1>1, NavStarts, NavKeeps, PTL DEF NavSpec

------------------------------------------------------------------------------
(* Such a tab does come to rest.  The owner's traversals are counted; and   *)
(* what the guard asks for leads toward the editor from wherever the tab    *)
(* will be by then: with no entries ahead of the editor's all its steps go  *)
(* forward, and otherwise it is alone in the queue.                         *)

LEMMA QueueDomain ==
  ASSUME NEW q \in Seq(Traversals)
  PROVE  /\ DOMAIN q = 1..Len(q) /\ Len(q) \in Nat
         /\ q # <<>> => Len(q) # 0
OBVIOUS

LEMMA OwnsTail ==
  ASSUME NEW q \in Seq(Traversals), q # <<>>
  PROVE  /\ IsFiniteSet(Owns(q)) /\ Cardinality(Owns(q)) \in Nat
         /\ IsFiniteSet(Owns(Tail(q))) /\ Cardinality(Owns(Tail(q))) \in Nat
         /\ Cardinality(Owns(Tail(q))) = Cardinality(Owns(q)) - (IF Head(q).own THEN 1 ELSE 0)
<1>1. /\ Tail(q) \in Seq(Traversals) /\ Head(q) = q[1] /\ Len(Tail(q)) = Len(q) - 1
      /\ \A i \in 1..Len(Tail(q)) : Tail(q)[i] = q[i + 1]
      /\ DOMAIN q = 1..Len(q) /\ DOMAIN Tail(q) = 1..Len(Tail(q)) /\ Len(q) \in Nat \ {0}
  <2>1. PICK w : w = Tail(q)
    OBVIOUS
  <2>2. w \in Seq(Traversals) /\ Len(w) = Len(q) - 1 /\ Head(q) = q[1]
        /\ \A i \in 1..Len(w) : w[i] = q[i + 1]
    BY <2>1, QueueTail
  <2>3. /\ DOMAIN q = 1..Len(q) /\ DOMAIN w = 1..Len(w)
        /\ Len(q) \in Nat /\ Len(q) # 0
    BY <2>2, QueueDomain
  <2> QED
    BY <2>1, <2>2, <2>3
<1>2. /\ IsFiniteSet(Owns(q)) /\ Cardinality(Owns(q)) \in Nat
      /\ IsFiniteSet(Owns(Tail(q))) /\ Cardinality(Owns(Tail(q))) \in Nat
  <2>0. Len(q) \in Int /\ Len(Tail(q)) \in Int
    BY <1>1
  <2>1. PICK m \in Int, n \in Int : m = Len(q) /\ n = Len(Tail(q))
    BY <2>0, Zenon
  <2>2. IsFiniteSet(1..m) /\ IsFiniteSet(1..n)
    BY FS_Interval
  <2>3. Owns(q) \in SUBSET (1..m) /\ Owns(Tail(q)) \in SUBSET (1..n)
    BY <1>1, <2>1 DEF Owns
  <2> QED
    BY <2>2, <2>3, FS_Subset, FS_CardinalityType
<1>3. PICK S : S = Owns(Tail(q))
  OBVIOUS
<1>4. PICK T : T = Owns(q) \ {1}
  OBVIOUS
<1>5. \A i : i \in S <=> i \in 1..(Len(q) - 1) /\ q[i + 1].own
  BY <1>1, <1>3 DEF Owns
<1>6. \A i : i \in T <=> i \in 2..Len(q) /\ q[i].own
  BY <1>1, <1>4 DEF Owns
<1>7. Cardinality(S) = Cardinality(T)
  <2> DEFINE f == [i \in S |-> i + 1]
  <2>1. f \in [S -> T]
    BY <1>1, <1>5, <1>6
  <2>2. \A a, b \in S : f[a] = f[b] => a = b
    BY <1>5
  <2>3. \A t \in T : \E s \in S : f[s] = t
    <3> TAKE t \in T
    <3>1. t - 1 \in S /\ (t - 1) + 1 = t
      BY <1>1, <1>5, <1>6
    <3> QED
      BY <3>1
  <2>4. DOMAIN f = S
    OBVIOUS
  <2>5. IsFiniteSet(S)
    BY <1>2, <1>3
  <2> HIDE DEF f
  <2>6. f \in Injection(S, T)
    BY <2>1, <2>2, <2>4 DEF Injection, IsInjective
  <2>7. f \in Surjection(S, T)
    BY <2>1, <2>3 DEF Surjection
  <2>8. ExistsBijection(S, T)
    BY <2>6, <2>7 DEF ExistsBijection, Bijection
  <2> QED
    BY <2>5, <2>8, FS_Bijection
<1>8. CASE Head(q).own
  <2>1. 1 \in Owns(q)
    BY <1>1, <1>8 DEF Owns
  <2>2. Cardinality(T) = Cardinality(Owns(q)) - 1
    BY <1>2, <1>4, <2>1, FS_RemoveElement
  <2> QED
    BY <1>2, <1>3, <1>7, <1>8, <2>2
<1>9. CASE ~Head(q).own
  <2>1. T = Owns(q)
    BY <1>1, <1>4, <1>9 DEF Owns
  <2> QED
    BY <1>2, <1>3, <1>7, <1>9, <2>1
<1> QED
  BY <1>8, <1>9

LEMMA OwnsGrow ==
  ASSUME NEW q \in Seq(Traversals), NEW t \in Traversals
  PROVE  /\ Cardinality(Owns(q)) \in Nat
         /\ Cardinality(Owns(q \o <<t>>)) = Cardinality(Owns(q)) + (IF t.own THEN 1 ELSE 0)
<1>1. /\ q \o <<t>> \in Seq(Traversals) /\ Len(q \o <<t>>) = Len(q) + 1
      /\ (q \o <<t>>)[Len(q) + 1] = t /\ \A i \in 1..Len(q) : (q \o <<t>>)[i] = q[i]
      /\ DOMAIN q = 1..Len(q) /\ DOMAIN (q \o <<t>>) = 1..(Len(q) + 1) /\ Len(q) \in Nat
  <2>1. PICK w : w = q \o <<t>>
    OBVIOUS
  <2>2. w \in Seq(Traversals) /\ Len(w) = Len(q) + 1 /\ w[Len(q) + 1] = t
        /\ \A i \in 1..Len(q) : w[i] = q[i]
    BY <2>1, QueueGrows
  <2>3. DOMAIN q = 1..Len(q) /\ DOMAIN w = 1..Len(w) /\ Len(q) \in Nat
    BY <2>2, QueueDomain
  <2> QED
    BY <2>1, <2>2, <2>3
<1>2. IsFiniteSet(Owns(q)) /\ Cardinality(Owns(q)) \in Nat
  <2>0. Len(q) \in Int
    BY <1>1
  <2>1. PICK m \in Int : m = Len(q)
    BY <2>0, Zenon
  <2>2. IsFiniteSet(1..m)
    BY FS_Interval
  <2>3. Owns(q) \in SUBSET (1..m)
    BY <1>1, <2>1 DEF Owns
  <2> QED
    BY <2>2, <2>3, FS_Subset, FS_CardinalityType
<1>3. CASE t.own
  <2>1. Owns(q \o <<t>>) = Owns(q) \cup {Len(q) + 1}
    BY <1>1, <1>3 DEF Owns
  <2>2. Len(q) + 1 \notin Owns(q)
    BY <1>1 DEF Owns
  <2> QED
    BY <1>2, <1>3, <2>1, <2>2, FS_AddElement
<1>4. CASE ~t.own
  <2>1. Owns(q \o <<t>>) = Owns(q)
    BY <1>1, <1>4 DEF Owns
  <2> QED
    BY <1>2, <1>4, <2>1
<1> QED
  BY <1>2, <1>3, <1>4
\* What is queued: one traversal at a time with entries ahead of the editor's,
\* and by the guard none that leads away.
Leads(t) ==
  IF last = Home THEN t.own \/ t.by >= 1
  ELSE IF t.own THEN t.by # 0 /\ ~Strayed
  ELSE Homeward(t.by, current) /\ current # Home
NavLeads ==
  /\ moves \in 0..MaxMoves
  /\ last # Home => Len(queue) <= 1
  /\ \A i \in 1..Len(queue) : Leads(queue[i])
NavWays == native \/ NavLeads

\* One traversal: it leads nowhere, it is let through or is the guard's own
\* and done, or it is refused and the guard asks for the way back.
Passed(q, to) == current' = to /\ shown' = to /\ queue' = q
Refused(q, to, back) ==
  /\ current' = to /\ shown' = shown
  /\ queue' = q \o <<[by |-> back, own |-> FALSE]>>
  /\ back \in Int
  /\ IF last = Home THEN back >= 1 ELSE to # Home /\ Homeward(back, to)

LEMMA StepForms ==
  ASSUME Untracked \subseteq 0..(Home - 1), ~native, NavTyped, NavSound, NavLeads, Step,
         NEW h, h = queue[1], NEW q, q = Tail(queue), NEW to, to = current + h.by
  PROVE  /\ queue # <<>> /\ h \in Traversals /\ q \in Seq(Traversals)
         /\ Len(q) = Len(queue) - 1 /\ \A i \in 1..Len(q) : q[i] = queue[i + 1]
         /\ UNCHANGED <<last, moves>> /\ Leads(h) /\ to \in Int
         /\ \/ UNCHANGED <<current, shown>> /\ queue' = q
            \/ to \in Entries /\ Passed(q, to)
            \/ to \in Entries /\ \E back : Refused(q, to, back)
<1>1. queue # <<>> /\ UNCHANGED <<last, moves>>
  BY DEF Step, Nowhere, CanceledFirst, AgreedFirst, PassesOn, RestoreDone, AgreedAfter,
         RefusedAfter, Moved, Arrives
<1>2. queue \in Seq(Traversals) /\ current \in Int /\ Home \in Int
  BY NavigationConstants DEF NavTyped, Entries
<1>3. /\ h \in Traversals /\ q \in Seq(Traversals) /\ Head(queue) = h
      /\ Len(q) = Len(queue) - 1 /\ \A i \in 1..Len(q) : q[i] = queue[i + 1]
      /\ q \o <<>> = q
  BY <1>1, <1>2, QueueTail
<1>4. to \in Int /\ to = Target
  BY <1>2, <1>3 DEF Traversals, Target
<1>5. Leads(h)
  <2>1. Len(queue) \in Nat /\ Len(queue) # 0
    BY <1>1, <1>2, QueueDomain
  <2> QED
    BY <2>1 DEF NavLeads
<1>6. CASE Nowhere
  BY <1>1, <1>3, <1>4, <1>5, <1>6 DEF Nowhere
<1>7. ASSUME NEW target \in Entries, PassesOn(target) \/ AgreedAfter(target)
      PROVE  to \in Entries /\ Passed(q, to)
  BY <1>3, <1>4, <1>7 DEF PassesOn, AgreedAfter, Moved, Arrives, Routed, Later, Passed
<1>8. ASSUME NEW target \in Entries, RestoreDone(target)
      PROVE  to \in Entries /\ Passed(q, to)
  <2>1. /\ target = to /\ Dirty(guard) /\ guard.protected = to /\ current' = to
        /\ shown' = shown /\ queue' = q
    BY <1>3, <1>4, <1>8 DEF RestoreDone, Moved, Arrives, Later, Restored, AtProtected, Unguarded
  <2>2. guard.protected = Home /\ shown = Home
    BY <2>1, GuardFacts DEF NavTyped, NavSound
  <2> QED
    BY <2>1, <2>2 DEF Passed
<1>9. ASSUME NEW target \in Entries, RefusedAfter(target)
      PROVE  to \in Entries /\ \E back : Refused(q, to, back)
  <2>0. target = to /\ RefusedAfter(to)
    BY <1>4, <1>9 DEF RefusedAfter, Moved, Arrives
  <2>1. /\ Dirty(guard) /\ ~Restored(to) /\ current' = to /\ shown' = shown
        /\ queue' = q \o <<[by |-> ReverseSteps(to), own |-> FALSE]>>
    BY <2>0, Zenon DEF RefusedAfter, Later, Unguarded
  <2>2. /\ guard.protected = Home /\ shown = Home /\ (Strayed => guard.restoring)
    BY <2>1, GuardFacts DEF NavTyped, NavSound
  <2>3. /\ ReverseSteps(to) \in Int /\ to \in Entries
        /\ to # Home => Homeward(ReverseSteps(to), to)
    BY <2>0, <2>1, ReverseHomeward
  <2>4. to = Home => ReverseSteps(to) = 1
    BY <2>2 DEF ReverseSteps
  <2>5. last = Home => ReverseSteps(to) >= 1
    BY <1>2, <2>3, <2>4 DEF Homeward, Entries
  <2>6. ASSUME last # Home PROVE to # Home
    <3>1. CASE h.own
      <4>1. current = Home /\ h.by \in Int /\ h.by # 0
        BY <1>3, <1>5, <2>2, <2>6, <3>1 DEF Leads, Strayed, Traversals
      <4> QED
        BY <1>2, <4>1
    <3>2. CASE ~h.own
      <4>1. Strayed
        BY <1>5, <2>2, <2>6, <3>2 DEF Leads, Strayed
      <4> QED
        BY <2>1, <2>2, <4>1 DEF Restored, AtProtected
    <3> QED
      BY <3>1, <3>2
  <2>7. Refused(q, to, ReverseSteps(to))
    BY <2>1, <2>3, <2>5, <2>6 DEF Refused
  <2> QED
    BY <2>0, <2>7, Zenon
<1>10. ASSUME NEW target \in Entries PROVE ~CanceledFirst(target) /\ ~AgreedFirst(target)
  BY DEF CanceledFirst, AgreedFirst
<1> QED
  BY <1>1, <1>3, <1>4, <1>5, <1>6, <1>7, <1>8, <1>9, <1>10 DEF Step
LEMMA WaysStart == NavInit => NavWays
<1> SUFFICES ASSUME NavInit PROVE NavLeads
  BY DEF NavWays
<1> QED
  BY NavigationConstants DEF NavInit, NavLeads

LEMMA WaysKept ==
  ASSUME Untracked \subseteq 0..(Home - 1), ~Hurry
  PROVE  NavInv /\ NavWays /\ [NavNext]_navVars => NavWays'
<1> SUFFICES ASSUME NavInv, NavWays, [NavNext]_navVars PROVE NavWays'
  OBVIOUS
<1>1. native' = native
  BY DEF NavNext, Edit, Save, ClickLink, Traverse, Step, Nowhere, CanceledFirst, AgreedFirst,
         PassesOn, RestoreDone, AgreedAfter, RefusedAfter, Moved, Arrives, navVars
<1>2. CASE native
  BY <1>1, <1>2 DEF NavWays
<1>3. CASE ~native
  <2>1. NavTyped /\ NavSound /\ NavLeads /\ MaxMoves \in Nat /\ Home \in Nat
    BY <1>3, NavigationConstants DEF NavInv, NavWays
  <2> SUFFICES NavLeads'
    BY DEF NavWays
  <2>2. queue \in Seq(Traversals) /\ Len(queue) \in Nat
    BY <2>1, QueueDomain DEF NavTyped
  <2>3. ASSUME queue = <<>> PROVE ~Strayed
    BY <2>1, <2>3 DEF NavSound
  <2>4. CASE Edit \/ Save \/ UNCHANGED navVars
    <3>1. UNCHANGED <<last, current, shown, queue, moves>>
      BY <2>4 DEF Edit, Save, navVars
    <3> QED
      BY <2>1, <3>1 DEF NavLeads, Leads, Homeward, Strayed
  <2>5. CASE ClickLink
    <3>1. queue = <<>> /\ queue' = queue /\ moves' = moves
      BY <2>5 DEF ClickLink
    <3> QED
      BY <2>1, <3>1 DEF NavLeads
  <2>6. ASSUME NEW by \in -2..2 \ {0}, Traverse(by) PROVE NavLeads'
    <3>1. PICK t : t = [by |-> by, own |-> TRUE]
      OBVIOUS
    <3>2. t \in Traversals /\ t.own /\ t.by # 0
      BY <3>1 DEF Traversals
    <3>3. PICK w : w = queue'
      OBVIOUS
    <3>4. /\ w \in Seq(Traversals) /\ Len(w) = Len(queue) + 1 /\ w[Len(queue) + 1] = t
          /\ \A i \in 1..Len(queue) : w[i] = queue[i]
      BY <2>2, <2>6, <3>1, <3>2, <3>3, QueueGrows DEF Traverse
    <3>5. /\ queue = <<>> \/ last = Home
          /\ moves < MaxMoves /\ moves' = moves + 1 /\ UNCHANGED <<last, current, shown>>
      BY <2>6 DEF Traverse
    <3>6. moves' \in 0..MaxMoves
      BY <2>1, <3>5 DEF NavLeads
    <3>7. last # Home => Len(w) <= 1
      BY <3>4, <3>5
    <3>8. \A i \in 1..Len(w) : Leads(w[i])
      <4>1. Leads(t)
        BY <2>3, <3>2, <3>5 DEF Leads
      <4>2. \A i \in 1..Len(queue) : Leads(w[i])
        BY <2>1, <3>4 DEF NavLeads
      <4> QED
        BY <2>2, <3>4, <4>1, <4>2
    <3> QED
      BY <3>3, <3>5, <3>6, <3>7, <3>8 DEF NavLeads, Leads, Strayed, Homeward
  <2>7. CASE Step
    <3>1. PICK h : h = queue[1]
      OBVIOUS
    <3>2. PICK q : q = Tail(queue)
      OBVIOUS
    <3>3. PICK to : to = current + h.by
      OBVIOUS
    <3>4. /\ q \in Seq(Traversals) /\ Len(q) = Len(queue) - 1
          /\ \A i \in 1..Len(q) : q[i] = queue[i + 1]
          /\ UNCHANGED <<last, moves>> /\ Leads(h) /\ to \in Int
          /\ \/ UNCHANGED <<current, shown>> /\ queue' = q
             \/ Passed(q, to)
             \/ \E back : Refused(q, to, back)
      BY <1>3, <2>1, <2>7, <3>1, <3>2, <3>3, StepForms, Zenon
    <3>5. last = Home => \A i \in 1..Len(q) : q[i].own \/ q[i].by >= 1
      <4> SUFFICES ASSUME last = Home, NEW i \in 1..Len(q) PROVE q[i].own \/ q[i].by >= 1
        OBVIOUS
      <4>1. i + 1 \in 1..Len(queue)
        BY <2>2, <3>4
      <4> QED
        BY <2>1, <3>4, <4>1 DEF NavLeads, Leads
    <3>6. last # Home => Len(q) = 0
      <4>1. Len(q) \in Nat
        BY <3>4, QueueDomain
      <4> QED
        BY <2>1, <2>2, <3>4, <4>1 DEF NavLeads
    <3>7. CASE queue' = q
      BY <2>1, <3>4, <3>5, <3>6, <3>7 DEF NavLeads, Leads
    <3>8. ASSUME NEW back, Refused(q, to, back) PROVE NavLeads'
      <4>1. PICK t : t = [by |-> back, own |-> FALSE]
        OBVIOUS
      <4>2. t \in Traversals /\ ~t.own /\ t.by = back
        BY <3>8, <4>1 DEF Traversals, Refused
      <4>3. PICK w : w = queue'
        OBVIOUS
      <4>4. /\ w \in Seq(Traversals) /\ Len(w) = Len(q) + 1 /\ w[Len(q) + 1] = t
            /\ \A i \in 1..Len(q) : w[i] = q[i]
        BY <3>4, <3>8, <4>1, <4>2, <4>3, QueueGrows DEF Refused
      <4>5. current' = to /\ last' = last /\ moves' = moves
            /\ IF last = Home THEN back >= 1 ELSE to # Home /\ Homeward(back, to)
        BY <3>4, <3>8 DEF Refused
      <4>6. CASE last = Home
        <5>1. \A i \in 1..Len(w) : w[i].own \/ w[i].by >= 1
          <6>1. \A i \in 1..Len(q) : w[i].own \/ w[i].by >= 1
            BY <3>5, <4>4, <4>6
          <6>2. w[Len(q) + 1].by >= 1
            BY <4>2, <4>4, <4>5, <4>6
          <6>3. Len(q) \in Nat
            BY <3>4, QueueDomain
          <6>4. ASSUME NEW i \in 1..Len(w) PROVE i \in 1..Len(q) \/ i = Len(q) + 1
            BY <4>4, <6>3
          <6> QED
            BY <6>1, <6>2, <6>4, Zenon
        <5> QED
          BY <2>1, <4>3, <4>5, <4>6, <5>1 DEF NavLeads, Leads
      <4>7. CASE last # Home
        <5>1. Len(w) = 1 /\ w[1] = t
          BY <3>6, <4>4, <4>7
        <5>2. \A i \in 1..Len(w) : ~w[i].own /\ Homeward(w[i].by, to) /\ to # Home
          BY <4>2, <4>5, <4>7, <5>1
        <5> QED
          BY <2>1, <4>3, <4>5, <4>7, <5>1, <5>2 DEF NavLeads, Leads, Homeward
      <4> QED
        BY <4>6, <4>7
    <3> QED
      BY <3>4, <3>7, <3>8 DEF Passed
  <2> QED
    BY <2>4, <2>5, <2>6, <2>7 DEF NavNext
<1> QED
  BY <1>2, <1>3
\* The two measures, in integers.
LEMMA MeasuresTyped ==
  ASSUME NavTyped, NavLeads
  PROVE  /\ moves \in 0..MaxMoves /\ current \in Int /\ Away \in Nat
         /\ Cardinality(Owns(queue)) \in Nat /\ OwnLeft \in Nat
<1>1. queue \in Seq(Traversals) /\ current \in Int /\ moves \in 0..MaxMoves
      /\ Home \in Nat /\ MaxMoves \in Nat
  BY NavigationConstants DEF NavTyped, NavLeads, Entries
<1>2. Cardinality(Owns(queue)) \in Nat
  <2>1. CASE queue = <<>>
    <3>1. Owns(queue) = {}
      BY <1>1, <2>1, QueueDomain DEF Owns
    <3> QED
      BY <3>1, FS_EmptySet
  <2>2. CASE queue # <<>>
    BY <1>1, <2>2, OwnsTail
  <2> QED
    BY <2>1, <2>2
<1> QED
  BY <1>1, <1>2 DEF Away, OwnLeft

\* The guard's traversals lead toward the editor.
LEMMA LeadsNearer ==
  ASSUME NavTyped, NEW h \in Traversals, ~h.own, Leads(h), NEW to \in Entries,
         to = current + h.by, current' = to
  PROVE  Away' < Away
<1>1. current \in Int /\ Home \in Int /\ h.by \in Int /\ to \in 0..last /\ last \in Int
  BY NavigationConstants DEF NavTyped, Entries, Traversals
<1>2. CASE last = Home
  <2>1. h.by >= 1
    BY <1>2 DEF Leads
  <2> QED
    BY <1>1, <1>2, <2>1 DEF Away
<1>3. CASE last # Home
  <2>1. Homeward(h.by, current) /\ current # Home
    BY <1>3 DEF Leads
  <2> QED
    BY <1>1, <2>1 DEF Away, Homeward
<1> QED
  BY <1>2, <1>3

Nearer ==
  \/ UNCHANGED <<moves, queue, current>>
  \/ OwnLeft' < OwnLeft
  \/ OwnLeft' = OwnLeft /\ Away' < Away
  \/ OwnLeft' = OwnLeft /\ Away' = Away /\ Len(queue') < Len(queue)

LEMMA TraverseNearer ==
  ASSUME NavTyped, NavLeads, NEW by \in -2..2 \ {0}, Traverse(by)
  PROVE  OwnLeft' < OwnLeft
<1>1. PICK t : t = [by |-> by, own |-> TRUE]
  OBVIOUS
<1>2. t \in Traversals /\ t.own
  BY <1>1 DEF Traversals
<1>3. queue \in Seq(Traversals) /\ moves \in Int /\ MaxMoves \in Int
  BY NavigationConstants, MeasuresTyped DEF NavTyped
<1>4. queue' = queue \o <<t>> /\ moves' = moves + 1
  BY <1>1, <1>2, <1>3, QueueGrows DEF Traverse
<1>5. PICK n : n = Cardinality(Owns(queue))
  OBVIOUS
<1>6. n \in Nat /\ Cardinality(Owns(queue')) = n + 1
  BY <1>2, <1>3, <1>4, <1>5, OwnsGrow
<1>7. OwnLeft = 2 * (MaxMoves - moves) + n
  BY <1>5 DEF OwnLeft
<1>8. OwnLeft' = 2 * (MaxMoves - moves') + (n + 1)
  BY <1>6 DEF OwnLeft
<1> QED
  BY <1>3, <1>4, <1>6, <1>7, <1>8

LEMMA StepNearer ==
  ASSUME Untracked \subseteq 0..(Home - 1), ~native, NavTyped, NavSound, NavLeads, Step
  PROVE  Nearer
<1>1. PICK h : h = queue[1]
  OBVIOUS
<1>2. PICK q : q = Tail(queue)
  OBVIOUS
<1>3. PICK to : to = current + h.by
  OBVIOUS
<1>4. /\ queue # <<>> /\ h \in Traversals /\ q \in Seq(Traversals)
      /\ Len(q) = Len(queue) - 1 /\ \A i \in 1..Len(q) : q[i] = queue[i + 1]
      /\ UNCHANGED <<last, moves>> /\ Leads(h) /\ to \in Int
      /\ \/ UNCHANGED <<current, shown>> /\ queue' = q
         \/ to \in Entries /\ Passed(q, to)
         \/ to \in Entries /\ \E back : Refused(q, to, back)
  BY <1>1, <1>2, <1>3, StepForms, Zenon
<1>5. queue \in Seq(Traversals) /\ Len(queue) \in Nat /\ moves \in Int /\ MaxMoves \in Int
  BY NavigationConstants, MeasuresTyped, QueueDomain DEF NavTyped
<1>6. PICK n : n = Cardinality(Owns(q))
  OBVIOUS
<1>7. PICK d : d = Cardinality(Owns(queue))
  OBVIOUS
<1>8. n \in Nat /\ d \in Nat /\ n = d - (IF h.own THEN 1 ELSE 0)
  <2>1. Head(queue) = h
    BY <1>1, <1>4, <1>5, QueueTail
  <2> QED
    BY <1>2, <1>4, <1>5, <1>6, <1>7, <2>1, OwnsTail
<1>9. Cardinality(Owns(queue')) = n
  <2>1. CASE queue' = q
    BY <1>6, <2>1
  <2>2. ASSUME NEW back, Refused(q, to, back) PROVE Cardinality(Owns(queue')) = n
    <3>1. PICK t : t = [by |-> back, own |-> FALSE]
      OBVIOUS
    <3>2. t \in Traversals /\ t.own = FALSE
      BY <2>2, <3>1 DEF Traversals, Refused
    <3>3. queue' = q \o <<t>>
      BY <2>2, <3>1 DEF Refused
    <3>4. q \in Seq(Traversals)
      BY <1>4
    <3>5. Cardinality(Owns(q \o <<t>>)) = n + (IF t.own THEN 1 ELSE 0)
      BY <1>6, <3>2, <3>4, OwnsGrow, Zenon
    <3>6. Cardinality(Owns(q \o <<t>>)) = n
      BY <1>8, <3>2, <3>5
    <3> QED
      BY <3>3, <3>6, Zenon
  <2> QED
    BY <1>4, <2>1, <2>2 DEF Passed
<1>10. OwnLeft = 2 * (MaxMoves - moves) + d
  BY <1>7 DEF OwnLeft
<1>11. OwnLeft' = 2 * (MaxMoves - moves) + n
  BY <1>4, <1>9 DEF OwnLeft
<1>12. CASE h.own
  <2>1. OwnLeft' < OwnLeft
    BY <1>5, <1>8, <1>10, <1>11, <1>12
  <2> QED
    BY <2>1 DEF Nearer
<1>13. CASE ~h.own
  <2>1. OwnLeft' = OwnLeft
    BY <1>5, <1>8, <1>10, <1>11, <1>13
  <2>2. CASE UNCHANGED current /\ queue' = q
    <3>1. Away' = Away
      BY <2>2 DEF Away
    <3>2. Len(queue') < Len(queue)
      BY <1>4, <1>5, <2>2
    <3> QED
      BY <2>1, <3>1, <3>2 DEF Nearer
  <2>3. CASE to \in Entries /\ current' = to
    BY <1>3, <1>4, <1>13, <2>1, <2>3, LeadsNearer DEF Nearer
  <2> QED
    BY <1>4, <2>2, <2>3 DEF Passed, Refused
<1> QED
  BY <1>12, <1>13

\* From the moment a traversal is asked for, each step of such a tab brings it
\* nearer to rest, in an order that has no infinite descent, when the owner
\* waits for rest wherever there are entries ahead of the editor's and the
\* entries without a position are those behind it: the guard's traversals
\* lead home from wherever they start, and it never chases its own
\* (reverseSteps and the popstate listener, useUnsavedChanges.ts:126-198).
THEOREM TabComesToRest ==
  ASSUME Untracked \subseteq 0..(Home - 1), ~Hurry
  PROVE  NavSpec => /\ [](~native => OwnLeft \in Nat /\ Away \in Nat)
                    /\ ComesToRest
<1>1. NavInv /\ NavWays => (~native => OwnLeft \in Nat /\ Away \in Nat)
  BY MeasuresTyped DEF NavInv, NavWays
<1>2. NavInv /\ NavWays /\ [NavNext]_navVars
        => [~native /\ queue # <<>> => Nearer]_navVars
  <2> SUFFICES ASSUME NavInv, NavWays, NavNext, ~native, queue # <<>> PROVE Nearer
    OBVIOUS
  <2>1. NavTyped /\ NavSound /\ NavLeads
    BY DEF NavInv, NavWays
  <2>2. CASE Edit \/ Save \/ ClickLink
    BY <2>2 DEF Edit, Save, ClickLink, Nearer
  <2>3. ASSUME NEW by \in -2..2 \ {0}, Traverse(by) PROVE Nearer
    BY <2>1, <2>3, TraverseNearer DEF Nearer
  <2>4. CASE Step
    BY <2>1, <2>4, StepNearer
  <2> QED
    BY <2>2, <2>3, <2>4 DEF NavNext
<1> QED
  BY <1>1, <1>2, NavStarts, NavKeeps, WaysStart, WaysKept, PTL DEF NavSpec, ComesToRest, Nearer

==============================================================================
