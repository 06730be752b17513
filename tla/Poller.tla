------------------------------- MODULE Poller -------------------------------
(***************************************************************************)
(* The owner dashboard's poller in the browser                             *)
(* (src/components/dashboard/observability/polling.ts).                    *)
(*                                                                         *)
(* A poll fetches all resources at once.  Between its awaits the page may  *)
(* be hidden, go offline, stop or restart the poller, or end the session;  *)
(* a response that arrived before an abort is still looked at.             *)
(*                                                                         *)
(* Abstractions.  `cycle` is only ever compared with the cycle a poll      *)
(* began with, so a poll carries whether they are equal.  A resource is    *)
(* its version, its ETag the same version; the server publishes new        *)
(* versions of all resources together.  Delays are left out.  A signal and *)
(* its event are one step.                                                 *)
(***************************************************************************)
EXTENDS Integers, FiniteSets

CONSTANTS
  Resources,  \* what a poll fetches
  MaxVersion, \* bound: versions of a resource
  MaxPolls    \* bound: polls with unsettled fetches

ASSUME PollerConstants == {MaxVersion, MaxPolls} \subseteq Nat \ {0}

VARIABLES
  running, expired, inFlight, timer,  \* the poller's own; timer: is it set?
  polls,       \* unfinished polls, and finished ones with unsettled fetches
  view,        \* the snapshot: data, etags, status
  visible, online,
  content,     \* the version the server has
  session      \* is the owner's session valid?

poller == <<running, expired, inFlight, timer>>
page == <<visible, online>>
world == <<content, session>>
vars == <<poller, polls, view, page, world>>

-----------------------------------------------------------------------------
Versions == 1..MaxVersion
None == 0
Statuses == {"idle", "loading", "ready", "paused", "offline", "error", "auth-expired"}

\* A fetch: the ETag it sent, how far it is, and the version it was answered.
Fetch == [etag : Versions \cup {None}, version : Versions \cup {None},
          at : {"sent", "200", "304", "401", "body", "done", "failed"}]
Pending(f) == f.at \notin {"done", "failed"}

\* A poll is current while no later cycle has begun, and open while its
\* function waits for the fetches.
Poll == [current : BOOLEAN, open : BOOLEAN, fetch : [Resources -> Fetch]]
Slots == 1..MaxPolls
NoPoll == [current |-> FALSE, open |-> FALSE, fetch |-> <<>>]
Open(s) == polls[s].open
Fetching(s, r) == polls[s] # NoPoll /\ Pending(polls[s].fetch[r])

\* A slot is free again when nothing of its poll is left.
Tidy(p) == IF p = NoPoll \/ p.open \/ \E r \in Resources : Pending(p.fetch[r])
             THEN p ELSE NoPoll

Wiped == [r \in Resources |-> None]
Status(status) == [view EXCEPT !.status = status]

Active == running /\ ~expired /\ visible /\ online

Init ==
  /\ running = FALSE /\ expired = FALSE /\ inFlight = FALSE /\ timer = FALSE
  /\ polls = [s \in Slots |-> NoPoll]
  /\ view = [data |-> [r \in Resources |-> 1], etags |-> Wiped, status |-> "idle"]
  /\ visible = TRUE /\ online = TRUE
  /\ content = 1 /\ session = TRUE

-----------------------------------------------------------------------------
(* What the handlers share.                                                *)

\* A new cycle: polls under way are superseded.
Superseding(p) == IF p = NoPoll THEN p ELSE [p EXCEPT !.current = FALSE]

\* Aborted fetches are rejected at once, unless their response has arrived.
Failed == [etag |-> None, version |-> None, at |-> "failed"]
Aborted(p) ==
  IF p = NoPoll THEN p
  ELSE Tidy([p EXCEPT !.fetch = [r \in Resources |->
               IF @[r].at \in {"sent", "body"} THEN Failed ELSE @[r]]])

\* Mutant: the abort forgets the flag.
AbortHalf ==
  polls' = [s \in Slots |-> Superseding(Aborted(polls[s]))] /\ UNCHANGED inFlight
\* abortCurrentCycle
Abort == polls' = [s \in Slots |-> Superseding(Aborted(polls[s]))] /\ inFlight' = FALSE

\* poll(), up to its await.
Begin ==
  /\ \E s \in Slots :
       /\ polls[s] = NoPoll
       /\ polls' = [t \in Slots |->
            IF t # s THEN Superseding(polls[t])
            ELSE [current |-> TRUE, open |-> TRUE,
                  fetch |-> [r \in Resources |->
                    [etag |-> view.etags[r], version |-> None, at |-> "sent"]]]]
  /\ inFlight' = TRUE
  /\ view' = Status("loading")

BeginIfIdle == IF Active /\ ~inFlight THEN Begin ELSE UNCHANGED <<polls, inFlight, view>>

-----------------------------------------------------------------------------
(* The page.                                                               *)

Start ==
  /\ ~running /\ ~expired
  /\ running' = TRUE
  /\ \/ ~online /\ view' = Status("offline") /\ UNCHANGED <<polls, inFlight>>
     \/ online /\ ~visible /\ view' = Status("paused") /\ UNCHANGED <<polls, inFlight>>
     \/ online /\ visible /\ Begin
  /\ UNCHANGED <<expired, timer, page, world>>

Stop ==
  /\ running
  /\ running' = FALSE /\ timer' = FALSE
  /\ Abort
  /\ UNCHANGED <<expired, view, page, world>>

Refresh ==
  /\ Active /\ ~inFlight
  /\ Begin
  /\ UNCHANGED <<running, expired, timer, page, world>>

TimerFires ==
  /\ timer /\ timer' = FALSE
  /\ BeginIfIdle
  /\ UNCHANGED <<running, expired, page, world>>

Listening == running /\ ~expired

\* onVisibility(false) and onOnline(false)
Leaves(status) ==
  IF Listening
    THEN /\ timer' = FALSE /\ Abort /\ view' = Status(status)
    ELSE UNCHANGED <<timer, polls, inFlight, view>>

Hide ==
  /\ visible /\ visible' = FALSE
  /\ Leaves("paused")
  /\ UNCHANGED <<running, expired, online, world>>

GoOffline ==
  /\ online /\ online' = FALSE
  /\ Leaves("offline")
  /\ UNCHANGED <<running, expired, visible, world>>

\* onVisibility(true)
Show ==
  /\ ~visible /\ visible' = TRUE
  /\ timer' = IF Listening THEN online /\ ~inFlight ELSE timer
  /\ UNCHANGED <<running, expired, inFlight, polls, view, online, world>>

\* onOnline(true)
GoOnline ==
  /\ ~online /\ online' = TRUE
  /\ IF Listening /\ visible /\ ~inFlight
       THEN timer' = FALSE /\ Begin
       ELSE /\ timer' = (timer /\ ~Listening)
            /\ UNCHANGED <<polls, inFlight, view>>
  /\ UNCHANGED <<running, expired, visible, world>>

-----------------------------------------------------------------------------
(* fetchJson.                                                              *)

At(s, r, at) ==
  Tidy([polls[s] EXCEPT !.fetch[r] = IF at = "failed" THEN Failed ELSE [@ EXCEPT !.at = at]])

\* The server answers a request that was not aborted.  The response is on its
\* way, or waits for its turn in the event loop, until it is looked at.
Answers(s, r) ==
  LET f == polls[s].fetch[r]
      Becomes(at) == polls' = [polls EXCEPT ![s].fetch[r].at = at,
                                            ![s].fetch[r].version = content]
  IN  /\ polls[s].current /\ f.at = "sent"
      /\ \/ ~session /\ Becomes("401")
         \/ session /\ f.etag = content /\ Becomes("304")
         \/ session /\ f.etag # content /\ Becomes("200")
      /\ UNCHANGED <<poller, view, page, world>>

\* Mutant: a late response is not told from a current one.
SupersededNever(s) == FALSE
Superseded(s) == ~polls[s].current \/ ~running

\* expireAuthentication
ExpireAuthentication(s, r) ==
  /\ expired' = TRUE /\ timer' = FALSE /\ inFlight' = FALSE
  /\ polls' = [t \in Slots |-> IF t = s THEN Superseding(Aborted(At(s, r, "failed")))
                               ELSE Superseding(Aborted(polls[t]))]
  /\ view' = [data |-> Wiped, etags |-> Wiped, status |-> "auth-expired"]
  /\ UNCHANGED running

Settles(s, r, at) ==
  polls' = [polls EXCEPT ![s] = At(s, r, at)] /\ UNCHANGED <<poller, view>>

\* The response is looked at.
Looks(s, r) ==
  /\ polls[s] # NoPoll
  /\ LET at == polls[s].fetch[r].at
     IN  \/ /\ at \in {"200", "304", "401"} /\ Superseded(s)
            /\ Settles(s, r, "failed")
         \/ at = "401" /\ ~Superseded(s) /\ ExpireAuthentication(s, r)
         \/ at = "304" /\ ~Superseded(s) /\ Settles(s, r, "done")
         \/ at = "200" /\ ~Superseded(s) /\ Settles(s, r, "body")
  /\ UNCHANGED <<page, world>>

\* The body has been read and parsed.
Reads(s, r) ==
  /\ polls[s] # NoPoll /\ polls[s].fetch[r].at = "body"
  /\ Settles(s, r, IF Superseded(s) THEN "failed" ELSE "done")
  /\ UNCHANGED <<page, world>>

\* An error of the network or the server, a body that does not parse, or the
\* ten seconds over.
Fails(s, r) ==
  /\ polls[s].current /\ Fetching(s, r)
  /\ Settles(s, r, "failed")
  /\ UNCHANGED <<page, world>>

-----------------------------------------------------------------------------
(* poll(), after its await.                                                *)

\* finally
Finally(s, p) ==
  /\ polls' = [polls EXCEPT ![s] = Tidy([p EXCEPT !.open = FALSE])]
  /\ IF polls[s].current
       THEN inFlight' = FALSE /\ timer' = Active
       ELSE UNCHANGED <<inFlight, timer>>
  /\ UNCHANGED <<running, expired, page, world>>

\* A 304 leaves what is shown, and the ETag, as they are.
Shown(r, f) == IF f.etag = f.version THEN view.data[r] ELSE f.version

Ignored(s) == Superseded(s) \/ expired

Succeeds(s) ==
  /\ Open(s) /\ \A r \in Resources : polls[s].fetch[r].at = "done"
  /\ view' = IF Ignored(s) THEN view
             ELSE [data |-> [r \in Resources |-> Shown(r, polls[s].fetch[r])],
                   etags |-> [r \in Resources |-> polls[s].fetch[r].version],
                   status |-> IF ~online THEN "offline"
                              ELSE IF ~visible THEN "paused" ELSE "ready"]
  /\ Finally(s, polls[s])

\* Mutant: the ETags of answered fetches are kept although the poll fails.
AfterFailureSaving(s, status) ==
  [Status(status) EXCEPT !.etags = [r \in Resources |->
     IF polls[s].fetch[r].at = "done" THEN polls[s].fetch[r].version ELSE @[r]]]
AfterFailure(s, status) == Status(status)

\* The first failure ends the poll and aborts its other fetches.
Gives(s) ==
  /\ Open(s) /\ \E r \in Resources : polls[s].fetch[r].at = "failed"
  /\ view' = IF Ignored(s) THEN view ELSE AfterFailure(s, IF online THEN "error" ELSE "offline")
  /\ Finally(s, IF Ignored(s) THEN polls[s] ELSE Aborted(polls[s]))

-----------------------------------------------------------------------------
(* The server.                                                             *)

Changes ==
  /\ content < MaxVersion
  /\ content' = content + 1
  /\ UNCHANGED <<poller, polls, view, page, session>>

SessionEnds ==
  /\ session /\ session' = FALSE
  /\ UNCHANGED <<poller, polls, view, page, content>>

Fault == \E s \in Slots, r \in Resources : Fails(s, r)
Work(s) ==
  \/ \E r \in Resources : \/ Answers(s, r) \/ Looks(s, r) \/ Reads(s, r)
  \/ Succeeds(s) \/ Gives(s)

Next ==
  \/ Start \/ Stop \/ Refresh \/ TimerFires
  \/ Hide \/ Show \/ GoOffline \/ GoOnline
  \/ \E s \in Slots : Work(s)
  \/ Fault \/ Changes \/ SessionEnds

\* The event loop: timers fire, and what has arrived is looked at.
Fairness == WF_vars(TimerFires) /\ \A s \in Slots : WF_vars(Work(s))
Spec == Init /\ [][Next]_vars /\ Fairness

-----------------------------------------------------------------------------
(* Properties.                                                             *)

\* The variables have their types, and data is only missing once expired.
TypeOK ==
  /\ {running, expired, inFlight, timer, visible, online, session} \subseteq BOOLEAN
  /\ \A s \in Slots : polls[s] \in Poll \cup {NoPoll}
  /\ view.data \in [Resources -> Versions \cup {None}]
  /\ view.etags \in [Resources -> Versions \cup {None}]
  /\ view.status \in Statuses /\ (view.status = "auth-expired" <=> expired)
  /\ (\E r \in Resources : view.data[r] = None) => expired
  /\ content \in Versions

\* "Requests are serialized; a second poll never starts while one is in
\* flight": the flag stands for exactly one poll, the one whose answer will
\* count, and no request of an earlier poll is still under way.
OneInFlight ==
  /\ \A s \in Slots, r \in Resources :
       polls[s] # NoPoll /\ polls[s].fetch[r].at = "sent" => polls[s].current /\ Open(s)
  /\ Cardinality({s \in Slots : polls[s].current /\ Open(s)}) = IF inFlight THEN 1 ELSE 0
  /\ inFlight \/ timer => ~expired
  /\ inFlight => Active

\* A version is only confirmed by an ETag while it is what is shown.
EtagOfShown ==
  \A r \in Resources : view.etags[r] # None => view.data[r] = view.etags[r]

\* Once the session has expired nothing of the owner's data comes back.
ExpiredShowsNothing == expired => view.data = Wiped /\ view.etags = Wiped

\* Late responses never bring an older version back.
NeverOlder ==
  [][\A r \in Resources : view'.data[r] # None => view'.data[r] >= view.data[r]]_vars

\* "loading" always ends: it is shown only while a poll is in flight.
LoadingEnds == running /\ view.status = "loading" => inFlight

\* A dashboard that is looked at never falls silent: while it is shown, online
\* and with a session, a poll is in flight or the timer of the next one is set,
\* whatever was aborted, superseded or failed before.
NeverSilent == Active => inFlight \/ timer

\* Polls are serialized (polling.ts:221), whatever starts and ends them, and
\* what is shown of them is true.
PollsSerialized == TypeOK /\ OneInFlight /\ LoadingEnds

\* Whatever starts and ends polls, what they leave on the screen and in the
\* cache of ETags is true, and the owner's alone, and there are more to come.
PollerHonest == PollsSerialized /\ EtagOfShown /\ ExpiredShowsNothing /\ NeverSilent

\* While the dashboard is looked at, online, with a valid session, and nothing
\* fails, it comes to show what the server has.
CatchesUp ==
  <>[]Active /\ <>[][~Fault]_vars => <>[](\A r \in Resources : view.data[r] = content)
=============================================================================
