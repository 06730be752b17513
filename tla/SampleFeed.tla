----------------------------- MODULE SampleFeed -----------------------------
(***************************************************************************)
(* The minute samples of version 1, from the collector that writes them to *)
(* the history a visitor sees: write_snapshot of                           *)
(* ops/frontpage-metrics-collector.py, upload of                           *)
(* ops/frontpage-metrics-upload.py, src/lib/metrics/cloudflare-v1-upload.ts*)
(* and cloudflare-store.ts, readMetricsFromDir and normalizedHistory of    *)
(* src/lib/metrics/reader.ts, and compressSamples of CoarseHistoryStrip.   *)
(*                                                                         *)
(* Nothing is locked.  The collector replaces two files one after the      *)
(* other; the uploader reads them, and a page served from the same disk    *)
(* reads them too; requests are lost, or handled long after the client has *)
(* given up.                                                               *)
(*                                                                         *)
(* Abstractions.  One clock, in minutes; a sample is the minute it was     *)
(* taken in, a history the set of its samples.  A generation is named by   *)
(* its digest: here it is the pair itself.  Generations that are no longer *)
(* active are never read again and are not kept.                           *)
(***************************************************************************)
EXTENDS Integers, Sequences, FiniteSetsExt, SequencesExt

CONSTANTS
  Window,    \* HISTORY_WINDOW_MS
  Gap,       \* HISTORY_GAP_THRESHOLD_MS
  Interval,  \* EXPECTED_SAMPLE_INTERVAL_MS
  KeepFor,   \* how long a staged member is kept
  MaxHistory,\* samples the collector keeps
  Cells,     \* MAX_RENDERED_SEGMENTS
  MaxTime,   \* bound: the last minute
  MaxLate    \* bound: requests handled after their client gave up

ASSUME FeedConstants ==
  /\ {Window, Gap, Interval, KeepFor, MaxHistory, Cells} \subseteq Nat \ {0}
  /\ MaxTime \in Nat \ {0} /\ MaxLate \in Nat
  /\ Gap <= 2 * Interval

VARIABLES
  now,
  taken,     \* ghost: every sample the collector has published in latest.json
  files,     \* [latest, history] on the disk of the VPS
  writing,   \* the collector is between its two writes
  client,    \* the uploader: [version, started, todo, got]
  late,      \* requests that wait in the network without a client
  store,     \* the tables: [stage, pair, rows]
  reading    \* a page on the VPS between its two reads: [at, latest]

feedVars == <<now, taken, files, writing, client, late, store, reading>>

-----------------------------------------------------------------------------
Minutes == 1..MaxTime
NoSample == 0
Pairs == [latest : 0..MaxTime, history : SUBSET Minutes]
NoPair == [latest |-> NoSample, history |-> {}]
LastOf(history) == IF history = {} THEN NoSample ELSE Max(history)
Agree(pair) == pair.latest # NoSample /\ LastOf(pair.history) = pair.latest

Names == {"latest", "history"}
NoReading == [at |-> 0, latest |-> NoSample]
Resting(c) == [c EXCEPT !.todo = <<>>, !.got = NoPair]

FeedInit ==
  /\ now = 1 /\ taken = {} /\ files = NoPair /\ writing = FALSE
  /\ client = [version |-> "old", started |-> 0, todo |-> <<>>, got |-> NoPair]
  /\ late = {}
  /\ store = [stage |-> {}, pair |-> NoPair, rows |-> NoPair]
  /\ reading = NoReading

Tick ==
  /\ now < MaxTime /\ now' = now + 1
  /\ UNCHANGED <<taken, files, writing, client, late, store, reading>>

-----------------------------------------------------------------------------
(* The collector: write_snapshot.                                          *)

Collect ==
  /\ ~writing /\ now \notin taken
  /\ taken' = taken \cup {now}
  /\ files' = [files EXCEPT !.latest = now]
  /\ writing' = TRUE
  /\ UNCHANGED <<now, client, late, store, reading>>

\* prune_history
Pruned(history) ==
  {t \in history : Cardinality({u \in history : u > t}) < MaxHistory}

WriteHistory ==
  /\ writing
  /\ files' = [files EXCEPT !.history = Pruned(@ \cup {files.latest})]
  /\ writing' = FALSE
  /\ UNCHANGED <<now, taken, client, late, store, reading>>

\* The collector dies, or cannot write, between its two files.
CollectorStops ==
  /\ writing /\ writing' = FALSE
  /\ UNCHANGED <<now, taken, files, client, late, store, reading>>

-----------------------------------------------------------------------------
(* The endpoint: uploadCloudflareV1.                                       *)

PutOf(name, pair) == [kind |-> "put", name |-> name, pair |-> pair]
CommitOf(pair) == [kind |-> "commit", name |-> "commit", pair |-> pair]
DirectOf(name, pair) == [kind |-> "direct", name |-> name, pair |-> pair]

Unexpired == {m \in store.stage : now - m.at <= KeepFor}
PairsOf(members) == {m.pair : m \in members}

\* A refused member rolls its transaction back, the expiry included.
HasRoom(r) == r.pair \in PairsOf(Unexpired) \/ Cardinality(PairsOf(Unexpired)) < 2
AfterPut(r) ==
  [store EXCEPT !.stage =
    {m \in Unexpired : ~(m.pair = r.pair /\ m.name = r.name)}
      \cup {[pair |-> r.pair, name |-> r.name, at |-> now]}]

Complete(r) == \A n \in Names : \E m \in store.stage : m.pair = r.pair /\ m.name = n

\* Mutant: a generation is only compared with the legacy row.
Unordered(r) == store.pair # NoPair \/ store.rows.latest <= r.pair.latest
\* Not a replay: newer than what is served.
Newer(r) ==
  IF store.pair # NoPair THEN store.pair.latest < r.pair.latest
  ELSE store.rows.latest <= r.pair.latest

AfterCommit(r) ==
  [stage |-> {m \in store.stage : m.pair # r.pair}, pair |-> r.pair, rows |-> r.pair]

Accepts(r) ==
  CASE r.kind = "put" -> HasRoom(r)
    [] r.kind = "commit" -> store.pair = r.pair \/ (Complete(r) /\ Agree(r.pair) /\ Newer(r))
    [] r.kind = "direct" ->
         /\ store.pair = NoPair
         /\ LET time == IF r.name = "latest" THEN r.pair.latest ELSE LastOf(r.pair.history)
                old == IF r.name = "latest" THEN store.rows.latest ELSE LastOf(store.rows.history)
            IN  time # NoSample /\ time >= old

Handled(r) ==
  CASE r.kind = "put" -> AfterPut(r)
    [] r.kind = "commit" -> IF store.pair = r.pair THEN store ELSE AfterCommit(r)
    [] r.kind = "direct" -> [store EXCEPT !.rows[r.name] = r.pair[r.name]]

Handle(r) == store' = IF Accepts(r) THEN Handled(r) ELSE store

-----------------------------------------------------------------------------
(* The uploader.  A one-shot service that a timer starts each minute.      *)

Reads == <<"latest", "history", "latest again", "history again">>
Sends == <<"put latest", "put history", "commit">>
SendsLeft ==
  client.todo # <<>> /\ Head(client.todo) \in {"put latest", "put history", "commit"}
ReadsLeft == client.todo # <<>> /\ ~SendsLeft
FileOf(step) == IF step \in {"latest", "latest again"} THEN "latest" ELSE "history"
Request ==
  CASE Head(client.todo) = "put latest" -> PutOf("latest", client.got)
    [] Head(client.todo) = "put history" -> PutOf("history", client.got)
    [] Head(client.todo) = "commit" -> CommitOf(client.got)

Begin ==
  /\ client.version = "new" /\ client.todo = <<>> /\ client.started # now
  /\ client' = [client EXCEPT !.started = now, !.todo = Reads \o Sends]
  /\ UNCHANGED <<now, taken, files, writing, late, store, reading>>

\* v1_snapshot: the pair must agree, and be the same when read again.
Holds(step, got) ==
  CASE step = "latest" -> files.latest # NoSample
    [] step = "history" -> Agree([got EXCEPT !.history = files.history])
    [] OTHER -> got[FileOf(step)] = files[FileOf(step)]

Read ==
  /\ ReadsLeft
  /\ LET step == Head(client.todo)
     IN  client' = IF Holds(step, client.got)
                     THEN [client EXCEPT !.got[FileOf(step)] = files[FileOf(step)], !.todo = Tail(@)]
                     ELSE Resting(client)
  /\ UNCHANGED <<now, taken, files, writing, late, store, reading>>

\* A request is handled and answered.
Send ==
  /\ SendsLeft
  /\ Handle(Request)
  /\ client' = IF Accepts(Request) /\ Tail(client.todo) # <<>>
                 THEN [client EXCEPT !.todo = Tail(@)] ELSE Resting(client)
  /\ UNCHANGED <<now, taken, files, writing, late, reading>>

\* No answer within 20 seconds: the request is lost, was handled, or waits.
TimesOut ==
  /\ SendsLeft
  /\ client' = Resting(client)
  /\ \/ UNCHANGED <<store, late>>
     \/ Handle(Request) /\ UNCHANGED late
     \/ /\ Cardinality(late) < MaxLate
        /\ late' = late \cup {Request} /\ UNCHANGED store
  /\ UNCHANGED <<now, taken, files, writing, reading>>

Arrives ==
  /\ \E r \in late : Handle(r) /\ late' = late \ {r}
  /\ UNCHANGED <<now, taken, files, writing, client, reading>>

\* A client of the time before generations sends the files one by one.
SendsDirectly ==
  /\ client.version = "old"
  /\ \E n \in Names :
       \/ Handle(DirectOf(n, files)) /\ UNCHANGED late
       \/ /\ Cardinality(late) < MaxLate
          /\ late' = late \cup {DirectOf(n, files)} /\ UNCHANGED store
  /\ UNCHANGED <<now, taken, files, writing, client, reading>>

Upgrade ==
  /\ client.version = "old" /\ client' = [client EXCEPT !.version = "new"]
  /\ UNCHANGED <<now, taken, files, writing, late, store, reading>>

-----------------------------------------------------------------------------
(* The readers.  A page of the Durable Object reads both names in one      *)
(* synchronous step; a page on the VPS reads files another process writes. *)

\* readCloudflareMetric: what the tables hold for a reader.
Served ==
  IF store.pair # NoPair THEN store.pair
  ELSE IF Agree(store.rows) THEN store.rows ELSE NoPair

ReadLatest ==
  /\ reading = NoReading
  /\ reading' = [at |-> now, latest |-> files.latest]
  /\ UNCHANGED <<now, taken, files, writing, client, late, store>>

\* The second read is evaluated in the properties; the page is then sent.
Sent ==
  /\ reading # NoReading
  /\ reading' = NoReading
  /\ UNCHANGED <<now, taken, files, writing, client, late, store>>

FeedNext ==
  \/ Tick \/ Collect \/ WriteHistory \/ CollectorStops
  \/ Begin \/ Read \/ Send \/ TimesOut \/ Arrives \/ SendsDirectly \/ Upgrade
  \/ ReadLatest \/ Sent

FeedSpec == FeedInit /\ [][FeedNext]_feedVars

-----------------------------------------------------------------------------
(* normalizedHistory: a history with its holes.  All of it is a function   *)
(* of the samples, the latest one, and the minute of the request.          *)

InWindow(t, at) == at - Window <= t /\ t <= at

\* Mutant: samples dated after the request are kept.
KeepsFuture(samples, at) == {t \in samples : at - Window <= t}
Kept(samples, at) == {t \in samples : InWindow(t, at)}

\* The latest sample is added when the history lacks it.
Reconciled(samples, latest, at) ==
  latest # NoSample /\ InWindow(latest, at) /\ latest \notin Kept(samples, at)
Entries(samples, latest, at) ==
  Kept(samples, at) \cup (IF Reconciled(samples, latest, at) THEN {latest} ELSE {})

Before(es, t) == LastOf({u \in es : u < t})
GapBefore(es, t, added) == added \/ (Before(es, t) # NoSample /\ t - Before(es, t) > Gap)

View(samples, latest, at) ==
  LET es == Entries(samples, latest, at)
      added(t) == t = latest /\ Reconciled(samples, latest, at)
  IN  [at |-> at, entries |-> es,
       holes |-> {t \in es : GapBefore(es, t, added(t))},
       leading |-> es # {} /\ Min(es) - (at - Window) > Gap,
       trailing |-> es # {} /\ at - Max(es) > Gap]

GapCount(v) ==
  Cardinality(v.holes) + (IF v.leading THEN 1 ELSE 0) + (IF v.trailing THEN 1 ELSE 0)

\* What readers see in this state.  A latest sample of the future is dropped.
Usable(latest, at) == IF latest > at THEN NoSample ELSE latest
Views ==
  {View(Served.history, Served.latest, now)}
    \cup (IF reading = NoReading THEN {}
          ELSE {View(files.history, Usable(reading.latest, reading.at), reading.at)})

-----------------------------------------------------------------------------
(* compressSamples: the strip is painted from segments, in units that make *)
(* midpoints and cell borders whole.                                       *)

Scale == 2 * Cells
Segment(from, to, known) == [from |-> from, to |-> to, known |-> known]
Midpoint(t, u) == Cells * (t + u)

\* Where the colour of sample t ends when `next` follows it.
Reaches(v, t, next) ==
  IF next \in v.holes THEN Min({Midpoint(t, next), Scale * (t + Interval)})
  ELSE Midpoint(t, next)

EndOf(v, t) ==
  LET later == {u \in v.entries : u > t}
  IN  IF later # {} THEN Reaches(v, t, Min(later))
      ELSE IF v.trailing THEN Scale * t ELSE Scale * v.at
StartOf(v, t) ==
  LET earlier == {u \in v.entries : u < t}
  IN  IF earlier = {} THEN (IF v.leading THEN Scale * t ELSE Scale * (v.at - Window))
      ELSE IF t \in v.holes THEN Scale * t
      ELSE Midpoint(Max(earlier), t)

Segments(v) ==
  LET coloured == {Segment(StartOf(v, t), EndOf(v, t), TRUE) : t \in v.entries}
      holes == {Segment(EndOf(v, Before(v.entries, t)), Scale * t, FALSE) :
                  t \in {u \in v.holes : Before(v.entries, u) # NoSample}}
      leading == IF v.leading
                   THEN {Segment(Scale * (v.at - Window), Scale * Min(v.entries), FALSE)} ELSE {}
      trailing == IF v.trailing
                    THEN {Segment(Scale * Max(v.entries), Scale * v.at, FALSE)} ELSE {}
  IN  {s \in coloured \cup holes \cup leading \cup trailing : s.from < s.to}

Cell(v, n) == Segment(Scale * (v.at - Window) + 2 * Window * (n - 1),
                      Scale * (v.at - Window) + 2 * Window * n, TRUE)
Overlap(s, c) == s.to > c.from /\ s.from < c.to

\* A cell that touches a hole is unknown.
AllKnown(over) == over # {} /\ \A s \in over : s.known

\* With too many segments the strip is drawn in cells.
Drawn(v) ==
  LET segments == Segments(v)
  IN  IF Cardinality(segments) <= Cells THEN segments
      ELSE {[Cell(v, n) EXCEPT !.known = AllKnown({s \in segments : Overlap(s, Cell(v, n))})] :
              n \in 1..Cells}

-----------------------------------------------------------------------------
(* Properties.                                                             *)

Members == [pair : Pairs, name : Names, at : Minutes]
Stores == [stage : SUBSET Members, pair : Pairs, rows : Pairs]
Steps == {"latest", "history", "latest again", "history again",
          "put latest", "put history", "commit"}
Clients == [version : {"old", "new"}, started : 0..MaxTime, todo : Seq(Steps), got : Pairs]
FeedTypeOK ==
  /\ now \in Minutes /\ taken \subseteq Minutes /\ files \in Pairs
  /\ client \in Clients /\ store \in Stores
  /\ writing \in BOOLEAN /\ (writing => files.latest \in taken)
  /\ \A r \in late : r.pair \in Pairs /\ r.name \in Names \cup {"commit"}
  /\ \A r \in late : r.kind # "commit" => r.name \in Names

\* "{n} gaps in coverage": a history shown without a gap has none.  Wherever
\* it comes from, whatever was written between two reads, lost on the way or
\* handled late, every stretch of the window as long as the threshold holds
\* a sample that was really taken, and no sample is shown that was not.
CoverageHonest ==
  \A v \in Views :
    /\ v.entries \subseteq taken /\ \A t \in v.entries : InWindow(t, v.at)
    /\ v.entries # {} /\ GapCount(v) = 0 =>
         \A a \in (v.at - Window)..(v.at - Gap) : taken \cap (a..(a + Gap)) # {}

\* The strip never colours a time nobody measured: between two samples a
\* colour reaches one sampling interval, at the ends of the window the
\* threshold, and a cell that stands for many segments hides no hole.
StripHonest ==
  \A v \in Views : \A s \in Drawn(v) : s.known =>
    \A x \in s.from..s.to :
      LET inside == \E t, u \in v.entries : Scale * t <= x /\ x <= Scale * u
          reach == Scale * (IF inside THEN Interval ELSE Gap)
      IN  \E t \in v.entries : x - reach <= Scale * t /\ Scale * t <= x + reach

\* What is served is a whole pair, although its two files are read, sent and
\* stored one by one by clients that are cut off anywhere: its history ends
\* with its latest sample, and at most two generations are ever staged.
ServedWhole ==
  /\ FeedTypeOK
  /\ Served # NoPair => Agree(Served) /\ Served.history \subseteq taken
  /\ Cardinality(PairsOf(store.stage)) <= 2

\* What visitors see of the samples, from the files to the strip.
FeedHonest == CoverageHonest /\ StripHonest /\ ServedWhole

\* What visitors are served never goes back: no late or repeated request of
\* an old or a new client replaces a pair by an older one, and a pair of a
\* generation never becomes unavailable again.
ServedNeverBack ==
  [][/\ Served' # NoPair => Served'.latest >= Served.latest
     /\ store.pair # NoPair => store'.pair # NoPair]_feedVars
=============================================================================
