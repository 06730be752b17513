---------------------------- MODULE SeriesReader ----------------------------
(***************************************************************************)
(* The owner's history: readSeriesV2 and its helpers of                    *)
(* src/lib/metrics/v2/reader.ts, parseSeriesV2 of v2/schema.ts and the     *)
(* route app/api/owner/metrics, reading the files of Projections while the *)
(* daemon publishes them.                                                  *)
(*                                                                         *)
(* The reader takes the time, reads the manifest and then one file after  *)
(* the other; between two of them the daemon may publish, or stop.         *)
(*                                                                         *)
(* Abstractions, besides those of Projections.  The value of a bucket is   *)
(* the set of cycles it was computed from: the open bucket is computed     *)
(* anew at every cycle.  The workloads a file names and their labels do    *)
(* not change within a day.  Sizes in bytes stay below their caps.         *)
(***************************************************************************)
EXTENDS Projections

CONSTANTS
  Span,       \* RANGE_MS of a query that reads daily chunks, in cycles
  Candidates, \* configured workloads
  MaxRanked   \* how many of them a file names, MAX_RANKED_WORKLOADS

ASSUME SeriesConstants == Span \in Nat \ {0} /\ MaxRanked \in Nat

VARIABLES
  time,     \* the time, in cycles
  recorded, \* the cycles with rows
  named,    \* the workloads a day's chunk names, each with its label
  page      \* one request: [pc, at, view, todo, got, due, answer]

seriesVars == <<fileVars, time, recorded, named, page>>

-----------------------------------------------------------------------------
SeriesViews == {"host", "workloads"}
NoAnswer == [kind |-> "none", shown |-> {}]
NoPage == [pc |-> "idle", at |-> 0, view |-> "host", todo |-> {}, got |-> {}, due |-> {},
           answer |-> NoAnswer]
NoSeries(kind) == [NoPage EXCEPT !.answer = [kind |-> kind, shown |-> {}]]

\* The series a chunk may name: MaxRanked workloads, under either label.
Named == {{<<w, label>> : w \in ranked} :
            ranked \in kSubset(MaxRanked, Candidates), label \in {"old", "new"}}

SeriesInit ==
  /\ FilesInit /\ time = 1 /\ page = NoPage
  /\ recorded = {} /\ named = [d \in Days |-> {}]

ClockTicks ==
  /\ time < MaxCycle /\ time' = time + 1
  /\ UNCHANGED <<fileVars, recorded, named, page>>

\* The present cycle is committed.  Which workloads rank highest changes, and
\* so does, with a new configuration, their label.
Commits ==
  /\ CommitCycle
  /\ Latest' = time
  /\ recorded' = recorded \cup {time}
  /\ \E series \in IF named[DayOf(time)] = {} THEN Named ELSE {named[DayOf(time)]} :
       named' = [named EXCEPT ![DayOf(time)] = series]
  /\ UNCHANGED <<time, page>>

Publishes == (WriteFile \/ PublicationStops) /\ UNCHANGED <<time, recorded, named, page>>

-----------------------------------------------------------------------------
\* The cycles that the values of the chunk of c's day made at cycle c count.
Covered(c) == {y \in recorded : y <= c /\ DayOf(y) = DayOf(c)}

\* Mutant: only days that begin within the window are read.
BegunWithin(d, at) == d * Day <= at /\ d * Day > at - Span
\* filesForQuery: the day has begun and ends within the window.
Overlaps(d, at) == d * Day <= at /\ (d + 1) * Day > at - Span

\* mergeSeries: from the first slot after the window's start to the present.
QueryWindow(at) == (((at - Span) \div Bucket) + 1)..BucketOf(at)
WithinQuery(counted, at) == {y \in counted : BucketOf(y) \in QueryWindow(at)}

Listed(at) == {d \in dir[Manifest] : Overlaps(d, at)}
\* What has been published for that window.
Due(at) ==
  WithinQuery(UNION {Covered(c) : c \in UNION {dir[Chunk(d)] : d \in dir[Manifest]}}, at)

\* The manifest is read.
Asks ==
  /\ page.pc = "idle"
  /\ \E view \in SeriesViews :
       page' = IF Listed(time) = {} THEN NoSeries("unavailable")
               ELSE [pc |-> "read", at |-> time, view |-> view, todo |-> Listed(time),
                     got |-> {}, due |-> Due(time), answer |-> NoAnswer]
  /\ UNCHANGED <<fileVars, time, recorded, named>>

\* readCappedJson, in the order of the paths; a file that is gone ends it.
ReadsChunk ==
  /\ page.pc = "read"
  /\ \E d \in page.todo :
       /\ \A e \in page.todo : d <= e
       /\ page' = IF dir[Chunk(d)] = Absent THEN NoSeries("unavailable")
                  ELSE [page EXCEPT !.todo = @ \ {d}, !.got = @ \cup dir[Chunk(d)]]
  /\ UNCHANGED <<fileVars, time, recorded, named>>

\* assertNotFuture: a chunk and its values are dated by the beginning of their
\* buckets, so one replaced later within the bucket of the request is merged.
FromFuture == \E c \in page.got : BucketOf(c) * Bucket > page.at
AllNamed == UNION {named[DayOf(c)] : c \in page.got}
\* "Series metadata changes between chunks."
Relabelled == \E s, t \in AllNamed : s[1] = t[1] /\ s[2] # t[2]
\* parseSeriesV2, to which the merged series goes again.
TooMany == Cardinality(AllNamed) > MaxRanked

\* byTimestamp
Merged(got) == UNION {Covered(c) : c \in got}

Answers ==
  /\ page.pc = "read" /\ page.todo = {}
  /\ page' =
       IF FromFuture THEN NoSeries("future")
       ELSE IF page.view = "workloads" /\ Relabelled THEN NoSeries("relabelled")
       ELSE IF page.view = "workloads" /\ TooMany THEN NoSeries("invalid")
       ELSE [NoPage EXCEPT !.due = page.due,
               !.answer = [kind |-> "series", shown |-> WithinQuery(Merged(page.got), page.at)]]
  /\ UNCHANGED <<fileVars, time, recorded, named>>

SeriesNext == ClockTicks \/ Commits \/ Publishes \/ Asks \/ ReadsChunk \/ Answers

SeriesSpec == SeriesInit /\ [][SeriesNext]_seriesVars

-----------------------------------------------------------------------------
(* Properties.                                                             *)

\* What an owner is shown of the past is what was recorded: the values count
\* recorded cycles only, and every cycle of the window that was published when
\* the request came, although files are replaced while one after the other is
\* read, also within the bucket of the request, when the later chunk is merged
\* with the earlier ones; and no file that the manifest named turns out to be
\* missing.
SeriesTrue ==
  /\ page.answer.kind = "series" =>
       /\ page.answer.shown \subseteq recorded
       /\ page.due \subseteq page.answer.shown
  /\ \A d \in page.todo : dir[Chunk(d)] # Absent

\* docs/superpowers/specs/2026-07-12-frontpage-observability-dashboard-v2-design.md:433,
\* "Oversized responses truncate low-ranked workloads": they are not refused.
OversizedAnswered == page.answer.kind # "invalid"
=============================================================================
