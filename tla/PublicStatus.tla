---------------------------- MODULE PublicStatus ----------------------------
(***************************************************************************)
(* What the site says of the public services: readMetricsFromDir and       *)
(* derivePublicMetrics of src/lib/metrics/reader.ts,                       *)
(* deriveOverallPublicStatus and deriveProjectHealth of status-page.ts,    *)
(* readPublicLatestV2 of v2/reader.ts, createPublicStatusV2 of             *)
(* public-status.ts, src/app/status/page.tsx, Header.tsx and the feed.     *)
(*                                                                         *)
(* Two generations of telemetry are served side by side.  Samples arrive   *)
(* late, out of step with one another or not at all; version 2 is switched *)
(* off and on and half of it may be unreadable; a cache in front of the    *)
(* feed repeats answers.                                                   *)
(*                                                                         *)
(* Abstractions.  Time passes in ticks; what is older than every limit has *)
(* no age of its own.  The reads of one page are a single step: they are   *)
(* synchronous.  A check measures what is true when it is made, or finds   *)
(* nothing out.                                                            *)
(***************************************************************************)
EXTENDS Integers, FiniteSets

CONSTANTS
  Public,     \* the public services
  Steady,     \* those of them that are never down
  Project,    \* the healthServiceIds of a project
  Windows,    \* the maintenance windows, each as its affectedServiceIds
  Fresh1, Gone1, \* FRESH_MS and UNAVAILABLE_MS of version 1
  Fresh2, Gone2, \* the same of version 2
  CacheFor,   \* s-maxage of the feed
  MaxDelay    \* bound: ticks between a measurement and its arrival

ASSUME StatusConstants ==
  /\ Steady \subseteq Public /\ Windows \subseteq SUBSET Public
  /\ {Fresh1, Gone1, Fresh2, Gone2} \subseteq Nat /\ Fresh1 < Gone1 /\ Fresh2 < Gone2
  /\ CacheFor \in Nat /\ MaxDelay \in Nat

VARIABLES
  truth,    \* per service: [up, since], for how many ticks
  sample1,  \* the latest sample of version 1: [age, status, disk]
  latest2,  \* the latest public projection: [age, status, host]
  broken,   \* what cannot be read: "v2" (switched off), "incidents"
  active,   \* the maintenance windows that are in their time
  cached    \* the feed's answer a cache holds: [age, kind]

statusVars == <<truth, sample1, latest2, broken, active, cached>>

-----------------------------------------------------------------------------
Longest == IF Fresh1 > Fresh2 + CacheFor THEN Fresh1 + 2 ELSE Fresh2 + CacheFor + 2
Statuses == {"up", "down", "unknown"}
Aged(age, limit) == IF age < limit THEN age + 1 ELSE age
Unmeasured == [s \in Public |-> "unknown"]
NoAnswer == [age |-> CacheFor + 1, kind |-> "none"]

StatusInit ==
  /\ truth = [s \in Public |-> [up |-> TRUE, since |-> Longest]]
  /\ sample1 = [age |-> Gone1 + 1, status |-> Unmeasured, disk |-> "ok"]
  /\ latest2 = [age |-> Gone2 + 1, status |-> Unmeasured, host |-> FALSE]
  /\ broken = {"v2"} /\ active = {} /\ cached = NoAnswer

TimePasses ==
  /\ truth' = [s \in Public |-> [truth[s] EXCEPT !.since = Aged(@, Longest)]]
  /\ sample1' = [sample1 EXCEPT !.age = Aged(@, Gone1 + 1)]
  /\ latest2' = [latest2 EXCEPT !.age = Aged(@, Gone2 + 1)]
  /\ cached' = IF cached.age >= CacheFor THEN NoAnswer ELSE [cached EXCEPT !.age = @ + 1]
  /\ UNCHANGED <<broken, active>>

Changes ==
  /\ \E s \in Public \ Steady : truth' = [truth EXCEPT ![s] = [up |-> ~@.up, since |-> 0]]
  /\ UNCHANGED <<sample1, latest2, broken, active, cached>>

\* What checks made `delay` ticks ago can have found.
Found(s, delay) ==
  {"unknown"}
    \cup (IF truth[s].up \/ truth[s].since <= delay THEN {"up"} ELSE {})
    \cup (IF ~truth[s].up \/ (s \notin Steady /\ truth[s].since <= delay) THEN {"down"} ELSE {})
Measured(delay) == {m \in [Public -> Statuses] : \A s \in Public : m[s] \in Found(s, delay)}

\* A newer sample of version 1, by upload or on the disk of the VPS.
Arrives1 ==
  /\ \E delay \in 0..MaxDelay : \E m \in Measured(delay), disk \in {"ok", "critical"} :
       /\ delay < sample1.age
       /\ sample1' = [age |-> delay, status |-> m, disk |-> disk]
  /\ UNCHANGED <<truth, latest2, broken, active, cached>>

\* A newer projection; a cycle without a host row is published as well.
Arrives2 ==
  /\ \E delay \in 0..MaxDelay : \E m \in Measured(delay), host \in BOOLEAN :
       /\ delay < latest2.age
       /\ latest2' = [age |-> delay, status |-> m, host |-> host]
  /\ UNCHANGED <<truth, sample1, broken, active, cached>>

\* Version 2 is activated or deactivated; the incidents fail their schema.
Breaks ==
  /\ \E part \in {"v2", "incidents"} :
       broken' = IF part \in broken THEN broken \ {part} ELSE broken \cup {part}
  /\ UNCHANGED <<truth, sample1, latest2, active, cached>>

MaintenanceTurns ==
  /\ \E w \in Windows : active' = IF w \in active THEN active \ {w} ELSE active \cup {w}
  /\ UNCHANGED <<truth, sample1, latest2, broken, cached>>

-----------------------------------------------------------------------------
(* Version 1: freshnessFor, derivePublicMetrics, deriveOverallPublicStatus. *)

\* Mutant: what is stale still counts.
LateIsFresh(age, fresh, gone) == IF age <= gone THEN "fresh" ELSE "unavailable"
Freshness(age, fresh, gone) ==
  IF age <= fresh THEN "fresh" ELSE IF age <= gone THEN "stale" ELSE "unavailable"
Freshness1 == Freshness(sample1.age, Fresh1, Gone1)
Freshness2 == Freshness(latest2.age, Fresh2, Gone2)

\* publicServices: without a fresh sample nothing is known.
Service1(s) == IF Freshness1 = "fresh" THEN sample1.status[s] ELSE "unknown"
Overall1 ==
  CASE Freshness1 = "unavailable" -> "unavailable"
    [] Freshness1 = "stale" -> "delayed"
    [] OTHER ->
         IF \E s \in Public : Service1(s) = "down" THEN "disruption"
         ELSE IF \E s \in Public : Service1(s) = "unknown" THEN "degraded"
         ELSE IF sample1.disk = "critical" THEN "degraded"
         ELSE IF Public # {} THEN "operational" ELSE "no-checks"

\* What the checks of one project say together.
Together(checks) ==
  LET up == {s \in checks : Service1(s) = "up"}
      down == {s \in checks : Service1(s) = "down"}
  IN  IF down = checks THEN "disruption"
      ELSE IF up # {} /\ up # checks THEN "degraded"
      ELSE IF up # checks THEN "unavailable" ELSE "healthy"

\* deriveProjectHealth, with the ids a project names.
ProjectHealth ==
  LET checks == Project \cap Public
  IN  IF checks # Project THEN "unavailable"
      ELSE IF checks = {} THEN "not-monitored"
      ELSE IF Freshness1 # "fresh" THEN "unavailable" ELSE Together(checks)

-----------------------------------------------------------------------------
(* Version 2: the projection's own state, and createPublicStatusV2.        *)

ProjectedState ==
  IF ~latest2.host THEN "unavailable"
  ELSE IF \E s \in Public : latest2.status[s] = "down" THEN "disruption"
  ELSE IF \E s \in Public : latest2.status[s] = "unknown" THEN "degraded" ELSE "operational"

NotFresh == IF Freshness2 = "stale" THEN "delayed" ELSE "unavailable"
\* Mutant: a maintenance window excuses nothing.
NoneExcused == Public
Unexcused == Public \ UNION active

Status2 ==
  IF Freshness2 # "fresh" THEN NotFresh
  ELSE IF \E s \in Unexcused : latest2.status[s] = "down" THEN "disruption"
  ELSE IF active # {} THEN "maintenance"
  ELSE IF \E s \in Unexcused : latest2.status[s] = "unknown" THEN "degraded"
  ELSE ProjectedState

Readable2 == broken = {}
\* The label under the heading of the status page.
Heading ==
  IF Readable2 THEN Status2
  ELSE IF "v2" \notin broken THEN (IF Freshness2 = "fresh" THEN ProjectedState ELSE NotFresh)
  ELSE Overall1
\* The summary below it, and the badge in the header of every page.
Summary == IF Readable2 THEN Status2 ELSE Overall1

\* StatusInventory: the badge of one service in the list further down.
Badge(s) ==
  IF ~Readable2 THEN Service1(s)
  ELSE IF s \in UNION active THEN "maintenance"
  ELSE IF Freshness2 = "fresh" THEN latest2.status[s] ELSE "unknown"

-----------------------------------------------------------------------------
(* The feed: a 503 is not stored, an answer is repeated while it is.       *)

Stored == cached # NoAnswer
Answer == IF Readable2 THEN [age |-> 0, kind |-> Status2] ELSE NoAnswer

FeedAsked ==
  /\ ~Stored /\ cached' = Answer
  /\ UNCHANGED <<truth, sample1, latest2, broken, active>>

StatusNext ==
  \/ TimePasses \/ Changes \/ Arrives1 \/ Arrives2 \/ Breaks \/ MaintenanceTurns \/ FeedAsked

StatusSpec == StatusInit /\ [][StatusNext]_statusVars

-----------------------------------------------------------------------------
(* Properties.                                                             *)

\* Every place that speaks for the services, and how old its evidence may be.
Claims ==
  {[kind |-> Overall1, within |-> Fresh1],
   [kind |-> Summary, within |-> IF Readable2 THEN Fresh2 ELSE Fresh1],
   [kind |-> Heading, within |-> IF "v2" \in broken THEN Fresh1 ELSE Fresh2],
   [kind |-> cached.kind, within |-> Fresh2 + cached.age]}

WasUp(s, within) == truth[s].up \/ truth[s].since <= within
WasDown(s, within) == ~truth[s].up \/ truth[s].since <= within

Kinds == {"operational", "degraded", "disruption", "maintenance", "delayed", "unavailable",
          "no-checks", "none"}
StatusTypeOK ==
  /\ truth \in [Public -> [up : BOOLEAN, since : 0..Longest]]
  /\ sample1 \in [age : 0..(Gone1 + 1), status : [Public -> Statuses], disk : {"ok", "critical"}]
  /\ latest2 \in [age : 0..(Gone2 + 1), status : [Public -> Statuses], host : BOOLEAN]
  /\ broken \subseteq {"v2", "incidents"} /\ active \subseteq Windows
  /\ cached \in [age : 0..(CacheFor + 1), kind : Kinds]

\* "Operational" is never said of a service that has been down for longer
\* than the evidence may be old: not by a page, whichever generation it falls
\* back to, not by a repeated answer of the feed; nor is a project or a
\* service called healthy when it has been down.
HealthWasTrue ==
  /\ StatusTypeOK
  /\ \A c \in Claims : c.kind = "operational" => \A s \in Public : WasUp(s, c.within)
  /\ ProjectHealth = "healthy" => \A s \in Project : WasUp(s, Fresh1)
  /\ \A s \in Public : Badge(s) = "up" => WasUp(s, IF Readable2 THEN Fresh2 ELSE Fresh1)

\* "Service disruption" is never said without a public service that was down
\* within the same limits; and where maintenance is taken into account, not
\* for the services it covers, and it never covers up another one's outage.
AlarmsAreReal ==
  /\ \A c \in Claims : c.kind = "disruption" => \E s \in Public : WasDown(s, c.within)
  /\ Status2 = "disruption" => \E s \in Public \ UNION active : WasDown(s, Fresh2)
  /\ Status2 = "maintenance" =>
       \A s \in Public \ UNION active : latest2.status[s] # "down"
=============================================================================
