----------------------------- MODULE Incidents -----------------------------
(***************************************************************************)
(* The incident engine of the metrics daemon and the incidents table of    *)
(* its SQLite store (ops/frontpage_metrics_v2/{incidents,store,daemon}.py).*)
(*                                                                         *)
(* Every cycle the daemon evaluates one observation inside the transaction *)
(* that also stores it, and only then applies the outcome to its memory.   *)
(* It may stop at any point, by a signal or by an exception, which nothing *)
(* catches; the service manager starts it again with the active incidents  *)
(* of the table and with fresh counters.                                   *)
(*                                                                         *)
(* Abstractions.  Time is the number of cycles.  Evidence is kept as the   *)
(* engine's history of observations.  `updated_at_ms` is left out: it      *)
(* takes the way of `severity` through the stored summary.                 *)
(***************************************************************************)
EXTENDS Integers, Sequences, FiniteSets

CONSTANTS
  Services,      \* checked services
  Workloads,     \* observed workloads
  Failures,      \* thresholds.service_failures
  Recoveries,    \* thresholds.service_recoveries
  HistoryPoints, \* MAX_EVIDENCE_POINTS
  Retention,     \* INCIDENT_RETENTION_MS, in cycles
  Observed,      \* bound: the observations a cycle may report
  MaxCycles      \* bound: cycles ever committed

ASSUME IncidentConstants ==
  /\ HistoryPoints \in Nat \ {0} /\ Retention \in Nat \ {0}
  \* 1 to 10 by the configuration's schema, and 21 points
  /\ Failures \in 1 .. HistoryPoints /\ Recoveries \in 1 .. HistoryPoints
  /\ MaxCycles \in Nat

VARIABLES
  pc,        \* "idle", "committed" or "stopped"
  now,       \* ts_ms of the last committed cycle
  rows,      \* the incidents table
  active,    \* CollectorDaemon.active_incidents
  failures, successes,  \* the engine's counters
  history,   \* the engine's history since it started
  outcome    \* the transition set of a committed cycle, until it is applied

incidentVars == <<pc, now, rows, active, failures, successes, history, outcome>>
engine == <<failures, successes, history>>

-----------------------------------------------------------------------------
Statuses == {"up", "down", "unknown"}
DiskUses == {"low", "band", "warning", "critical", "unknown"}
Kills == {"kill", "quiet", "absent"}     \* absent: the workload scan failed

\* What one collection cycle reports.  "band" is the hysteresis below the
\* warning threshold.
Observation == [fresh : BOOLEAN, status : [Services -> Statuses],
                disk : DiskUses, oom : [Workloads -> Kills]]

ASSUME ObservedType == Observed \subseteq Observation

Freshness == <<"collector-freshness", "collector">>
Disk == <<"disk-capacity", "root">>
Down(s) == <<"service-down", s>>
Oom(w) == <<"workload-oom-kill", w>>
Keys == {Freshness, Disk} \cup {Down(s) : s \in Services} \cup {Oom(w) : w \in Workloads}

Severities == {"warning", "critical"}

\* An incident in memory.  `pinned` is the severity its summary carries: a
\* summary read back from the store has one, a fresh one does not.
Incident == [key : Keys, opened : Nat, severity : Severities,
             pinned : Severities \cup {"none"}]
Row == [key : Keys, opened : Nat, severity : Severities, recovered : Nat]
IsActive(row) == row.recovered = 0

NoOutcome == [opened |-> {}, updated |-> {}, recovered |-> {}]
NoCounts == [s \in Services |-> 0]

\* An identifier is a digest of the rule, the target and the opening time.
SameId(i, j) == i.key = j.key /\ i.opened = j.opened

IncidentsInit ==
  /\ pc = "stopped"
  /\ now = 0
  /\ rows = {}
  /\ active = {}
  /\ failures = NoCounts /\ successes = NoCounts
  /\ history = <<>>
  /\ outcome = NoOutcome

-----------------------------------------------------------------------------
(* evaluate                                                                *)

\* Mutant: a check without a result leaves the counters alone.
CountedKnown(counts, o, s, status) ==
  CASE o.status[s] = status -> counts[s] + 1
    [] o.status[s] = "unknown" -> counts[s]
    [] OTHER -> 0
\* One more check of the status counted, or the count starts over.
Counted(counts, o, s, status) == IF o.status[s] = status THEN counts[s] + 1 ELSE 0

Failed(o) == [s \in Services |-> Counted(failures, o, s, "down")]
Succeeded(o) == [s \in Services |-> Counted(successes, o, s, "up")]

DiskSeverity(o) == IF o.disk = "critical" THEN "critical" ELSE "warning"
SeverityOf(key, o) ==
  IF key = Disk THEN DiskSeverity(o)
  ELSE IF key \in {Down(s) : s \in Services} THEN "critical" ELSE "warning"

Failing(o) == {s \in Services : Failed(o)[s] >= Failures}
Recovering(o) == {s \in Services : Succeeded(o)[s] >= Recoveries}

\* The keys a cycle gives reason to open, and to recover.
Alarms(o) ==
  {k \in {Freshness} : ~o.fresh} \cup {Down(s) : s \in Failing(o)}
    \cup {k \in {Disk} : o.disk \in {"warning", "critical"}}
    \cup {Oom(w) : w \in {w \in Workloads : o.oom[w] = "kill"}}
Clears(o) ==
  {k \in {Freshness} : o.fresh} \cup {Down(s) : s \in Recovering(o)}
    \cup {k \in {Disk} : o.disk = "low"}
    \cup {Oom(w) : w \in {w \in Workloads : o.oom[w] = "quiet"}}

ActiveKeys == {i.key : i \in active}

Outcome(o) ==
  [opened |-> {[key |-> k, opened |-> now + 1, severity |-> SeverityOf(k, o),
                pinned |-> "none"] : k \in Alarms(o) \ ActiveKeys},
   updated |-> {[i EXCEPT !.severity = DiskSeverity(o)] :
                  i \in {i \in active : /\ i.key = Disk /\ Disk \in Alarms(o)
                                        /\ i.severity # DiskSeverity(o)}},
   recovered |-> {i \in active : i.key \in Clears(o)}]

-----------------------------------------------------------------------------
(* The store.                                                              *)

\* to_store: what the summary carries hides the incident's own severity.
Stored(i, recovered) ==
  [key |-> i.key, opened |-> i.opened, recovered |-> recovered,
   severity |-> IF i.pinned = "none" THEN i.severity ELSE i.pinned]

Written(out) ==
  {Stored(i, 0) : i \in out.opened \cup out.updated}
    \cup {Stored(i, now + 1) : i \in out.recovered}

\* INSERT OR REPLACE by identifier.
Upserted(new) == {row \in rows : ~\E n \in new : SameId(row, n)} \cup new

Expired(row) == ~IsActive(row) /\ row.recovered + Retention <= now + 1

Appended(o) ==
  LET h == Append(history, o)
  IN  IF Len(h) > HistoryPoints THEN Tail(h) ELSE h

-----------------------------------------------------------------------------
(* The daemon.                                                             *)

\* commit_cycle: store, evaluate and prune in one transaction.
Commit(o) ==
  LET out == Outcome(o)
  IN  /\ pc = "idle" /\ now < MaxCycles
      /\ failures' = Failed(o) /\ successes' = Succeeded(o)
      /\ history' = Appended(o)
      /\ rows' = {row \in Upserted(Written(out)) : ~Expired(row)}
      /\ outcome' = out
      /\ now' = now + 1
      /\ pc' = "committed"
      /\ UNCHANGED active

\* Mutant: recovered incidents stay in memory.
AppliedOpen == {i \in active : ~\E j \in outcome.opened \cup outcome.updated : SameId(i, j)}
                 \cup outcome.opened \cup outcome.updated
Applied ==
  {i \in active : ~\E j \in outcome.opened \cup outcome.updated \cup outcome.recovered :
                    SameId(i, j)}
    \cup outcome.opened \cup outcome.updated

\* _apply_transitions, followed by the publication of the projections.
Apply ==
  /\ pc = "committed"
  /\ active' = Applied
  /\ outcome' = NoOutcome
  /\ pc' = "idle"
  /\ UNCHANGED <<now, rows, engine>>

\* A failed transaction is rolled back, a publication may fail after the
\* commit, and a signal may come at any time: nothing but the store remains.
Stop ==
  /\ pc # "stopped"
  /\ pc' = "stopped"
  /\ active' = {} /\ outcome' = NoOutcome
  /\ failures' = NoCounts /\ successes' = NoCounts /\ history' = <<>>
  /\ UNCHANGED <<now, rows>>

\* read_active_incidents
Loaded == {[key |-> row.key, opened |-> row.opened, severity |-> row.severity,
            pinned |-> row.severity] : row \in {row \in rows : IsActive(row)}}

Start ==
  /\ pc = "stopped"
  /\ pc' = "idle"
  /\ active' = Loaded
  /\ UNCHANGED <<now, rows, engine, outcome>>

IncidentsNext == (\E o \in Observed : Commit(o)) \/ Apply \/ Stop \/ Start

IncidentsSpec == IncidentsInit /\ [][IncidentsNext]_incidentVars

-----------------------------------------------------------------------------
(* Properties.                                                             *)

\* The variables have their types, and the engine's history is bounded.
IncidentsTypeOK ==
  /\ pc \in {"idle", "committed", "stopped"}
  /\ now \in Nat
  /\ rows \subseteq Row
  /\ active \subseteq Incident
  /\ failures \in [Services -> Nat] /\ successes \in [Services -> Nat]
  /\ history \in Seq(Observation) /\ Len(history) <= HistoryPoints
  /\ outcome \in [opened : SUBSET Incident, updated : SUBSET Incident,
                  recovered : SUBSET Incident]

\* One trouble is one incident, however often the daemon stops between a
\* commit and its application or is started again.
OneActivePerKey ==
  \A x, y \in rows : IsActive(x) /\ IsActive(y) /\ x.key = y.key => x = y

\* Between two cycles the daemon's memory and the table list the same
\* active incidents.
MemoryIsStore ==
  pc = "idle" => {<<i.key, i.opened>> : i \in active}
                   = {<<row.key, row.opened>> : row \in {row \in rows : IsActive(row)}}

\* The last n observations of this run of the daemon satisfy P.
Lately(h, n, P(_)) == /\ Len(h) >= n
                      /\ \A m \in Len(h) - n + 1 .. Len(h) : P(h[m])

\* "open after two consecutive failed checks": an outage the running daemon
\* has seen for that long has an active incident in the table.
OutageReported ==
  \A s \in Services :
    Lately(history, Failures, LAMBDA o : o.status[s] = "down") =>
      \E row \in rows : row.key = Down(s) /\ IsActive(row)

\* The engine, its memory and the store together: however often the daemon
\* stops, one trouble is one incident, the memory is the store's, and an
\* outage seen for long enough is in the table.
IncidentsSound == IncidentsTypeOK /\ OneActivePerKey /\ MemoryIsStore /\ OutageReported

OpensOnEvidence(s) ==
  LET was == \E row \in rows : row.key = Down(s) /\ IsActive(row)
      is == \E row \in rows' : row.key = Down(s) /\ IsActive(row)
  IN  /\ ~was /\ is => Lately(history', Failures, LAMBDA o : o.status[s] = "down")
      /\ was /\ ~is => Lately(history', Recoveries, LAMBDA o : o.status[s] = "up")
RecoveredStays(row) == row \in rows' \/ row.recovered + Retention <= now'

\* An incident opens and recovers on consecutive evidence alone: a missing
\* measurement neither opens nor closes one, nor bridges two observations.
\* And a recovered incident is history: its row is never changed or reopened,
\* and stays until its retention ends.
ChangesOnEvidence ==
  [][/\ \A s \in Services : OpensOnEvidence(s)
     /\ \A row \in rows : ~IsActive(row) => RecoveredStays(row)]_incidentVars

\* Design document, line 409, "Disk capacity: warning at 80%, critical at
\* 90%": a disk last seen above 90% is a critical incident in the table the
\* dashboard is built from.
CriticalDiskIsCritical ==
  history # <<>> /\ history[Len(history)].disk = "critical" =>
    \E row \in rows : row.key = Disk /\ IsActive(row) /\ row.severity = "critical"
=============================================================================
