---------------------------- MODULE DaemonProofs ----------------------------
(***************************************************************************)
(* The metrics daemon, for every set of services and workloads.            *)
(*                                                                         *)
(* The incident engine, its memory and the store agree, for any thresholds *)
(* and any sequence of stops.  What the daemon will remember is decided    *)
(* before the commit and applied after it, so EngineInv speaks of the      *)
(* memory a state is about to have (Memory), and of the counters as counts *)
(* of what the history ends with (CountsTrue).                             *)
(*                                                                         *)
(* The threads persist one cycle a slot, in order, with its own readings,  *)
(* for any capacity of the queue.  PipelineInv says where each cycle under *)
(* way stands (Ordered) and whose checks it has (Owned).                   *)
(***************************************************************************)
EXTENDS Incidents, Pipeline, TLAPS

ActiveRow(row, i) == IsActive(row) /\ row.key = i.key /\ row.opened = i.opened

\* A is the memory that belongs to the table: its active incidents, one a key.
Mirrors(A) ==
  /\ \A i, j \in A : i.key = j.key => i = j
  /\ \A i \in A : \E row \in rows : ActiveRow(row, i)
  /\ \A row \in rows : IsActive(row) => \E i \in A : ActiveRow(row, i)

Memory == IF pc = "idle" THEN active ELSE Applied

\* An identifier names one row, opened and recovered in the past.
RowsSound ==
  /\ \A x, y \in rows : SameId(x, y) => x = y
  /\ \A row \in rows : row.opened <= now

\* The last n observations have the status for s.
Ends(h, n, s, status) ==
  /\ n <= Len(h)
  /\ \A m \in Len(h) - n + 1 .. Len(h) : h[m].status[s] = status

\* A count is at least what the history ends with, and at most that, as far
\* back as the history goes.
CountsTrue(h, counts, status) ==
  \A s \in Services, n \in Nat :
    /\ Ends(h, n, s, status) => counts[s] >= n
    /\ n <= counts[s] /\ n <= HistoryPoints => Ends(h, n, s, status)

EngineInv ==
  /\ IncidentsTypeOK
  /\ RowsSound
  /\ OneActivePerKey
  /\ pc # "stopped" => Mirrors(Memory)
  /\ pc = "stopped" => history = <<>> /\ failures = NoCounts /\ successes = NoCounts
  /\ CountsTrue(history, failures, "down") /\ CountsTrue(history, successes, "up")
  /\ OutageReported

-----------------------------------------------------------------------------
LEMMA KeysDiffer ==
  /\ Disk # Freshness
  /\ \A s \in Services : Down(s) # Freshness /\ Down(s) # Disk
  /\ \A w \in Workloads : Oom(w) # Freshness /\ Oom(w) # Disk
  /\ \A s \in Services, w \in Workloads : Down(s) # Oom(w)
  /\ \A s, t \in Services : Down(s) = Down(t) => s = t
  /\ \A v, w \in Workloads : Oom(v) = Oom(w) => v = w
BY DEF Disk, Freshness, Down, Oom

LEMMA AlarmOf ==
  ASSUME NEW o \in Observed, NEW k \in Alarms(o)
  PROVE  \/ k = Freshness /\ ~o.fresh
         \/ k = Disk /\ o.disk \in {"warning", "critical"}
         \/ \E s \in Services : k = Down(s) /\ Failed(o)[s] >= Failures
         \/ \E w \in Workloads : k = Oom(w) /\ o.oom[w] = "kill"
BY DEF Alarms, Failing

LEMMA ClearOf ==
  ASSUME NEW o \in Observed, NEW k \in Clears(o)
  PROVE  \/ k = Freshness /\ o.fresh
         \/ k = Disk /\ o.disk = "low"
         \/ \E s \in Services : k = Down(s) /\ Succeeded(o)[s] >= Recoveries
         \/ \E w \in Workloads : k = Oom(w) /\ o.oom[w] = "quiet"
BY DEF Clears, Recovering

\* A check counts for one status.
LEMMA OneCount ==
  ASSUME NEW o \in Observed, NEW s \in Services,
         Failed(o)[s] >= Failures, Succeeded(o)[s] >= Recoveries
  PROVE  FALSE
<1>1. Counted(failures, o, s, "down") >= Failures /\ Counted(successes, o, s, "up") >= Recoveries
  BY DEF Failed, Succeeded
<1> QED
  BY <1>1, IncidentConstants DEF Counted

\* No cycle gives reason to open and to recover the same incident.
LEMMA NoBoth ==
  ASSUME NEW o \in Observed, NEW k \in Alarms(o)
  PROVE  k \notin Clears(o)
<1> SUFFICES ASSUME k \in Clears(o) PROVE FALSE
  OBVIOUS
<1>1. CASE k = Freshness
  BY <1>1, AlarmOf, ClearOf, KeysDiffer
<1>2. CASE k = Disk
  BY <1>2, AlarmOf, ClearOf, KeysDiffer
<1>3. CASE \E s \in Services : k = Down(s)
  BY <1>3, AlarmOf, ClearOf, KeysDiffer, OneCount
<1>4. CASE \E w \in Workloads : k = Oom(w)
  BY <1>4, AlarmOf, ClearOf, KeysDiffer
<1> QED
  BY <1>1, <1>2, <1>3, <1>4, AlarmOf

-----------------------------------------------------------------------------
(* A cycle.                                                                *)

LEMMA OpenedOf ==
  ASSUME NEW o \in Observed, NEW i \in Outcome(o).opened
  PROVE  /\ i.key \in Alarms(o) /\ i.key \notin ActiveKeys
         /\ i = [key |-> i.key, opened |-> now + 1, severity |-> SeverityOf(i.key, o),
                 pinned |-> "none"]
BY DEF Outcome

LEMMA UpdatedOf ==
  ASSUME NEW o \in Observed, NEW i \in Outcome(o).updated, active \subseteq Incident
  PROVE  \E j \in active : /\ j.key = Disk /\ i.key = Disk /\ i.opened = j.opened
                           /\ Disk \in Alarms(o) /\ i \in Incident
                           /\ i = [j EXCEPT !.severity = DiskSeverity(o)]
<1>1. PICK j \in active : /\ j.key = Disk /\ Disk \in Alarms(o)
                          /\ i = [j EXCEPT !.severity = DiskSeverity(o)]
  BY DEF Outcome
<1>2. DiskSeverity(o) \in Severities
  BY DEF DiskSeverity, Severities
<1> QED
  BY <1>1, <1>2 DEF Incident

LEMMA RecoveredOf ==
  ASSUME NEW o \in Observed, NEW i \in Outcome(o).recovered
  PROVE  i \in active /\ i.key \in Clears(o)
BY DEF Outcome

Touched(o) == Outcome(o).opened \cup Outcome(o).updated \cup Outcome(o).recovered

\* A cycle does one thing to an incident.
LEMMA TouchedOnce ==
  ASSUME EngineInv, pc = "idle", NEW o \in Observed,
         NEW i \in Touched(o), NEW j \in Touched(o), i.key = j.key
  PROVE  i = j /\ (i \in Outcome(o).recovered => j \notin Outcome(o).opened \cup Outcome(o).updated)
<1>0. active \subseteq Incident /\ \A x, y \in active : x.key = y.key => x = y
  BY DEF EngineInv, IncidentsTypeOK, Mirrors, Memory
<1>1. CASE i \in Outcome(o).opened
  <2>1. j \in Outcome(o).opened
    BY <1>0, <1>1, OpenedOf, UpdatedOf, RecoveredOf DEF Touched, ActiveKeys
  <2>2. i \notin Outcome(o).recovered
    BY <1>1, OpenedOf, RecoveredOf DEF ActiveKeys
  <2> QED
    BY <1>1, <2>1, <2>2, OpenedOf
<1>2. CASE i \in Outcome(o).updated
  <2>1. PICK x \in active : /\ x.key = Disk /\ i.key = Disk /\ Disk \in Alarms(o)
                            /\ i = [x EXCEPT !.severity = DiskSeverity(o)]
    BY <1>0, <1>2, UpdatedOf
  <2>2. j \in Outcome(o).updated
    <3>1. j.key = Disk /\ Disk \in ActiveKeys
      BY <2>1 DEF ActiveKeys
    <3>2. j \notin Outcome(o).opened
      BY <3>1, OpenedOf
    <3>3. j \notin Outcome(o).recovered
      BY <2>1, <3>1, RecoveredOf, NoBoth
    <3> QED
      BY <3>2, <3>3 DEF Touched
  <2>3. PICK y \in active : y.key = Disk /\ j = [y EXCEPT !.severity = DiskSeverity(o)]
    BY <1>0, <2>2, UpdatedOf
  <2>4. i \notin Outcome(o).recovered
    BY <2>1, RecoveredOf, NoBoth
  <2> QED
    BY <1>0, <2>1, <2>3, <2>4
<1>3. CASE i \in Outcome(o).recovered
  <2>1. i \in active /\ i.key \in Clears(o)
    BY <1>3, RecoveredOf
  <2>2. j \notin Outcome(o).opened
    BY <2>1, OpenedOf DEF ActiveKeys
  <2>3. j \notin Outcome(o).updated
    BY <1>0, <2>1, UpdatedOf, NoBoth
  <2>4. j \in active
    BY <2>2, <2>3, RecoveredOf DEF Touched
  <2> QED
    BY <1>0, <2>1, <2>2, <2>3, <2>4
<1> QED
  BY <1>1, <1>2, <1>3 DEF Touched

\* What is written, and of what.
LEMMA WrittenOf ==
  ASSUME NEW o \in Observed, NEW row \in Written(Outcome(o))
  PROVE  \E i \in Touched(o) :
           /\ row.key = i.key /\ row.opened = i.opened
           /\ \/ i \in Outcome(o).opened \cup Outcome(o).updated /\ row = Stored(i, 0)
              \/ i \in Outcome(o).recovered /\ row = Stored(i, now + 1)
BY DEF Written, Touched, Stored

LEMMA IsWritten ==
  ASSUME NEW o \in Observed, NEW i \in Touched(o)
  PROVE  \E row \in Written(Outcome(o)) :
           /\ row.key = i.key /\ row.opened = i.opened
           /\ i \in Outcome(o).opened \cup Outcome(o).updated => row.recovered = 0
<1>1. CASE i \in Outcome(o).opened \cup Outcome(o).updated
  <2>1. Stored(i, 0) \in Written(Outcome(o))
    BY <1>1 DEF Written
  <2> QED
    BY <2>1 DEF Stored
<1>2. CASE i \in Outcome(o).recovered /\ i \notin Outcome(o).opened \cup Outcome(o).updated
  <2>1. Stored(i, now + 1) \in Written(Outcome(o))
    BY <1>2 DEF Written
  <2> QED
    BY <1>2, <2>1 DEF Stored
<1> QED
  BY <1>1, <1>2 DEF Touched

\* The table after a cycle.
LEMMA RowsAfter ==
  ASSUME NEW o \in Observed, Commit(o), NEW row
  PROVE  /\ row \in rows' => \/ row \in Written(Outcome(o))
                             \/ row \in rows /\ \A n \in Written(Outcome(o)) : ~SameId(row, n)
         /\ \/ row \in Written(Outcome(o))
            \/ row \in rows /\ \A n \in Written(Outcome(o)) : ~SameId(row, n)
            => row \in rows' \/ Expired(row)
         /\ IsActive(row) => ~Expired(row)
BY DEF Commit, Upserted, Expired

LEMMA CommitRows ==
  ASSUME EngineInv, NEW o \in Observed, Commit(o)
  PROVE  RowsSound'
<1>0. pc = "idle" /\ now' = now + 1 /\ now \in Nat
  BY DEF Commit, EngineInv, IncidentsTypeOK
<1>1. ASSUME NEW x \in rows', NEW y \in rows', SameId(x, y)
      PROVE  x = y
  <2>1. CASE x \in Written(Outcome(o)) /\ y \in Written(Outcome(o))
    <3>1. PICK i \in Touched(o) :
            /\ x.key = i.key
            /\ \/ i \in Outcome(o).opened \cup Outcome(o).updated /\ x = Stored(i, 0)
               \/ i \in Outcome(o).recovered /\ x = Stored(i, now + 1)
      BY <2>1, WrittenOf
    <3>2. PICK j \in Touched(o) :
            /\ y.key = j.key
            /\ \/ j \in Outcome(o).opened \cup Outcome(o).updated /\ y = Stored(j, 0)
               \/ j \in Outcome(o).recovered /\ y = Stored(j, now + 1)
      BY <2>1, WrittenOf
    <3>3. i.key = j.key
      BY <1>1, <3>1, <3>2 DEF SameId
    <3>4. i = j /\ (i \in Outcome(o).recovered => j \notin Outcome(o).opened \cup Outcome(o).updated)
      BY <1>0, <3>3, TouchedOnce
    <3> QED
      BY <3>1, <3>2, <3>4
  <2>2. CASE x \in rows /\ y \in rows
    BY <1>1, <2>2 DEF EngineInv, RowsSound
  <2>3. SameId(y, x)
    BY <1>1 DEF SameId
  <2> QED
    BY <1>1, <2>1, <2>2, <2>3, RowsAfter
<1>2. ASSUME NEW row \in rows'
      PROVE  row.opened <= now'
  <2>1. CASE row \in rows
    <3>1. row.opened <= now /\ row.opened \in Nat
      BY <2>1 DEF EngineInv, RowsSound, IncidentsTypeOK, Row
    <3> QED
      BY <1>0, <3>1
  <2>2. CASE row \in Written(Outcome(o))
    <3>0. active \subseteq Incident /\ Mirrors(active) /\ rows \subseteq Row
      BY <1>0 DEF EngineInv, IncidentsTypeOK, Memory
    <3>1. PICK i \in Touched(o) : row.key = i.key /\ row.opened = i.opened
      BY <2>2, WrittenOf
    <3>2. CASE i \in Outcome(o).opened
      <4>1. i.opened = now + 1
        BY <3>2, OpenedOf
      <4> QED
        BY <1>0, <3>1, <4>1
    <3>3. CASE \E j \in active : i.opened = j.opened
      <4>1. \E z \in rows : z.opened = i.opened
        BY <3>0, <3>3 DEF Mirrors, ActiveRow
      <4>2. i.opened <= now /\ i.opened \in Nat
        BY <3>0, <4>1 DEF EngineInv, RowsSound, Row
      <4> QED
        BY <1>0, <3>1, <4>2
    <3> QED
      BY <3>0, <3>2, <3>3, UpdatedOf, RecoveredOf DEF Touched
  <2> QED
    BY <2>1, <2>2, <1>2, RowsAfter
<1> QED
  BY <1>1, <1>2 DEF RowsSound, SameId

\* The memory a cycle leads to.
LEMMA AppliedOf ==
  ASSUME NEW o \in Observed, Commit(o), NEW i
  PROVE  i \in Applied' <=>
           \/ i \in active /\ \A j \in Touched(o) : ~SameId(i, j)
           \/ i \in Outcome(o).opened \cup Outcome(o).updated
<1>1. outcome' = Outcome(o) /\ active' = active
  BY DEF Commit
<1>2. Applied' = {x \in active : ~\E j \in Touched(o) : SameId(x, j)}
                   \cup Outcome(o).opened \cup Outcome(o).updated
  BY <1>1 DEF Applied, Touched, SameId
<1> QED
  BY <1>2

LEMMA CommitMirrors ==
  ASSUME EngineInv, NEW o \in Observed, Commit(o)
  PROVE  Mirrors(Memory)'
<1>0. /\ Mirrors(active) /\ active \subseteq Incident /\ now \in Nat
      /\ Memory' = Applied' /\ pc = "idle" /\ rows \subseteq Row
  BY DEF Commit, EngineInv, IncidentsTypeOK, Memory
<1>1. ASSUME NEW i \in Applied', NEW j \in Applied', i.key = j.key
      PROVE  i = j
  <2>1. CASE i \in active /\ j \in active
    BY <1>0, <1>1, <2>1 DEF Mirrors
  <2>2. ASSUME NEW x \in active, \A z \in Touched(o) : ~SameId(x, z),
               NEW y \in Outcome(o).opened \cup Outcome(o).updated, x.key = y.key
        PROVE  FALSE
    <3>1. y \in Touched(o) /\ y \notin Outcome(o).opened
      BY <2>2, OpenedOf DEF Touched, ActiveKeys
    <3>2. PICK z \in active : z.key = y.key /\ z.opened = y.opened
      BY <1>0, <2>2, <3>1, UpdatedOf
    <3>3. z = x
      BY <1>0, <2>2, <3>2 DEF Mirrors
    <3> QED
      BY <2>2, <3>1, <3>2, <3>3 DEF SameId
  <2>3. CASE i \in Touched(o) /\ j \in Touched(o)
    BY <1>0, <1>1, <2>3, TouchedOnce
  <2> QED
    BY <1>1, <2>1, <2>2, <2>3, AppliedOf DEF Touched
<1>2. ASSUME NEW i \in Applied'
      PROVE  \E row \in rows' : ActiveRow(row, i)
  <2>1. CASE i \in Outcome(o).opened \cup Outcome(o).updated
    <3>1. PICK row \in Written(Outcome(o)) :
            row.key = i.key /\ row.opened = i.opened /\ row.recovered = 0
      BY <2>1, IsWritten DEF Touched
    <3> QED
      BY <3>1, RowsAfter DEF ActiveRow, IsActive
  <2>2. CASE i \in active /\ \A j \in Touched(o) : ~SameId(i, j)
    <3>1. PICK row \in rows : ActiveRow(row, i)
      BY <1>0, <2>2 DEF Mirrors
    <3>2. \A n \in Written(Outcome(o)) : ~SameId(row, n)
      <4> SUFFICES ASSUME NEW n \in Written(Outcome(o)), SameId(row, n) PROVE FALSE
        OBVIOUS
      <4>1. PICK j \in Touched(o) : n.key = j.key /\ n.opened = j.opened
        BY WrittenOf
      <4> QED
        BY <2>2, <3>1, <4>1 DEF SameId, ActiveRow
    <3> QED
      BY <3>1, <3>2, RowsAfter DEF ActiveRow
  <2> QED
    BY <1>2, <2>1, <2>2, AppliedOf
<1>3. ASSUME NEW row \in rows', IsActive(row)
      PROVE  \E i \in Applied' : ActiveRow(row, i)
  <2>1. CASE row \in Written(Outcome(o))
    <3>1. PICK i \in Touched(o) :
            /\ row.key = i.key /\ row.opened = i.opened
            /\ \/ i \in Outcome(o).opened \cup Outcome(o).updated
               \/ row = Stored(i, now + 1)
      BY <2>1, WrittenOf
    <3>2. row # Stored(i, now + 1)
      BY <1>0, <1>3 DEF Stored, IsActive
    <3> QED
      BY <1>3, <3>1, <3>2, AppliedOf DEF ActiveRow
  <2>2. CASE row \in rows /\ \A n \in Written(Outcome(o)) : ~SameId(row, n)
    <3>1. PICK i \in active : ActiveRow(row, i)
      BY <1>0, <1>3, <2>2 DEF Mirrors
    <3>2. \A j \in Touched(o) : ~SameId(i, j)
      <4> SUFFICES ASSUME NEW j \in Touched(o), SameId(i, j) PROVE FALSE
        OBVIOUS
      <4>1. PICK n \in Written(Outcome(o)) : n.key = j.key /\ n.opened = j.opened
        BY IsWritten
      <4> QED
        BY <2>2, <3>1, <4>1 DEF SameId, ActiveRow
    <3> QED
      BY <3>1, <3>2, AppliedOf
  <2> QED
    BY <1>3, <2>1, <2>2, RowsAfter
<1> QED
  BY <1>0, <1>1, <1>2, <1>3 DEF Mirrors, ActiveRow, IsActive

LEMMA CommitTyped ==
  ASSUME EngineInv, NEW o \in Observed, Commit(o)
  PROVE  IncidentsTypeOK'
<1>0. /\ pc = "idle" /\ now \in Nat /\ rows \subseteq Row /\ active \subseteq Incident
      /\ failures \in [Services -> Nat] /\ successes \in [Services -> Nat]
      /\ history \in Seq(Observation) /\ Len(history) <= HistoryPoints
      /\ o \in Observation
  BY ObservedType DEF Commit, EngineInv, IncidentsTypeOK
<1>1. failures' \in [Services -> Nat] /\ successes' \in [Services -> Nat]
  BY <1>0 DEF Commit, Failed, Succeeded, Counted
<1>2. history' \in Seq(Observation) /\ Len(history') <= HistoryPoints
  BY <1>0, IncidentConstants DEF Commit, Appended
<1>3. Outcome(o).opened \subseteq Incident
  <2> SUFFICES ASSUME NEW i \in Outcome(o).opened PROVE i \in Incident
    OBVIOUS
  <2>1. i.key \in Keys
    BY OpenedOf, AlarmOf DEF Keys
  <2>2. SeverityOf(i.key, o) \in Severities
    BY DEF SeverityOf, DiskSeverity, Severities
  <2>3. /\ i = [key |-> i.key, opened |-> now + 1, severity |-> SeverityOf(i.key, o),
                pinned |-> "none"]
    BY OpenedOf
  <2> QED
    BY <1>0, <2>1, <2>2, <2>3 DEF Incident
<1>4. Outcome(o).updated \subseteq Incident /\ Outcome(o).recovered \subseteq Incident
  BY <1>0, UpdatedOf, RecoveredOf
<1>5. outcome' \in [opened : SUBSET Incident, updated : SUBSET Incident,
                    recovered : SUBSET Incident]
  <2>1. outcome' = Outcome(o)
    BY DEF Commit
  <2> QED
    BY <1>3, <1>4, <2>1 DEF Outcome
<1>6. rows' \subseteq Row
  <2> SUFFICES ASSUME NEW row \in rows' PROVE row \in Row
    OBVIOUS
  <2>1. CASE row \in Written(Outcome(o))
    <3>1. PICK i \in Touched(o) : row = Stored(i, 0) \/ row = Stored(i, now + 1)
      BY <2>1, WrittenOf
    <3>2. i \in Incident
      BY <1>3, <1>4 DEF Touched
    <3> QED
      BY <1>0, <3>1, <3>2 DEF Stored, Row, Incident
  <2> QED
    BY <1>0, <2>1, RowsAfter
<1> QED
  BY <1>0, <1>1, <1>2, <1>5, <1>6 DEF Commit, IncidentsTypeOK

\* The history ends with n of a status when it did with one less and the new
\* observation has it too.
LEMMA EndsAfter ==
  ASSUME NEW o, NEW s, NEW status, NEW n \in Nat \ {0},
         history \in Seq(Observation), Len(history) <= HistoryPoints, o \in Observation
  PROVE  Ends(Appended(o), n, s, status) <=>
           n <= HistoryPoints /\ o.status[s] = status /\ Ends(history, n - 1, s, status)
<1> DEFINE L == Len(history)
           h == Appended(o)
<1>0. L \in Nat /\ HistoryPoints \in Nat /\ HistoryPoints > 0
  BY IncidentConstants
<1>1. CASE L + 1 <= HistoryPoints
  <2>1. h = Append(history, o)
    BY <1>0, <1>1 DEF Appended
  <2>2. Len(h) = L + 1 /\ h[L + 1] = o /\ \A m \in 1 .. L : h[m] = history[m]
    BY <2>1
  <2>3. ASSUME Ends(h, n, s, status)
        PROVE  n <= HistoryPoints /\ o.status[s] = status /\ Ends(history, n - 1, s, status)
    <3>1. n <= L + 1 /\ \A m \in L - n + 2 .. L + 1 : h[m].status[s] = status
      BY <1>0, <2>2, <2>3 DEF Ends
    <3>2. L + 1 \in L - n + 2 .. L + 1
      BY <1>0
    <3>3. \A m \in L - (n - 1) + 1 .. L : m \in 1 .. L /\ m \in L - n + 2 .. L + 1
      BY <1>0, <3>1
    <3>4. \A m \in L - (n - 1) + 1 .. L : history[m].status[s] = status
      BY <2>2, <3>1, <3>3
    <3> QED
      BY <1>0, <1>1, <2>2, <3>1, <3>2, <3>4 DEF Ends
  <2>4. ASSUME n <= HistoryPoints, o.status[s] = status, Ends(history, n - 1, s, status)
        PROVE  Ends(h, n, s, status)
    <3>1. n - 1 <= L /\ \A m \in L - n + 2 .. L : history[m].status[s] = status
      BY <1>0, <2>4 DEF Ends
    <3>2. \A m \in L - n + 2 .. L + 1 : m = L + 1 \/ (m \in 1 .. L /\ m \in L - n + 2 .. L)
      BY <1>0, <3>1
    <3>3. \A m \in L - n + 2 .. L + 1 : h[m].status[s] = status
      BY <2>2, <2>4, <3>1, <3>2
    <3> QED
      BY <1>0, <2>2, <3>1, <3>3 DEF Ends
  <2> HIDE DEF h
  <2> QED
    BY <2>3, <2>4 DEF h
<1>2. CASE L + 1 > HistoryPoints
  <2>1. h = Tail(Append(history, o))
    BY <1>0, <1>2 DEF Appended
  <2>2. Len(h) = L /\ h[L] = o /\ \A m \in 1 .. L - 1 : h[m] = history[m + 1]
    BY <1>0, <1>2, <2>1
  <2>3. L = HistoryPoints
    BY <1>0, <1>2
  <2>4. ASSUME Ends(h, n, s, status)
        PROVE  n <= HistoryPoints /\ o.status[s] = status /\ Ends(history, n - 1, s, status)
    <3>1. \A m \in L - n + 1 .. L - 1 : history[m + 1].status[s] = status
      <4> SUFFICES ASSUME NEW m \in L - n + 1 .. L - 1 PROVE history[m + 1].status[s] = status
        OBVIOUS
      <4>1. n <= L /\ m \in L - n + 1 .. L
        BY <1>0, <2>2, <2>4 DEF Ends
      <4>2. h[m] = history[m + 1] /\ h[m].status[s] = status
        BY <1>0, <2>2, <2>4, <4>1 DEF Ends
      <4> QED
        BY <4>2
    <3>2. \A m \in L - (n - 1) + 1 .. L : history[m].status[s] = status
      <4> SUFFICES ASSUME NEW m \in L - (n - 1) + 1 .. L PROVE history[m].status[s] = status
        OBVIOUS
      <4>1. m - 1 \in L - n + 1 .. L - 1 /\ m = (m - 1) + 1
        BY <1>0
      <4> QED
        BY <3>1, <4>1
    <3> QED
      BY <1>0, <2>2, <2>3, <2>4, <3>2 DEF Ends
  <2>5. ASSUME n <= HistoryPoints, o.status[s] = status, Ends(history, n - 1, s, status)
        PROVE  Ends(h, n, s, status)
    <3>1. \A m \in L - (n - 1) + 1 .. L : history[m].status[s] = status
      BY <1>0, <2>5 DEF Ends
    <3> QED
      BY <1>0, <2>2, <2>3, <2>5, <3>1 DEF Ends
  <2> HIDE DEF h
  <2> QED
    BY <2>4, <2>5 DEF h
<1> QED
  BY <1>0, <1>1, <1>2

LEMMA CommitCounts ==
  ASSUME NEW counts \in [Services -> Nat], NEW status, NEW o \in Observation,
         history \in Seq(Observation), Len(history) <= HistoryPoints,
         CountsTrue(history, counts, status)
  PROVE  CountsTrue(Appended(o), [s \in Services |-> Counted(counts, o, s, status)], status)
<1> SUFFICES ASSUME NEW s \in Services, NEW n \in Nat
             PROVE  /\ Ends(Appended(o), n, s, status) => Counted(counts, o, s, status) >= n
                    /\ n <= Counted(counts, o, s, status) /\ n <= HistoryPoints
                         => Ends(Appended(o), n, s, status)
  BY DEF CountsTrue
<1>0. counts[s] \in Nat
  OBVIOUS
<1>1. CASE n = 0
  <2>1. Appended(o) \in Seq(Observation)
    BY IncidentConstants DEF Appended
  <2> QED
    BY <1>0, <1>1, <2>1 DEF Counted, Ends
<1>2. CASE n # 0
  <2>1. /\ Ends(history, n - 1, s, status) => counts[s] >= n - 1
        /\ n - 1 <= counts[s] /\ n - 1 <= HistoryPoints => Ends(history, n - 1, s, status)
    BY <1>2 DEF CountsTrue
  <2>2. Ends(Appended(o), n, s, status) <=>
           n <= HistoryPoints /\ o.status[s] = status /\ Ends(history, n - 1, s, status)
    BY <1>2, EndsAfter
  <2> QED
    BY <1>0, <1>2, <2>1, <2>2, IncidentConstants DEF Counted
<1> QED
  BY <1>1, <1>2

\* A check that is due for an incident has one in the table after the cycle.
LEMMA CommitReports ==
  ASSUME EngineInv, NEW o \in Observed, Commit(o), NEW s \in Services,
         Failed(o)[s] >= Failures
  PROVE  \E row \in rows' : row.key = Down(s) /\ IsActive(row)
<1>0. active \subseteq Incident /\ Mirrors(Memory)' /\ Memory' = Applied'
  BY CommitMirrors DEF Commit, Memory, EngineInv, IncidentsTypeOK
<1>1. Down(s) \in Alarms(o)
  BY DEF Alarms, Failing
<1>2. \E i \in Applied' : i.key = Down(s)
  <2>1. CASE Down(s) \notin ActiveKeys
    <3>1. [key |-> Down(s), opened |-> now + 1, severity |-> SeverityOf(Down(s), o),
           pinned |-> "none"] \in Outcome(o).opened
      BY <1>1, <2>1 DEF Outcome
    <3> QED
      BY <3>1, AppliedOf
  <2>2. CASE Down(s) \in ActiveKeys
    <3>1. PICK i \in active : i.key = Down(s)
      BY <2>2 DEF ActiveKeys
    <3>2. \A j \in Touched(o) : ~SameId(i, j)
      <4> SUFFICES ASSUME NEW j \in Touched(o), j.key = Down(s) PROVE FALSE
        BY <3>1 DEF SameId
      <4>1. j \notin Outcome(o).opened
        BY <2>2, OpenedOf
      <4>2. j \notin Outcome(o).updated
        BY <1>0, UpdatedOf, KeysDiffer
      <4>3. j \notin Outcome(o).recovered
        BY <1>1, RecoveredOf, NoBoth
      <4> QED
        BY <4>1, <4>2, <4>3 DEF Touched
    <3> QED
      BY <3>1, <3>2, AppliedOf
  <2> QED
    BY <2>1, <2>2
<1> QED
  BY <1>0, <1>2 DEF Mirrors, ActiveRow, IsActive

LEMMA CommitSound ==
  ASSUME EngineInv, NEW o \in Observed, Commit(o)
  PROVE  EngineInv'
<1>0. /\ IncidentsTypeOK /\ o \in Observation /\ pc' = "committed"
      /\ failures' = Failed(o) /\ successes' = Succeeded(o) /\ history' = Appended(o)
  BY ObservedType DEF Commit, EngineInv
<1>1. CountsTrue(history', failures', "down") /\ CountsTrue(history', successes', "up")
  BY <1>0, CommitCounts DEF EngineInv, IncidentsTypeOK, Failed, Succeeded
<1>2. OutageReported'
  <2> SUFFICES ASSUME NEW s \in Services, Ends(history', Failures, s, "down")
               PROVE  \E row \in rows' : row.key = Down(s) /\ IsActive(row)
    BY DEF OutageReported, Lately, Ends, IsActive, Down
  <2>1. failures'[s] >= Failures
    BY <1>1, IncidentConstants DEF CountsTrue
  <2> QED
    BY <1>0, <2>1, CommitReports
<1>3. IncidentsTypeOK' /\ RowsSound' /\ Mirrors(Memory)'
  BY CommitTyped, CommitRows, CommitMirrors
<1>4. CountsTrue(history, failures, "down")' /\ CountsTrue(history, successes, "up")'
  BY <1>1 DEF CountsTrue, Ends
<1>5. OneActivePerKey'
  BY <1>3 DEF OneActivePerKey, Mirrors, ActiveRow, RowsSound, SameId, IsActive
<1> QED
  BY <1>0, <1>2, <1>3, <1>4, <1>5 DEF EngineInv

-----------------------------------------------------------------------------
(* The other steps of the daemon.                                          *)

LEMMA EmptyCounts ==
  ASSUME NEW counts, counts = NoCounts, NEW status
  PROVE  CountsTrue(<<>>, counts, status) /\ counts \in [Services -> Nat]
BY DEF CountsTrue, Ends, NoCounts

LEMMA NothingToReport == history = <<>> => OutageReported
BY IncidentConstants DEF OutageReported, Lately

LEMMA EngineStarts == IncidentsInit => EngineInv
<1> SUFFICES ASSUME IncidentsInit PROVE EngineInv
  OBVIOUS
<1>1. IncidentsTypeOK
  BY EmptyCounts, IncidentConstants DEF IncidentsInit, IncidentsTypeOK, NoOutcome
<1>2. OutageReported
  BY NothingToReport DEF IncidentsInit
<1>3. CountsTrue(history, failures, "down") /\ CountsTrue(history, successes, "up")
  BY EmptyCounts DEF IncidentsInit
<1> QED
  BY <1>1, <1>2, <1>3 DEF IncidentsInit, EngineInv, RowsSound, OneActivePerKey

LEMMA SameRows ==
  /\ UNCHANGED <<rows, history>> => (OutageReported => OutageReported')
  /\ UNCHANGED rows => (OneActivePerKey => OneActivePerKey')
BY DEF OutageReported, Lately, IsActive, Down, OneActivePerKey

LEMMA ApplySound == EngineInv /\ Apply => EngineInv'
<1> SUFFICES ASSUME EngineInv, Apply PROVE EngineInv'
  OBVIOUS
<1>1. Memory' = Memory /\ pc # "stopped" /\ UNCHANGED <<now, rows, failures, successes, history>>
  BY DEF Apply, Memory, engine
<1>2. IncidentsTypeOK'
  BY <1>1 DEF Apply, EngineInv, IncidentsTypeOK, Applied, NoOutcome
<1>3. Mirrors(Memory)'
  BY <1>1 DEF EngineInv, Mirrors, ActiveRow, IsActive
<1>4. RowsSound' /\ CountsTrue(history, failures, "down")' /\ CountsTrue(history, successes, "up")'
  BY <1>1 DEF EngineInv, RowsSound, SameId, CountsTrue, Ends
<1> QED
  BY <1>1, <1>2, <1>3, <1>4, SameRows DEF EngineInv, Apply

LEMMA StopSound == EngineInv /\ Stop => EngineInv'
<1> SUFFICES ASSUME EngineInv, Stop PROVE EngineInv'
  OBVIOUS
<1>1. IncidentsTypeOK'
  BY IncidentConstants DEF Stop, EngineInv, IncidentsTypeOK, NoOutcome, NoCounts
<1>2. history' = <<>> /\ failures' = NoCounts /\ successes' = NoCounts
  BY DEF Stop
<1>3. CountsTrue(history', failures', "down") /\ CountsTrue(history', successes', "up")
  BY <1>2, EmptyCounts
<1>4. CountsTrue(history, failures, "down")' /\ CountsTrue(history, successes, "up")'
  BY <1>3 DEF CountsTrue, Ends
<1>5. OutageReported'
  BY <1>2, IncidentConstants DEF OutageReported, Lately
<1>6. RowsSound'
  BY DEF Stop, EngineInv, RowsSound, SameId
<1> QED
  BY <1>1, <1>2, <1>4, <1>5, <1>6, SameRows DEF EngineInv, Stop, NoCounts

LEMMA StartSound == EngineInv /\ Start => EngineInv'
<1> SUFFICES ASSUME EngineInv, Start PROVE EngineInv'
  OBVIOUS
<1>1. active' = Loaded /\ pc' = "idle" /\ UNCHANGED <<now, rows, failures, successes, history, outcome>>
  BY DEF Start, engine
<1>2. rows \subseteq Row
  BY DEF EngineInv, IncidentsTypeOK
<1>3. Loaded \subseteq Incident
  BY <1>2 DEF Loaded, Row, Incident
<1>4. IncidentsTypeOK'
  BY <1>1, <1>3 DEF EngineInv, IncidentsTypeOK
<1>5. Mirrors(Loaded)
  <2>1. \A i \in Loaded : \E row \in rows :
          /\ ActiveRow(row, i)
          /\ i = [key |-> row.key, opened |-> row.opened, severity |-> row.severity,
                  pinned |-> row.severity]
    BY DEF Loaded, ActiveRow
  <2>2. ASSUME NEW row \in rows, IsActive(row)
        PROVE  \E i \in Loaded : ActiveRow(row, i)
    <3> DEFINE i == [key |-> row.key, opened |-> row.opened, severity |-> row.severity,
                     pinned |-> row.severity]
    <3>1. i \in Loaded /\ ActiveRow(row, i)
      BY <2>2 DEF Loaded, ActiveRow
    <3> QED
      BY <3>1
  <2>3. \A x, y \in rows : IsActive(x) /\ IsActive(y) /\ x.key = y.key => x = y
    BY DEF EngineInv, OneActivePerKey
  <2> QED
    BY <2>1, <2>2, <2>3 DEF Mirrors, ActiveRow
<1>6. Mirrors(Memory)'
  BY <1>1, <1>5 DEF Mirrors, Memory, ActiveRow, IsActive
<1>7. RowsSound' /\ CountsTrue(history, failures, "down")' /\ CountsTrue(history, successes, "up")'
  BY <1>1 DEF EngineInv, RowsSound, SameId, CountsTrue, Ends
<1> QED
  BY <1>1, <1>4, <1>6, <1>7, SameRows DEF EngineInv

LEMMA StepSound == EngineInv /\ [IncidentsNext]_incidentVars => EngineInv'
<1>1. EngineInv /\ UNCHANGED incidentVars => EngineInv'
  BY SameRows DEF incidentVars, EngineInv, IncidentsTypeOK, RowsSound, SameId, Mirrors,
         ActiveRow, IsActive, Memory, Applied, CountsTrue, Ends
<1> QED
  BY <1>1, CommitSound, ApplySound, StopSound, StartSound DEF IncidentsNext

\* However often the daemon stops between a commit and its application, one
\* trouble is one incident, memory and table agree, and an outage that was
\* seen for long enough is in the table (IncidentEngine, CollectorDaemon).
THEOREM EngineSound == IncidentsSpec => []IncidentsSound
<1>1. EngineInv => IncidentsSound
  <2> SUFFICES ASSUME EngineInv PROVE MemoryIsStore
    BY DEF EngineInv, IncidentsSound
  <2> SUFFICES ASSUME pc = "idle"
               PROVE  {<<i.key, i.opened>> : i \in active}
                        = {<<row.key, row.opened>> : row \in {row \in rows : IsActive(row)}}
    BY DEF MemoryIsStore
  <2>1. /\ \A i \in active : \E row \in rows : ActiveRow(row, i)
        /\ \A row \in rows : IsActive(row) => \E i \in active : ActiveRow(row, i)
    BY DEF EngineInv, Mirrors, Memory
  <2> QED
    BY <2>1 DEF ActiveRow
<1> QED
  BY <1>1, EngineStarts, StepSound, PTL DEF IncidentsSpec

-----------------------------------------------------------------------------
(* Evidence.                                                               *)

\* An incident that opens in a cycle has its check counted often enough.
LEMMA OpensCounted ==
  ASSUME EngineInv, NEW o \in Observed, Commit(o), NEW s \in Services,
         ~\E row \in rows : row.key = Down(s) /\ IsActive(row),
         NEW row \in rows', row.key = Down(s), IsActive(row)
  PROVE  Failed(o)[s] >= Failures
<1>0. active \subseteq Incident /\ Mirrors(active) /\ now \in Nat
  BY DEF Commit, EngineInv, IncidentsTypeOK, Memory
<1>1. row \in Written(Outcome(o))
  BY RowsAfter
<1>2. PICK i \in Touched(o) :
        /\ row.key = i.key
        /\ \/ i \in Outcome(o).opened \cup Outcome(o).updated
           \/ row = Stored(i, now + 1)
  BY <1>1, WrittenOf
<1>3. row # Stored(i, now + 1)
  BY <1>0 DEF Stored, IsActive
<1>4. i \notin Outcome(o).updated
  BY <1>0, <1>2, UpdatedOf, KeysDiffer
<1>5. Down(s) \in Alarms(o)
  BY <1>2, <1>3, <1>4, OpenedOf
<1> QED
  BY <1>5, AlarmOf, KeysDiffer

\* One that recovers has its answers counted often enough.
LEMMA ClosesCounted ==
  ASSUME EngineInv, NEW o \in Observed, Commit(o), NEW s \in Services,
         NEW row \in rows, row.key = Down(s), IsActive(row),
         ~\E x \in rows' : x.key = Down(s) /\ IsActive(x)
  PROVE  Succeeded(o)[s] >= Recoveries
<1>0. /\ active \subseteq Incident /\ Mirrors(active)
      /\ Mirrors(Memory)' /\ Memory' = Applied'
  BY CommitMirrors DEF Commit, EngineInv, IncidentsTypeOK, Memory
<1>1. PICK i \in active : i.key = Down(s)
  BY <1>0 DEF Mirrors, ActiveRow
<1>2. i \notin Applied'
  BY <1>0, <1>1 DEF Mirrors, ActiveRow, IsActive
<1>3. PICK j \in Touched(o) : SameId(i, j)
  BY <1>2, AppliedOf
<1>4. j.key = Down(s) /\ Down(s) \in ActiveKeys
  BY <1>1, <1>3 DEF SameId, ActiveKeys
<1>5. j \in Outcome(o).recovered
  BY <1>0, <1>4, OpenedOf, UpdatedOf, KeysDiffer DEF Touched
<1>6. Down(s) \in Clears(o)
  BY <1>4, <1>5, RecoveredOf
<1> QED
  BY <1>6, ClearOf, KeysDiffer

\* The row of a recovered incident has an identifier no later write uses.
LEMMA RecoveredKept ==
  ASSUME EngineInv, NEW o \in Observed, Commit(o), NEW row \in rows, ~IsActive(row)
  PROVE  RecoveredStays(row)
<1>0. /\ active \subseteq Incident /\ Mirrors(active) /\ now \in Nat /\ now' = now + 1
      /\ row.opened <= now /\ row.opened \in Nat
  BY DEF Commit, EngineInv, IncidentsTypeOK, Memory, RowsSound, Row
<1>1. ASSUME NEW n \in Written(Outcome(o)), SameId(row, n)
      PROVE  FALSE
  <2>1. PICK i \in Touched(o) : n.key = i.key /\ n.opened = i.opened
    BY WrittenOf
  <2>2. i \notin Outcome(o).opened
    BY <1>0, <1>1, <2>1, OpenedOf DEF SameId
  <2>3. PICK j \in active : j.key = i.key /\ j.opened = i.opened
    BY <1>0, <2>2, UpdatedOf, RecoveredOf DEF Touched
  <2>4. PICK x \in rows : ActiveRow(x, j)
    BY <1>0 DEF Mirrors
  <2>5. x = row
    BY <1>1, <2>1, <2>3, <2>4 DEF ActiveRow, SameId, EngineInv, RowsSound
  <2> QED
    BY <2>4, <2>5 DEF ActiveRow
<1>2. row \in rows' \/ Expired(row)
  BY <1>1, RowsAfter
<1> QED
  BY <1>0, <1>2 DEF RecoveredStays, Expired

\* A missing measurement neither opens nor closes an incident nor bridges two
\* observations, and a recovered incident is history (IncidentEngine.evaluate,
\* upsert_incident).
THEOREM Evidence == IncidentsSpec => ChangesOnEvidence
<1> DEFINE Step == /\ \A s \in Services : OpensOnEvidence(s)
                   /\ \A row \in rows : ~IsActive(row) => RecoveredStays(row)
<1>1. EngineInv /\ IncidentsNext => Step
  <2> SUFFICES ASSUME EngineInv, IncidentsNext PROVE Step
    OBVIOUS
  <2>1. CASE UNCHANGED rows
    BY <2>1 DEF OpensOnEvidence, RecoveredStays, IsActive, Down
  <2>2. ASSUME NEW o \in Observed, Commit(o)
        PROVE  Step
    <3>0. /\ history' = Appended(o) /\ failures' = Failed(o) /\ successes' = Succeeded(o)
          /\ EngineInv'
      BY <2>2, CommitSound DEF Commit
    <3>1. CountsTrue(history', failures', "down") /\ CountsTrue(history', successes', "up")
      BY <3>0 DEF EngineInv, CountsTrue, Ends
    <3>2. ASSUME NEW s \in Services PROVE OpensOnEvidence(s)
      <4>1. Failed(o)[s] >= Failures => Ends(history', Failures, s, "down")
        BY <3>0, <3>1, IncidentConstants DEF CountsTrue
      <4>2. Succeeded(o)[s] >= Recoveries => Ends(history', Recoveries, s, "up")
        BY <3>0, <3>1, IncidentConstants DEF CountsTrue
      <4> QED
        BY <2>2, <4>1, <4>2, OpensCounted, ClosesCounted
           DEF OpensOnEvidence, Lately, Ends, IsActive, Down
    <3> QED
      BY <2>2, <3>2, RecoveredKept
  <2> QED
    BY <2>1, <2>2 DEF IncidentsNext, Apply, Stop, Start
<1> HIDE DEF Step
<1>2. EngineInv /\ [IncidentsNext]_incidentVars => [Step]_incidentVars
  BY <1>1
<1>3. IncidentsSpec => [][Step]_incidentVars
  BY <1>2, EngineStarts, StepSound, PTL DEF IncidentsSpec
<1> QED
  BY <1>3, PTL DEF ChangesOnEvidence, Step

-----------------------------------------------------------------------------
(* The pipeline.                                                           *)

Taken == consumer.pc \in {"services", "persist"}

\* All cycles acquired before are of earlier slots than x.
Before(x) ==
  /\ \A n \in DOMAIN committed : committed[n].slot < x
  /\ \A n \in DOMAIN pending : pending[n].slot < x
  /\ Taken => consumer.row.slot < x

\* Cycles are in the order of their slots, and the next one comes after them.
Ordered ==
  /\ \A m, n \in DOMAIN committed : m < n => committed[m].slot < committed[n].slot
  /\ \A m, n \in DOMAIN pending : m < n => pending[m].slot < pending[n].slot
  /\ \A m \in DOMAIN committed, n \in DOMAIN pending : committed[m].slot < pending[n].slot
  /\ Taken => /\ \A m \in DOMAIN committed : committed[m].slot < consumer.row.slot
              /\ \A n \in DOMAIN pending : consumer.row.slot < pending[n].slot
  /\ ConsumerAt("prime") => pending = <<>> /\ committed = <<>>
  /\ ProducerAt("align") => Before(clock + 1)
  /\ ProducerAt("wait") => Before(producer.deadline)
  /\ ProducerAt("acquire") => Before(producer.row.slot) /\ producer.row.slot <= clock

\* The threads start and end in order, and only a thread at work can fail.
Phased ==
  /\ ConsumerAt("prime") => ProducerAt("new")
  /\ ProducerAt("new") => fault = "none" /\ consumer.pc \in {"prime", "exit"}
  /\ ConsumerAt("exit") => producer.pc \in {"new", "finished"}
  /\ ProducerAt("acquire") => Len(pending) < Capacity

\* The checks of a cycle are those of its own slot.
RowOK(row) == row.batch # 0 => /\ row.batch \in DOMAIN batches
                               /\ batches[row.batch].slot = row.slot
Owned ==
  /\ \A b \in DOMAIN batches, s \in Targets :
       batches[b].checks[s].state \in {"running", "checked"} =>
         batches[b].checks[s].at = batches[b].slot
  /\ ProducerAt("acquire") => RowOK(producer.row)
  /\ \A n \in DOMAIN pending : RowOK(pending[n])
  /\ Taken => RowOK(consumer.row)
  /\ ConsumerAt("persist") /\ consumer.row.batch # 0 => BatchDone(consumer.row.batch)

\* Only the last batch can be under way.
LastOpen == \A b \in DOMAIN batches : b < Len(batches) => BatchDone(b)

PipelineInv ==
  /\ PipelineTypeOK /\ NeverOverflows /\ ReadingsAreOwn /\ FaultReported
  /\ Ordered /\ Phased /\ Owned /\ LastOpen

LEMMA PipelineStarts == PipelineInit => PipelineInv
<1> SUFFICES ASSUME PipelineInit PROVE PipelineInv
  OBVIOUS
<1>1. PipelineTypeOK
  <2>1. NoRow \in CycleRow
    BY DEF NoRow, CycleRow
  <2>2. /\ producer \in [pc : {"new", "align", "wait", "acquire", "finished"},
                         deadline : Nat, row : CycleRow]
        /\ consumer \in [pc : {"prime", "get", "services", "persist", "join", "exit"},
                         row : CycleRow, outcome : {"none", "clean", "fault"}]
    BY <2>1 DEF PipelineInit
  <2>3. clock \in Nat /\ stop \in BOOLEAN /\ backpressure \in BOOLEAN /\ fault \in {"none", "acquire", "full"}
    BY DEF PipelineInit
  <2>4. pending \in Seq(CycleRow) /\ batches \in Seq(Batch) /\ committed \in Seq(Cycle)
    BY DEF PipelineInit
  <2> QED
    BY <2>2, <2>3, <2>4 DEF PipelineTypeOK
<1>2. NeverOverflows /\ ReadingsAreOwn /\ FaultReported
  BY PipelineConstants DEF PipelineInit, NeverOverflows, ReadingsAreOwn, FaultReported
<1>3. Ordered /\ Phased /\ Owned /\ LastOpen
  BY DEF PipelineInit, Ordered, Phased, Owned, LastOpen, Taken, ConsumerAt, ProducerAt
<1> QED
  BY <1>1, <1>2, <1>3 DEF PipelineInv

LEMMA BatchTyped ==
  ASSUME PipelineTypeOK, NEW b \in DOMAIN batches
  PROVE  /\ batches[b] \in Batch /\ batches[b].slot \in Nat
         /\ batches[b].checks \in [Targets -> Check]
<1>1. batches[b] \in Batch
  BY DEF PipelineTypeOK
<1> QED
  BY <1>1 DEF Batch

LEMMA BatchFacts ==
  ASSUME NEW b \in DOMAIN batches, NEW s \in Targets, NEW check \in Check,
         PipelineTypeOK, Update(b, s, check)
  PROVE  /\ batches' \in Seq(Batch) /\ Len(batches') = Len(batches)
         /\ \A c \in DOMAIN batches : batches'[c].slot = batches[c].slot
         /\ \A c \in DOMAIN batches, t \in Targets :
              batches'[c].checks[t] = IF c = b /\ t = s THEN check ELSE batches[c].checks[t]
<1> DEFINE new == [slot |-> batches[b].slot, checks |-> [batches[b].checks EXCEPT ![s] = check]]
<1>1. batches' = [batches EXCEPT ![b] = new]
  <2>1. batches[b] = [slot |-> batches[b].slot, checks |-> batches[b].checks]
    BY BatchTyped DEF Batch
  <2>2. batches' = [batches EXCEPT ![b] = [batches[b] EXCEPT
                      !.checks = [batches[b].checks EXCEPT ![s] = check]]]
    BY DEF Update
  <2>3. new = [batches[b] EXCEPT !.checks = [batches[b].checks EXCEPT ![s] = check]]
    BY <2>1
  <2> QED
    BY <2>2, <2>3
<1>2. new \in Batch
  BY BatchTyped DEF Batch
<1>3. batches \in Seq(Batch)
  BY DEF PipelineTypeOK
<1>4. /\ batches' \in Seq(Batch) /\ Len(batches') = Len(batches)
      /\ \A c \in DOMAIN batches : batches'[c] = IF c = b THEN new ELSE batches[c]
  BY <1>1, <1>2, <1>3
<1>5. \A t \in Targets : new.checks[t] = IF t = s THEN check ELSE batches[b].checks[t]
  BY BatchTyped
<1>6. new.slot = batches[b].slot
  OBVIOUS
<1> HIDE DEF new
<1> QED
  BY <1>4, <1>5, <1>6

\* A worker's step on a check that is not finished.
LEMMA CheckSound ==
  ASSUME PipelineInv, CheckStep
  PROVE  PipelineInv'
<1>1. PICK b \in DOMAIN batches, s \in Targets : StartCheck(b, s) \/ EndCheck(b, s)
  BY DEF CheckStep
<1>2. PICK check \in Check :
        /\ Update(b, s, check)
        /\ ~Finished(batches[b].checks[s])
        /\ check.state \in {"running", "checked"} => check.at = batches[b].slot
  <2>0. batches[b].checks[s] \in Check /\ clock \in Nat
    BY BatchTyped DEF PipelineInv, PipelineTypeOK
  <2>1. CASE StartCheck(b, s)
    <3>1. [state |-> IF InSlot(b) THEN "running" ELSE "unknown", at |-> clock] \in Check
      BY <2>0 DEF Check
    <3> QED
      BY <2>0, <2>1, <3>1 DEF StartCheck, Finished, InSlot
  <2>2. CASE EndCheck(b, s)
    <3>1. [batches[b].checks[s] EXCEPT !.state = "checked"] \in Check
      BY <2>0 DEF Check
    <3>2. batches[b].checks[s].at = batches[b].slot
      BY <2>2 DEF EndCheck, PipelineInv, Owned
    <3> QED
      BY <2>0, <2>2, <3>1, <3>2 DEF EndCheck, Finished, Check
  <2> QED
    BY <1>1, <2>1, <2>2
<1>3. UNCHANGED <<clock, stop, producer, fault, pending, backpressure, consumer, committed>>
  BY <1>1 DEF StartCheck, EndCheck
<1>4. /\ batches' \in Seq(Batch) /\ Len(batches') = Len(batches)
      /\ DOMAIN batches' = DOMAIN batches
      /\ \A c \in DOMAIN batches : batches'[c].slot = batches[c].slot
      /\ \A c \in DOMAIN batches, t \in Targets :
           batches'[c].checks[t] = IF c = b /\ t = s THEN check ELSE batches[c].checks[t]
  BY <1>2, BatchFacts DEF PipelineInv, PipelineTypeOK
<1>5. \A c \in DOMAIN batches : BatchDone(c) => BatchDone(c)'
  BY <1>2, <1>4 DEF BatchDone, Finished
<1>6. PipelineTypeOK' /\ NeverOverflows' /\ ReadingsAreOwn' /\ FaultReported' /\ Phased'
  BY <1>3, <1>4 DEF PipelineInv, PipelineTypeOK, NeverOverflows, ReadingsAreOwn, Finished,
         FaultReported, Phased, ConsumerAt, ProducerAt
<1>7. Ordered'
  BY <1>3 DEF PipelineInv, Ordered, Before, Taken, ConsumerAt, ProducerAt
<1>8. Owned'
  <2>1. \A row : RowOK(row) => RowOK(row)'
    BY <1>4 DEF RowOK
  <2>2. ASSUME ConsumerAt("persist"), consumer.row.batch # 0
        PROVE  BatchDone(consumer.row.batch)'
    <3>1. consumer.row.batch \in DOMAIN batches /\ BatchDone(consumer.row.batch)
      BY <2>2 DEF PipelineInv, Owned, RowOK, Taken, ConsumerAt
    <3>2. \A c \in DOMAIN batches : BatchDone(c) => \A t \in Targets : Finished(batches'[c].checks[t])
      BY <1>5 DEF BatchDone, Finished
    <3> QED
      BY <1>3, <3>1, <3>2 DEF BatchDone, Finished
  <2>3. ProducerAt("acquire")' => RowOK(producer.row)'
    BY <1>3, <2>1 DEF PipelineInv, Owned, ProducerAt
  <2>4. \A n \in DOMAIN pending' : RowOK(pending[n])'
    BY <1>3, <2>1 DEF PipelineInv, Owned
  <2>5. Taken' => RowOK(consumer.row)'
    BY <1>3, <2>1 DEF PipelineInv, Owned, Taken
  <2>6. ConsumerAt("persist")' /\ consumer'.row.batch # 0 => BatchDone(consumer.row.batch)'
    BY <1>3, <2>2 DEF ConsumerAt
  <2>7. \A c \in DOMAIN batches', t \in Targets :
          batches'[c].checks[t].state \in {"running", "checked"} =>
            batches'[c].checks[t].at = batches'[c].slot
    BY <1>2, <1>4 DEF PipelineInv, Owned
  <2> QED
    BY <2>3, <2>4, <2>5, <2>6, <2>7 DEF Owned
<1>9. LastOpen'
  BY <1>4, <1>5 DEF PipelineInv, LastOpen
<1> QED
  BY <1>6, <1>7, <1>8, <1>9 DEF PipelineInv

LEMMA RowsTyped ==
  ASSUME PipelineTypeOK
  PROVE  /\ \A n \in DOMAIN committed : committed[n] \in Cycle /\ committed[n].slot \in Nat
         /\ \A n \in DOMAIN pending : pending[n] \in CycleRow /\ pending[n].slot \in Nat
         /\ consumer.row \in CycleRow /\ consumer.row.slot \in Nat
         /\ producer.row \in CycleRow /\ producer.row.slot \in Nat
<1>1. \A n \in DOMAIN committed : committed[n] \in Cycle
  BY DEF PipelineTypeOK
<1>2. \A n \in DOMAIN pending : pending[n] \in CycleRow
  BY DEF PipelineTypeOK
<1>3. consumer.row \in CycleRow /\ producer.row \in CycleRow
  BY DEF PipelineTypeOK
<1> QED
  BY <1>1, <1>2, <1>3 DEF Cycle, CycleRow

\* What was before a slot is before a later one.
LEMMA BeforeLater ==
  ASSUME PipelineTypeOK, NEW x \in Nat, NEW y \in Nat, x <= y, Before(x)
  PROVE  Before(y)
BY RowsTyped DEF Before

LEMMA SameBatches ==
  ASSUME UNCHANGED batches
  PROVE  /\ \A row : RowOK(row)' <=> RowOK(row)
         /\ \A b : BatchDone(b)' <=> BatchDone(b)
         /\ LastOpen => LastOpen'
BY DEF RowOK, BatchDone, Finished, LastOpen

LEMMA TickSound ==
  ASSUME PipelineInv, Tick
  PROVE  PipelineInv'
<1>0. /\ clock' = clock + 1 /\ clock \in Nat
      /\ UNCHANGED <<stop, producer, fault, pending, batches, backpressure, consumer, committed>>
  BY DEF Tick, PipelineInv, PipelineTypeOK
<1>1. PipelineTypeOK' /\ NeverOverflows' /\ ReadingsAreOwn' /\ FaultReported' /\ Phased'
  BY <1>0 DEF PipelineInv, PipelineTypeOK, NeverOverflows, ReadingsAreOwn, Finished,
         FaultReported, Phased, ConsumerAt, ProducerAt
<1>2. Ordered'
  <2>1. ProducerAt("align") => Before(clock + 2)
    BY <1>0, BeforeLater DEF PipelineInv, Ordered
  <2>2. producer.row.slot <= clock => producer.row.slot <= clock + 1
    BY <1>0 DEF PipelineInv, PipelineTypeOK, CycleRow
  <2>3. Ordered
    BY DEF PipelineInv
  <2>4. clock' + 1 = clock + 2
    BY <1>0
  <2> QED
    BY <1>0, <2>1, <2>2, <2>3, <2>4 DEF Ordered, Before, Taken, ConsumerAt, ProducerAt
<1>3. Owned' /\ LastOpen'
  BY <1>0, SameBatches DEF PipelineInv, Owned, RowOK, Taken, ConsumerAt, ProducerAt, BatchDone, Finished
<1> QED
  BY <1>1, <1>2, <1>3 DEF PipelineInv

LEMMA SignalSound ==
  ASSUME PipelineInv, UNCHANGED <<clock, producer, fault, pending, batches, consumer, committed>>,
         stop' \in BOOLEAN, backpressure' \in BOOLEAN
  PROVE  PipelineInv'
<1>1. PipelineTypeOK' /\ NeverOverflows' /\ ReadingsAreOwn' /\ FaultReported' /\ Phased'
  BY DEF PipelineInv, PipelineTypeOK, NeverOverflows, ReadingsAreOwn, Finished,
         FaultReported, Phased, ConsumerAt, ProducerAt
<1>2. Ordered'
  BY DEF PipelineInv, Ordered, Before, Taken, ConsumerAt, ProducerAt
<1>3. Owned' /\ LastOpen'
  BY SameBatches DEF PipelineInv, Owned, RowOK, Taken, ConsumerAt, ProducerAt, BatchDone, Finished
<1> QED
  BY <1>1, <1>2, <1>3 DEF PipelineInv

\* The producer waits, skips, stops or fails: it puts nothing.
LEMMA WaitingSound ==
  ASSUME PipelineInv, Align \/ WaitStops \/ SkipSlow \/ SkipFull \/ ProducerFails
  PROVE  PipelineInv'
<1>0. PipelineTypeOK /\ Ordered /\ Phased /\ Owned /\ clock \in Nat
  BY DEF PipelineInv, PipelineTypeOK
<1>1. /\ UNCHANGED <<clock, pending, batches, consumer, committed>>
      /\ stop' \in BOOLEAN /\ backpressure' \in BOOLEAN
      /\ fault' \in {"none", "acquire"}
  <2>1. Len(pending) < Capacity \/ ~ProducerFails
    BY <1>0 DEF Phased, ProducerFails
  <2> QED
    BY <2>1 DEF Align, WaitStops, SkipSlow, SkipFull, ProducerFails, PipelineInv, PipelineTypeOK, NeverOverflows
<1>2. /\ producer' \in [pc : {"new", "align", "wait", "acquire", "finished"},
                        deadline : Nat, row : CycleRow]
      /\ producer'.pc \in {"align", "wait", "finished"}
      /\ ~ProducerAt("new") /\ ~ProducerAt("finished")
      /\ producer'.pc = "wait" => ProducerAt("align") /\ producer'.deadline = clock + 1
      /\ producer'.pc = "align" =>
           ProducerAt("wait") /\ clock >= producer.deadline
  <2>0. producer \in [pc : {"new", "align", "wait", "acquire", "finished"},
                      deadline : Nat, row : CycleRow]
    BY <1>0 DEF PipelineTypeOK
  <2>1. CASE Align
    <3>1. CASE stop
      BY <2>0, <2>1, <3>1 DEF Align, Finish, ProducerAt
    <3>2. CASE ~stop
      <4>1. /\ producer' = [producer EXCEPT !.pc = "wait", !.deadline = clock + 1]
            /\ producer.pc = "align" /\ clock + 1 \in Nat
        BY <1>0, <2>1, <3>2 DEF Align, ProducerAt, NextSlot
      <4> QED
        BY <2>0, <4>1 DEF ProducerAt
    <3> QED
      BY <3>1, <3>2
  <2>2. CASE WaitStops
    BY <2>0, <2>2 DEF WaitStops, Finish, ProducerAt
  <2>3. CASE SkipSlow \/ SkipFull
    BY <2>0, <2>3 DEF SkipSlow, SkipFull, SlotBegins, ProducerAt
  <2>4. CASE ProducerFails
    BY <2>0, <2>4 DEF ProducerFails, Finish, ProducerAt
  <2> QED
    BY <2>1, <2>2, <2>3, <2>4
<1>3. PipelineTypeOK'
  BY <1>0, <1>1, <1>2 DEF PipelineTypeOK
<1>4. ConsumerAt("prime") => ProducerAt("new")
  BY <1>0 DEF Phased
<1>5. ConsumerAt("exit") => ProducerAt("new") \/ ProducerAt("finished")
  BY <1>0 DEF Phased, ProducerAt
<1>6. NeverOverflows' /\ FaultReported' /\ Phased'
  BY <1>1, <1>2, <1>4, <1>5 DEF PipelineInv, NeverOverflows, FaultReported, Phased, ConsumerAt, ProducerAt
<1>7. ReadingsAreOwn' /\ Owned' /\ LastOpen'
  BY <1>1, <1>2, SameBatches DEF PipelineInv, ReadingsAreOwn, Finished, Owned, RowOK, Taken,
         ConsumerAt, ProducerAt, BatchDone
<1>8. Ordered'
  <2>1. producer'.pc = "wait" => Before(producer'.deadline)
    BY <1>0, <1>2 DEF Ordered
  <2>2. producer'.pc = "align" => Before(clock + 1)
    <3>1. producer.deadline \in Nat
      BY <1>0 DEF PipelineTypeOK
    <3> QED
      BY <1>0, <1>2, <3>1, BeforeLater DEF Ordered
  <2> QED
    BY <1>0, <1>1, <1>2, <2>1, <2>2 DEF Ordered, Before, Taken, ConsumerAt, ProducerAt
<1> QED
  BY <1>3, <1>6, <1>7, <1>8 DEF PipelineInv

LEMMA StartBatchSound ==
  ASSUME PipelineInv, StartBatch
  PROVE  PipelineInv'
<1>0. /\ PipelineTypeOK /\ Ordered /\ Phased /\ Owned /\ LastOpen /\ clock \in Nat
      /\ batches \in Seq(Batch) /\ Len(batches) \in Nat
      /\ UNCHANGED <<clock, stop, fault, pending, backpressure, consumer, committed>>
      /\ ProducerAt("wait") /\ clock >= producer.deadline /\ Len(pending) < Capacity
  BY PipelineConstants DEF PipelineInv, PipelineTypeOK, StartBatch, SlotBegins, QueueFull
<1> DEFINE new == [slot |-> clock, checks |-> [s \in Targets |-> Queued]]
<1>1. new \in Batch /\ \A s \in Targets : new.checks[s].state = "queued"
  BY <1>0 DEF Batch, Queued, Check
<1>2. /\ batches' \in Seq(Batch) /\ Len(batches) <= Len(batches')
      /\ \A b \in DOMAIN batches : b \in DOMAIN batches' /\ batches'[b] = batches[b]
      /\ \A b \in DOMAIN batches' : b \in DOMAIN batches \/ (b = Len(batches') /\ batches'[b] = new)
  BY <1>0, <1>1 DEF StartBatch
<1>3. /\ producer' \in [pc : {"new", "align", "wait", "acquire", "finished"},
                        deadline : Nat, row : CycleRow]
      /\ producer'.pc = "acquire" /\ producer'.row.slot = clock
      /\ producer'.row.batch # 0 =>
           producer'.row.batch \in DOMAIN batches' /\ batches'[producer'.row.batch].slot = clock
  <2> DEFINE row == [slot |-> clock, batch |-> IF Busy THEN NoBatch ELSE Len(batches')]
  <2>1. producer' = [producer EXCEPT !.pc = "acquire", !.row = row]
    BY DEF StartBatch
  <2>2. producer \in [pc : {"new", "align", "wait", "acquire", "finished"},
                      deadline : Nat, row : CycleRow]
    BY <1>0 DEF PipelineTypeOK
  <2>3. row \in CycleRow /\ row.slot = clock
    BY <1>0, <1>2 DEF CycleRow, NoBatch
  <2>4. row.batch # 0 => row.batch \in DOMAIN batches' /\ batches'[row.batch].slot = clock
    BY <1>0, <1>1 DEF StartBatch, NoBatch
  <2> HIDE DEF row
  <2> QED
    BY <2>1, <2>2, <2>3, <2>4
<1> HIDE DEF new
<1>4. \A b \in DOMAIN batches : BatchDone(b)' <=> BatchDone(b)
  BY <1>2 DEF BatchDone, Finished
<1>5. LastOpen'
  <2>1. CASE Busy
    BY <1>0, <2>1, SameBatches DEF StartBatch
  <2>2. CASE ~Busy
    <3>1. \A b \in DOMAIN batches : BatchDone(b)
      BY <1>0, <2>2 DEF LastOpen, Busy
    <3> QED
      BY <1>2, <1>4, <3>1 DEF LastOpen, BatchDone, Finished
  <2> QED
    BY <2>1, <2>2
<1>6. Owned'
  <2>1. \A row : RowOK(row) => RowOK(row)'
    BY <1>2 DEF RowOK
  <2>2. RowOK(producer.row)'
    BY <1>3 DEF RowOK
  <2>3. \A b \in DOMAIN batches', s \in Targets :
          batches'[b].checks[s].state \in {"running", "checked"} =>
            batches'[b].checks[s].at = batches'[b].slot
    BY <1>0, <1>1, <1>2 DEF Owned
  <2>4. ConsumerAt("persist") /\ consumer.row.batch # 0 => BatchDone(consumer.row.batch)'
    BY <1>0, <1>4 DEF Owned, RowOK, Taken, ConsumerAt
  <2>5. (ConsumerAt("persist") /\ consumer.row.batch # 0 => BatchDone(consumer.row.batch))'
    BY <1>0, <2>4 DEF ConsumerAt, BatchDone, Finished
  <2>6. (\A n \in DOMAIN pending : RowOK(pending[n]))' /\ (Taken => RowOK(consumer.row))'
    BY <1>0, <2>1 DEF Owned, Taken, RowOK
  <2> QED
    BY <2>2, <2>3, <2>5, <2>6 DEF Owned
<1>7. Ordered'
  <2>1. Before(clock)
    <3>1. producer.deadline \in Nat
      BY <1>0 DEF PipelineTypeOK
    <3> QED
      BY <1>0, <3>1, BeforeLater DEF Ordered
  <2> QED
    BY <1>0, <1>3, <2>1 DEF Ordered, Before, Taken, ConsumerAt, ProducerAt
<1>8. PipelineTypeOK' /\ NeverOverflows' /\ ReadingsAreOwn' /\ FaultReported' /\ Phased'
  BY <1>0, <1>2, <1>3 DEF PipelineInv, PipelineTypeOK, NeverOverflows, ReadingsAreOwn, Finished,
         FaultReported, Phased, ConsumerAt, ProducerAt
<1> QED
  BY <1>5, <1>6, <1>7, <1>8 DEF PipelineInv

LEMMA PutSound ==
  ASSUME PipelineInv, Put
  PROVE  PipelineInv'
<1>0. /\ PipelineTypeOK /\ Ordered /\ Phased /\ Owned /\ clock \in Nat /\ pending \in Seq(CycleRow)
      /\ ProducerAt("acquire") /\ Len(pending) < Capacity
      /\ UNCHANGED <<clock, stop, fault, batches, backpressure, consumer, committed>>
      /\ producer.row \in CycleRow
  BY RowsTyped DEF PipelineInv, PipelineTypeOK, Put
<1>1. /\ producer' \in [pc : {"new", "align", "wait", "acquire", "finished"},
                        deadline : Nat, row : CycleRow]
      /\ producer'.pc = "align" /\ producer'.row = producer.row
  BY <1>0 DEF Put, PipelineTypeOK
<1>2. /\ pending' \in Seq(CycleRow) /\ Len(pending') = Len(pending) + 1
      /\ \A n \in DOMAIN pending : pending'[n] = pending[n]
      /\ pending'[Len(pending) + 1] = producer.row
      /\ \A n \in DOMAIN pending' : n \in DOMAIN pending \/ n = Len(pending) + 1
  BY <1>0 DEF Put
<1>3. PipelineTypeOK'
  BY <1>0, <1>1, <1>2 DEF PipelineTypeOK
<1>4. NeverOverflows'
  BY <1>0, <1>2, PipelineConstants DEF PipelineInv, NeverOverflows
<1>5. ~ConsumerAt("prime") /\ ~ConsumerAt("exit")
  BY <1>0 DEF Phased, ProducerAt
<1>6. ReadingsAreOwn' /\ FaultReported' /\ Phased'
  BY <1>0, <1>1, <1>5 DEF PipelineInv, ReadingsAreOwn, Finished, FaultReported, Phased,
         ConsumerAt, ProducerAt
<1>7. Owned' /\ LastOpen'
  BY <1>0, <1>1, <1>2, SameBatches DEF PipelineInv, Owned, RowOK, Taken, ConsumerAt, ProducerAt,
         BatchDone, Finished
<1>8. Ordered'
  <2>0. /\ Before(producer.row.slot) /\ producer.row.slot <= clock
        /\ producer.row.slot \in Nat
    BY <1>0, RowsTyped DEF Ordered
  <2>1. Before(clock + 1)
    BY <1>0, <2>0, BeforeLater
  <2>2. \A m, n \in DOMAIN pending' : m < n => pending'[m].slot < pending'[n].slot
    <3> SUFFICES ASSUME NEW m \in DOMAIN pending', NEW n \in DOMAIN pending', m < n
                 PROVE  pending'[m].slot < pending'[n].slot
      OBVIOUS
    <3>1. m \in DOMAIN pending
      BY <1>2
    <3>2. CASE n \in DOMAIN pending
      BY <1>0, <1>2, <3>1, <3>2 DEF Ordered
    <3>3. CASE n = Len(pending) + 1
      BY <1>2, <2>0, <3>1, <3>3 DEF Before
    <3> QED
      BY <1>2, <3>2, <3>3
  <2>3. \A m \in DOMAIN committed, n \in DOMAIN pending' : committed[m].slot < pending'[n].slot
    BY <1>0, <1>2, <2>0 DEF Ordered, Before
  <2>4. Taken => \A n \in DOMAIN pending' : consumer.row.slot < pending'[n].slot
    BY <1>0, <1>2, <2>0 DEF Ordered, Before
  <2>5. \A n \in DOMAIN pending' : pending'[n].slot < clock + 1
    BY <1>0, <1>2, <2>0, <2>1 DEF Before
  <2> QED
    BY <1>0, <1>1, <1>5, <2>1, <2>2, <2>3, <2>4, <2>5 DEF Ordered, Before, Taken, ConsumerAt, ProducerAt
<1> QED
  BY <1>3, <1>4, <1>6, <1>7, <1>8 DEF PipelineInv

\* The consumer moves on without taking or persisting anything.
LEMMA MovingSound ==
  ASSUME PipelineInv, Prime \/ LoopEnds \/ Abandon \/ Complete \/ Join
  PROVE  PipelineInv'
<1>0. PipelineTypeOK /\ Ordered /\ Phased /\ Owned /\ LastOpen /\ FaultReported /\ NeverOverflows
  BY DEF PipelineInv
<1>1. /\ UNCHANGED <<clock, fault, pending, batches, backpressure, committed>>
      /\ stop' \in BOOLEAN
  BY <1>0 DEF Prime, LoopEnds, Abandon, Complete, Join, Leave, PipelineTypeOK
<1>2. /\ consumer \in [pc : {"prime", "get", "services", "persist", "join", "exit"},
                       row : CycleRow, outcome : {"none", "clean", "fault"}]
      /\ producer \in [pc : {"new", "align", "wait", "acquire", "finished"},
                       deadline : Nat, row : CycleRow]
      /\ fault \in {"none", "acquire", "full"} /\ clock \in Nat
  BY <1>0 DEF PipelineTypeOK
<1>3. /\ consumer' \in [pc : {"get", "persist", "join", "exit"},
                        row : CycleRow, outcome : {"none", "clean", "fault"}]
      /\ consumer'.row = consumer.row
      /\ consumer'.pc = "persist" => /\ ConsumerAt("services")
                                     /\ consumer.row.batch # 0 => BatchDone(consumer.row.batch)
      /\ consumer'.pc = "exit" => /\ ConsumerAt("prime") \/ ProducerAt("finished")
                                  /\ fault # "none" => consumer'.outcome = "fault"
      /\ consumer'.pc \in {"get", "persist", "join"} /\ ~ConsumerAt("prime") => UNCHANGED producer
      /\ ConsumerAt("prime") => consumer'.pc \in {"get", "exit"}
      /\ ~ConsumerAt("exit")
  <2>1. CASE Prime
    <3>1. fault = "none"
      BY <1>0, <2>1 DEF Prime, Phased
    <3> QED
      BY <1>2, <2>1, <3>1 DEF Prime, ConsumerAt
  <2>2. CASE LoopEnds \/ Abandon
    BY <1>2, <2>2 DEF LoopEnds, Abandon, Leave, ConsumerAt
  <2>3. CASE Complete
    BY <1>2, <2>3 DEF Complete, ConsumerAt
  <2>4. CASE Join
    BY <1>2, <2>4 DEF Join, FinalOutcome, ConsumerAt
  <2> QED
    BY <2>1, <2>2, <2>3, <2>4
<1>4. /\ producer' \in [pc : {"new", "align", "wait", "acquire", "finished"},
                        deadline : Nat, row : CycleRow]
      /\ \/ UNCHANGED producer /\ (ConsumerAt("prime") => consumer'.pc = "exit")
         \/ ConsumerAt("prime") /\ producer'.pc = "align" /\ consumer'.pc = "get"
  BY <1>2 DEF Prime, LoopEnds, Abandon, Complete, Join, ConsumerAt
<1>5. PipelineTypeOK'
  BY <1>0, <1>1, <1>3, <1>4 DEF PipelineTypeOK
<1>6. NeverOverflows' /\ ReadingsAreOwn' /\ FaultReported'
  BY <1>1, <1>3 DEF PipelineInv, NeverOverflows, ReadingsAreOwn, Finished, FaultReported
<1>7. Phased'
  <2>1. CASE UNCHANGED producer
    BY <1>0, <1>1, <1>2, <1>3, <1>4, <2>1 DEF Phased, ConsumerAt, ProducerAt
  <2>2. CASE producer'.pc = "align" /\ consumer'.pc = "get"
    BY <2>2 DEF Phased, ConsumerAt, ProducerAt
  <2> QED
    BY <1>4, <2>1, <2>2
<1>8. Owned' /\ LastOpen'
  BY <1>0, <1>1, <1>3, <1>4, SameBatches DEF Owned, RowOK, Taken, ConsumerAt, ProducerAt, BatchDone, Finished
<1>9. Ordered'
  <2>1. consumer'.pc \in {"services", "persist"} => Taken
    BY <1>3 DEF Taken, ConsumerAt
  <2>2. ConsumerAt("prime") => pending = <<>> /\ committed = <<>>
    BY <1>0 DEF Ordered
  <2>3. \A x \in Nat : Before(x) => Before(x)'
    BY <1>1, <1>3, <2>1 DEF Before, Taken
  <2>4. /\ producer.deadline \in Nat /\ clock + 1 \in Nat /\ producer.row.slot \in Nat
    BY <1>0, <1>2, RowsTyped
  <2>5. CASE UNCHANGED producer
    BY <1>0, <1>1, <1>3, <2>1, <2>3, <2>4, <2>5 DEF Ordered, Taken, ConsumerAt, ProducerAt, Before
  <2>6. CASE ConsumerAt("prime") /\ producer'.pc = "align" /\ consumer'.pc = "get"
    BY <1>1, <2>2, <2>6 DEF Ordered, Taken, ConsumerAt, ProducerAt, Before
  <2> QED
    BY <1>4, <2>5, <2>6
<1> QED
  BY <1>5, <1>6, <1>7, <1>8, <1>9 DEF PipelineInv

LEMMA GetSound ==
  ASSUME PipelineInv, Get
  PROVE  PipelineInv'
<1>0. /\ PipelineTypeOK /\ Ordered /\ Phased /\ Owned /\ LastOpen /\ clock \in Nat
      /\ pending \in Seq(CycleRow) /\ pending # <<>> /\ ConsumerAt("get")
      /\ UNCHANGED <<clock, stop, producer, fault, batches, backpressure, committed>>
  BY DEF PipelineInv, PipelineTypeOK, Get
<1>1. /\ consumer' \in [pc : {"prime", "get", "services", "persist", "join", "exit"},
                        row : CycleRow, outcome : {"none", "clean", "fault"}]
      /\ consumer'.pc = "services" /\ consumer'.row = pending[1]
  <2>1. pending[1] \in CycleRow /\ Head(pending) = pending[1]
    BY <1>0
  <2>2. consumer' = [consumer EXCEPT !.pc = "services", !.row = pending[1]]
    BY <2>1 DEF Get
  <2>3. consumer \in [pc : {"prime", "get", "services", "persist", "join", "exit"},
                      row : CycleRow, outcome : {"none", "clean", "fault"}]
    BY <1>0 DEF PipelineTypeOK
  <2> QED
    BY <2>1, <2>2, <2>3
<1>2. /\ pending' \in Seq(CycleRow) /\ Len(pending') = Len(pending) - 1
      /\ 1 \in DOMAIN pending
      /\ \A n \in DOMAIN pending' : n + 1 \in DOMAIN pending /\ pending'[n] = pending[n + 1]
      /\ \A n \in DOMAIN pending' : n \in Nat /\ n > 0
  BY <1>0 DEF Get
<1>3. PipelineTypeOK'
  BY <1>0, <1>1, <1>2 DEF PipelineTypeOK
<1>4. NeverOverflows' /\ Phased'
  BY <1>0, <1>1, <1>2, PipelineConstants DEF PipelineInv, NeverOverflows, Phased, ConsumerAt, ProducerAt
<1>5. ReadingsAreOwn' /\ FaultReported'
  BY <1>0, <1>1 DEF PipelineInv, ReadingsAreOwn, Finished, FaultReported
<1>6. Owned' /\ LastOpen'
  BY <1>0, <1>1, <1>2, SameBatches DEF Owned, RowOK, Taken, ConsumerAt, ProducerAt, BatchDone, Finished
<1>7. Ordered'
  <2>1. /\ \A m, n \in DOMAIN pending' : m < n => pending'[m].slot < pending'[n].slot
        /\ \A n \in DOMAIN pending' : pending[1].slot < pending'[n].slot
    <3>1. \A m, n \in DOMAIN pending : m < n => pending[m].slot < pending[n].slot
      BY <1>0 DEF Ordered
    <3>2. ASSUME NEW m \in DOMAIN pending', NEW n \in DOMAIN pending', m < n
          PROVE  pending'[m].slot < pending'[n].slot
      <4>1. m + 1 < n + 1
        BY <1>2, <3>2
      <4> QED
        BY <1>2, <3>1, <4>1
    <3>3. ASSUME NEW n \in DOMAIN pending'
          PROVE  pending[1].slot < pending'[n].slot
      <4>1. 1 < n + 1
        BY <1>2
      <4> QED
        BY <1>2, <3>1, <4>1
    <3> QED
      BY <3>2, <3>3
  <2>2. /\ \A m \in DOMAIN committed, n \in DOMAIN pending' : committed[m].slot < pending'[n].slot
        /\ \A m \in DOMAIN committed : committed[m].slot < pending[1].slot
    BY <1>0, <1>2 DEF Ordered
  <2>3. \A x : Before(x) => Before(x)'
    BY <1>0, <1>1, <1>2 DEF Before
  <2>4. /\ (ProducerAt("align") => Before(clock + 1))'
        /\ (ProducerAt("wait") => Before(producer.deadline))'
        /\ (ProducerAt("acquire") => Before(producer.row.slot) /\ producer.row.slot <= clock)'
    BY <1>0, <2>3 DEF Ordered, ProducerAt, Before, Taken
  <2> QED
    BY <1>0, <1>1, <2>1, <2>2, <2>4 DEF Ordered, Taken, ConsumerAt
<1> QED
  BY <1>3, <1>4, <1>5, <1>6, <1>7 DEF PipelineInv

\* What a cycle with finished checks persists.
LEMMA ReadingsFinished ==
  ASSUME PipelineTypeOK, Owned, ConsumerAt("persist")
  PROVE  /\ Readings(consumer.row) \in [Targets -> Check]
         /\ \A s \in Targets :
              /\ Finished(Readings(consumer.row)[s])
              /\ Readings(consumer.row)[s].state = "checked" =>
                   Readings(consumer.row)[s].at = consumer.row.slot
<1>1. CASE consumer.row.batch = 0
  <2>1. consumer.row.slot \in Nat
    BY RowsTyped
  <2> QED
    BY <1>1, <2>1 DEF Readings, Finished, Check
<1>2. CASE consumer.row.batch # 0
  <2>1. /\ consumer.row.batch \in DOMAIN batches /\ BatchDone(consumer.row.batch)
        /\ batches[consumer.row.batch].slot = consumer.row.slot
    BY <1>2 DEF Owned, RowOK, Taken, ConsumerAt
  <2> QED
    BY <1>2, <2>1, BatchTyped DEF Readings, Owned, BatchDone
<1> QED
  BY <1>1, <1>2

LEMMA PersistSound ==
  ASSUME PipelineInv, Persist \/ PersistFails
  PROVE  PipelineInv'
<1>0. /\ PipelineTypeOK /\ Ordered /\ Phased /\ Owned /\ LastOpen /\ clock \in Nat
      /\ committed \in Seq(Cycle) /\ ConsumerAt("persist") /\ Taken
      /\ UNCHANGED <<clock, producer, fault, pending, batches>>
      /\ stop' \in BOOLEAN /\ backpressure' \in BOOLEAN
  BY DEF PipelineInv, PipelineTypeOK, Persist, PersistFails, Leave, ConsumerAt, Taken
<1>1. /\ consumer' \in [pc : {"prime", "get", "services", "persist", "join", "exit"},
                        row : CycleRow, outcome : {"none", "clean", "fault"}]
      /\ consumer'.pc \in {"get", "join"}
  BY <1>0 DEF Persist, PersistFails, Leave, PipelineTypeOK
<1> DEFINE new == [slot |-> consumer.row.slot, readings |-> Readings(consumer.row)]
<1>2. new \in Cycle
  BY <1>0, ReadingsFinished, RowsTyped DEF Cycle
<1>3. \/ UNCHANGED committed
      \/ /\ committed' \in Seq(Cycle) /\ Len(committed') = Len(committed) + 1
         /\ \A n \in DOMAIN committed : committed'[n] = committed[n]
         /\ committed'[Len(committed) + 1] = new
         /\ \A n \in DOMAIN committed' : n \in DOMAIN committed \/ n = Len(committed) + 1
  <2>1. UNCHANGED committed \/ committed' = Append(committed, new)
    BY DEF Persist, PersistFails, CommitRow
  <2> QED
    BY <1>0, <1>2, <2>1
<1>4. /\ new.slot = consumer.row.slot /\ new.slot \in Nat
      /\ \A s \in Targets : /\ Finished(new.readings[s])
                            /\ new.readings[s].state = "checked" => new.readings[s].at = new.slot
  BY <1>0, ReadingsFinished, RowsTyped
<1> HIDE DEF new
<1>5. PipelineTypeOK'
  BY <1>0, <1>1, <1>3 DEF PipelineTypeOK
<1>6. ReadingsAreOwn'
  BY <1>3, <1>4 DEF PipelineInv, ReadingsAreOwn, Finished
<1>7. NeverOverflows' /\ FaultReported' /\ Phased'
  BY <1>0, <1>1 DEF PipelineInv, NeverOverflows, FaultReported, Phased, ConsumerAt, ProducerAt
<1>8. Owned' /\ LastOpen'
  BY <1>0, <1>1, SameBatches DEF Owned, RowOK, Taken, ConsumerAt, ProducerAt
<1>9. Ordered'
  <2>1. \A m, n \in DOMAIN committed' : m < n => committed'[m].slot < committed'[n].slot
    <3> SUFFICES ASSUME NEW m \in DOMAIN committed', NEW n \in DOMAIN committed', m < n
                 PROVE  committed'[m].slot < committed'[n].slot
      OBVIOUS
    <3>1. m \in DOMAIN committed
      BY <1>0, <1>3
    <3>2. CASE n \in DOMAIN committed
      BY <1>0, <1>3, <3>1, <3>2 DEF Ordered
    <3>3. CASE n \notin DOMAIN committed
      BY <1>0, <1>3, <1>4, <3>1, <3>3 DEF Ordered
    <3> QED
      BY <3>2, <3>3
  <2>2. \A m \in DOMAIN committed', n \in DOMAIN pending : committed'[m].slot < pending[n].slot
    BY <1>0, <1>3, <1>4 DEF Ordered
  <2>3. \A x : Before(x) => Before(x)'
    BY <1>0, <1>1, <1>3, <1>4 DEF Before, Taken
  <2>4. /\ (ProducerAt("align") => Before(clock + 1))'
        /\ (ProducerAt("wait") => Before(producer.deadline))'
        /\ (ProducerAt("acquire") => Before(producer.row.slot) /\ producer.row.slot <= clock)'
    BY <1>0, <2>3 DEF Ordered, ProducerAt, Before, Taken
  <2> QED
    BY <1>0, <1>1, <2>1, <2>2, <2>4 DEF Ordered, Taken, ConsumerAt
<1> QED
  BY <1>5, <1>6, <1>7, <1>8, <1>9 DEF PipelineInv

LEMMA PipelineKept == PipelineInv /\ [PipelineNext]_pipelineVars => PipelineInv'
<1> SUFFICES ASSUME PipelineInv, PipelineNext \/ UNCHANGED pipelineVars
             PROVE  PipelineInv'
  OBVIOUS
<1>1. stop \in BOOLEAN /\ backpressure \in BOOLEAN
  BY DEF PipelineInv, PipelineTypeOK
<1>2. CASE UNCHANGED pipelineVars \/ Signal
  BY <1>1, <1>2, SignalSound DEF pipelineVars, Signal
<1>3. CASE Tick
  BY <1>3, TickSound
<1>4. CASE CheckStep
  BY <1>4, CheckSound
<1>5. CASE ProducerStep
  BY <1>5, WaitingSound, StartBatchSound, PutSound DEF ProducerStep
<1>6. CASE ConsumerStep
  BY <1>6, MovingSound, GetSound, PersistSound DEF ConsumerStep
<1> QED
  BY <1>2, <1>3, <1>4, <1>5, <1>6 DEF PipelineNext

-----------------------------------------------------------------------------
(* From the parts of the order to the order of all slots.                  *)

Rising(q) == \A m, n \in DOMAIN q : m < n => q[m] < q[n]
AllBefore(p, q) == \A m \in DOMAIN p, n \in DOMAIN q : p[m] < q[n]

LEMMA JoinRising ==
  ASSUME NEW p \in Seq(Nat), NEW q \in Seq(Nat), Rising(p), Rising(q), AllBefore(p, q)
  PROVE  Rising(p \o q) /\ p \o q \in Seq(Nat)
<1>1. /\ Len(p \o q) = Len(p) + Len(q) /\ p \o q \in Seq(Nat)
      /\ Len(p) \in Nat /\ Len(q) \in Nat
      /\ \A n \in 1 .. Len(p) : (p \o q)[n] = p[n]
      /\ \A n \in Len(p) + 1 .. Len(p) + Len(q) : (p \o q)[n] = q[n - Len(p)]
  OBVIOUS
<1>2. ASSUME NEW m \in DOMAIN (p \o q), NEW n \in DOMAIN (p \o q), m < n
      PROVE  (p \o q)[m] < (p \o q)[n]
  <2>0. m \in 1 .. Len(p) + Len(q) /\ n \in 1 .. Len(p) + Len(q)
    BY <1>1
  <2>1. CASE n <= Len(p)
    BY <1>1, <1>2, <2>0, <2>1 DEF Rising
  <2>2. CASE m <= Len(p) /\ n > Len(p)
    <3>1. m \in DOMAIN p /\ n - Len(p) \in DOMAIN q
      BY <1>1, <2>0, <2>2
    <3> QED
      BY <1>1, <2>0, <2>2, <3>1 DEF AllBefore
  <2>3. CASE m > Len(p)
    <3>1. m - Len(p) \in DOMAIN q /\ n - Len(p) \in DOMAIN q /\ m - Len(p) < n - Len(p)
      BY <1>1, <1>2, <2>0, <2>3
    <3> QED
      BY <1>1, <1>2, <2>0, <2>3, <3>1 DEF Rising
  <2> QED
    BY <1>1, <2>0, <2>1, <2>2, <2>3
<1> QED
  BY <1>1, <1>2 DEF Rising

LEMMA JoinBefore ==
  ASSUME NEW p \in Seq(Nat), NEW q \in Seq(Nat), NEW r \in Seq(Nat),
         AllBefore(p, r), AllBefore(q, r)
  PROVE  AllBefore(p \o q, r)
<1> SUFFICES ASSUME NEW m \in DOMAIN (p \o q), NEW n \in DOMAIN r
             PROVE  (p \o q)[m] < r[n]
  BY DEF AllBefore
<1>1. CASE m \in 1 .. Len(p)
  BY <1>1 DEF AllBefore
<1>2. CASE m \in Len(p) + 1 .. Len(p) + Len(q)
  <2>1. (p \o q)[m] = q[m - Len(p)] /\ m - Len(p) \in DOMAIN q
    BY <1>2
  <2> QED
    BY <2>1 DEF AllBefore
<1> QED
  BY <1>1, <1>2

LEMMA SlotsRise == PipelineInv => OnePerSlot
<1> SUFFICES ASSUME PipelineInv PROVE OnePerSlot
  OBVIOUS
<1> DEFINE C == [n \in DOMAIN committed |-> committed[n].slot]
           T == IF consumer.pc \in {"services", "persist"} THEN <<consumer.row.slot>> ELSE <<>>
           P == [n \in DOMAIN pending |-> pending[n].slot]
           A == IF ProducerAt("acquire") THEN <<producer.row.slot>> ELSE <<>>
<1>0. Ordered /\ PipelineTypeOK
  BY DEF PipelineInv
<1>1. C \in Seq(Nat) /\ T \in Seq(Nat) /\ P \in Seq(Nat) /\ A \in Seq(Nat)
  <2>1. C \in [1 .. Len(committed) -> Nat] /\ Len(committed) \in Nat
    BY <1>0, RowsTyped DEF PipelineTypeOK
  <2>2. P \in [1 .. Len(pending) -> Nat] /\ Len(pending) \in Nat
    BY <1>0, RowsTyped DEF PipelineTypeOK
  <2>3. consumer.row.slot \in Nat /\ producer.row.slot \in Nat
    BY <1>0, RowsTyped
  <2> QED
    BY <2>1, <2>2, <2>3
<1>2. Rising(C) /\ Rising(T) /\ Rising(P) /\ Rising(A)
  BY <1>0 DEF Rising, Ordered
<1>3. AllBefore(C, T) /\ AllBefore(C, P) /\ AllBefore(T, P)
  BY <1>0 DEF AllBefore, Ordered, Taken
<1>4. AllBefore(C, A) /\ AllBefore(T, A) /\ AllBefore(P, A)
  BY <1>0 DEF AllBefore, Ordered, Before, Taken
<1>5. Slots = ((C \o T) \o P) \o A
  BY DEF Slots
<1> HIDE DEF C, T, P, A
<1>6. Rising(C \o T) /\ C \o T \in Seq(Nat) /\ AllBefore(C \o T, P) /\ AllBefore(C \o T, A)
  BY <1>1, <1>2, <1>3, <1>4, JoinRising, JoinBefore
<1>7. /\ Rising((C \o T) \o P) /\ (C \o T) \o P \in Seq(Nat)
      /\ AllBefore((C \o T) \o P, A)
  BY <1>1, <1>2, <1>4, <1>6, JoinRising, JoinBefore
<1>8. Rising(Slots)
  BY <1>1, <1>2, <1>5, <1>7, JoinRising
<1> QED
  BY <1>8 DEF Rising, OnePerSlot

-----------------------------------------------------------------------------
(* The end of the process.                                                 *)

LEMMA PlacesTyped ==
  ASSUME PipelineTypeOK
  PROVE  /\ producer.pc \in {"new", "align", "wait", "acquire", "finished"}
         /\ consumer.pc \in {"prime", "get", "services", "persist", "join", "exit"}
         /\ Len(pending) \in Nat /\ (pending = <<>> <=> Len(pending) = 0)
         /\ ProducerLeft \in 0..5 /\ ConsumerLeft \in 0..4
<1>1. /\ producer.pc \in {"new", "align", "wait", "acquire", "finished"}
      /\ consumer.pc \in {"prime", "get", "services", "persist", "join", "exit"}
      /\ pending \in Seq(CycleRow)
  BY DEF PipelineTypeOK
<1>2. Len(pending) \in Nat /\ (pending = <<>> <=> Len(pending) = 0)
  BY <1>1
<1> QED
  BY <1>1, <1>2 DEF ProducerLeft, ConsumerLeft, ProducerAt, ConsumerAt

\* Arithmetic of what is left.
LEMMA LeftBound ==
  ASSUME NEW p \in 0..5, NEW c \in 0..4, NEW n \in Nat, NEW m \in Nat, n <= m,
         p > 1 => n < m, p + c > 0
  PROVE  p + c + 3 * n \in 1..(3 * m + 6)
OBVIOUS

LEMMA NeverWaits == PipelineInv => ShutdownNeverWaits
<1> SUFFICES ASSUME PipelineInv, stop, consumer.pc # "exit"
             PROVE  (ProducerCanStop \/ ConsumerCanStop) /\ StepsLeft \in 1..(3 * Capacity + 6)
  BY DEF ShutdownNeverWaits
<1>1. /\ producer.pc \in {"new", "align", "wait", "acquire", "finished"}
      /\ consumer.pc \in {"prime", "get", "services", "persist", "join", "exit"}
      /\ Len(pending) \in Nat /\ (pending = <<>> <=> Len(pending) = 0)
      /\ ProducerLeft \in 0..5 /\ ConsumerLeft \in 0..4
  BY PlacesTyped DEF PipelineInv
<1>2. ProducerCanStop \/ ConsumerCanStop
  BY <1>1 DEF ProducerCanStop, ConsumerCanStop, ProducerAt, ConsumerAt, PipelineInv, Phased
<1>3. ConsumerLeft > 0
  BY <1>1 DEF ConsumerLeft, ConsumerAt
<1>4. ProducerLeft > 1 => Len(pending) < Capacity
  BY DEF ProducerLeft, PipelineInv, Phased, ProducerAt
<1>5. Capacity \in Nat /\ Len(pending) <= Capacity
  BY PipelineConstants DEF PipelineInv, NeverOverflows
<1>6. ProducerLeft + ConsumerLeft > 0
  BY <1>1, <1>3
<1> QED
  BY <1>1, <1>2, <1>4, <1>5, <1>6, LeftBound DEF StepsLeft

LEMMA StepNearer ==
  ASSUME PipelineInv, PipelineInv', [PipelineNext]_pipelineVars, stop
  PROVE  StepsLeft' < StepsLeft \/ UNCHANGED <<producer, consumer, pending>>
<1>1. /\ producer.pc \in {"new", "align", "wait", "acquire", "finished"}
      /\ consumer.pc \in {"prime", "get", "services", "persist", "join", "exit"}
      /\ Len(pending) \in Nat /\ ProducerLeft \in 0..5 /\ ConsumerLeft \in 0..4
  BY PlacesTyped DEF PipelineInv
<1>2. ProducerLeft' \in 0..5 /\ ConsumerLeft' \in 0..4
  BY DEF ProducerLeft, ConsumerLeft
<1>3. /\ producer \in [pc : {"new", "align", "wait", "acquire", "finished"},
                      deadline : Nat, row : CycleRow]
      /\ consumer \in [pc : {"prime", "get", "services", "persist", "join", "exit"},
                      row : CycleRow, outcome : {"none", "clean", "fault"}]
      /\ pending \in Seq(CycleRow)
  BY DEF PipelineInv, PipelineTypeOK
<1>4. CASE UNCHANGED pipelineVars \/ Signal \/ Tick \/ CheckStep
  BY <1>4 DEF pipelineVars, Signal, Tick, CheckStep, StartCheck, EndCheck
<1>5. CASE Align \/ WaitStops \/ SkipSlow \/ SkipFull \/ StartBatch \/ ProducerFails
  <2>1. producer.pc \in {"align", "wait", "acquire"} /\ producer'.pc = "finished"
        /\ UNCHANGED <<pending, consumer>>
    BY <1>3, <1>5 DEF Align, WaitStops, SkipSlow, SkipFull, StartBatch, ProducerFails, Finish,
       SlotBegins, ProducerAt
  <2>2. ProducerLeft' = 0 /\ ProducerLeft > 0 /\ ConsumerLeft' = ConsumerLeft
    BY <2>1 DEF ProducerLeft, ConsumerLeft, ProducerAt, ConsumerAt
  <2>3. Len(pending)' = Len(pending)
    BY <2>1
  <2> QED
    BY <1>1, <2>2, <2>3 DEF StepsLeft
<1>6. CASE Put
  <2>1. producer.pc = "acquire" /\ producer'.pc = "align" /\ consumer' = consumer
        /\ pending' = Append(pending, producer.row) /\ producer.row \in CycleRow
    BY <1>3, <1>6 DEF Put, ProducerAt
  <2>2. ProducerLeft' = 1 /\ ProducerLeft = 5 /\ ConsumerLeft' = ConsumerLeft
    BY <2>1 DEF ProducerLeft, ConsumerLeft, ProducerAt, ConsumerAt
  <2>3. Len(pending)' = Len(pending) + 1
    BY <1>3, <2>1
  <2> QED
    BY <1>1, <2>2, <2>3 DEF StepsLeft
<1>7. CASE Get
  <2>1. consumer.pc = "get" /\ consumer'.pc = "services" /\ producer' = producer
        /\ pending # <<>> /\ pending' = Tail(pending)
    BY <1>3, <1>7 DEF Get, ConsumerAt
  <2>2. ConsumerLeft' = 4 /\ ConsumerLeft = 2 /\ ProducerLeft' = ProducerLeft
    BY <2>1 DEF ProducerLeft, ConsumerLeft, ProducerAt, ConsumerAt
  <2>3. Len(pending)' = Len(pending) - 1
    BY <1>3, <2>1
  <2> QED
    BY <1>1, <2>2, <2>3 DEF StepsLeft
<1>8. CASE Prime \/ LoopEnds \/ Abandon \/ Complete \/ Persist \/ PersistFails \/ Join
  <2>1. /\ UNCHANGED <<pending, producer>>
        /\ \/ consumer.pc = "prime" /\ consumer'.pc = "exit"
           \/ consumer.pc = "get" /\ consumer'.pc = "join"
           \/ consumer.pc = "services" /\ consumer'.pc \in {"join", "persist"}
           \/ consumer.pc = "persist" /\ consumer'.pc \in {"get", "join"}
           \/ consumer.pc = "join" /\ consumer'.pc = "exit"
    BY <1>3, <1>8 DEF Prime, LoopEnds, Abandon, Complete, Persist, PersistFails, Join, Leave, ConsumerAt
  <2>2. ConsumerLeft' < ConsumerLeft
    BY <2>1 DEF ConsumerLeft, ConsumerAt
  <2>3. ProducerLeft' = ProducerLeft /\ Len(pending)' = Len(pending)
    BY <2>1 DEF ProducerLeft, ProducerAt
  <2> QED
    BY <1>1, <1>2, <2>2, <2>3 DEF StepsLeft
<1> QED
  BY <1>4, <1>5, <1>6, <1>7, <1>8 DEF PipelineNext, ProducerStep, ConsumerStep

\* The queue never overflows, one batch of checks runs at a time, every
\* persisted cycle is of its own slot and has readings of that slot, and a
\* fault of the producer is the fault of the process; after a stop the threads
\* never wait for one another (run_sampled, run_pipeline, ServiceBatches), for
\* any capacity and any services.
THEOREM CyclesSound == PipelineSpec => []PipelineSound
<1>1. PipelineInv => PipelineSound
  <2>1. LastOpen /\ PipelineTypeOK => OneBatch
    <3> SUFFICES ASSUME LastOpen, PipelineTypeOK, NEW a \in DOMAIN batches, NEW b \in DOMAIN batches,
                        ~BatchDone(a), ~BatchDone(b)
                 PROVE  a = b
      BY DEF OneBatch
    <3> QED
      BY DEF LastOpen, PipelineTypeOK
  <2> QED
    BY <2>1, SlotsRise, NeverWaits DEF PipelineInv, PipelineSound
<1> QED
  BY <1>1, PipelineStarts, PipelineKept, PTL DEF PipelineSpec

\* Once the process is to stop, each step of its threads brings the end nearer
\* and nothing puts it off: with a queue of Capacity cycles at most
\* 3 * Capacity + 6 of them are left (ShutdownNeverWaits), whatever hangs.
THEOREM ShutdownIsBounded == PipelineSpec => ShutdownAdvances
<1> DEFINE Nearer == stop => StepsLeft' < StepsLeft \/ UNCHANGED <<producer, consumer, pending>>
<1>1. PipelineInv /\ PipelineInv' /\ [PipelineNext]_pipelineVars => [Nearer]_pipelineVars
  BY StepNearer
<1> HIDE DEF Nearer
<1>2. PipelineSpec => [][Nearer]_pipelineVars
  BY <1>1, PipelineStarts, PipelineKept, PTL DEF PipelineSpec
<1> QED
  BY <1>2, PTL DEF ShutdownAdvances, Nearer
=============================================================================
