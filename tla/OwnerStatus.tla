---------------------------- MODULE OwnerStatus -----------------------------
(***************************************************************************)
(* What the owner is told to attend to: deriveOwnerMetrics of              *)
(* src/lib/metrics/reader.ts, deriveOwnerAttention of status-page.ts,      *)
(* observabilityAttentionItems of OwnerAttentionSummary.tsx, and the page  *)
(* that drops items of version 1 when version 2 can be read.               *)
(*                                                                         *)
(* Abstractions.  A trouble is a resource over its threshold, a service    *)
(* that is not up, or a container that is not; how bad it is, is left out. *)
(* What version 2 itself complains of (a capability, its coverage, a       *)
(* diagnostic) is there or not.  Time passes as in PublicStatus.           *)
(***************************************************************************)
EXTENDS Integers

CONSTANTS
  Resources, \* of the troubles a sample can hold: "cpu", "ram", "disk"
  Others,    \* the others: "services", "containers"
  OwnerFresh1, OwnerGone1, OwnerFresh2, OwnerGone2

ASSUME OwnerStatusConstants ==
  /\ {OwnerFresh1, OwnerGone1, OwnerFresh2, OwnerGone2} \subseteq Nat
  /\ OwnerFresh1 < OwnerGone1 /\ OwnerFresh2 < OwnerGone2

VARIABLES
  trouble,  \* per trouble: [there, since]
  seen1,    \* the latest sample of version 1: [age, troubles]
  seen2,    \* the latest owner projection: [age, complains]
  readable2 \* version 2 is on, its latest and its series can be read

ownerStatusVars == <<trouble, seen1, seen2, readable2>>

-----------------------------------------------------------------------------
Troubles == Resources \cup Others
LongAgo == OwnerFresh1 + 1
OwnerAged(age, limit) == IF age < limit THEN age + 1 ELSE age

OwnerStatusInit ==
  /\ trouble = [t \in Troubles |-> [there |-> FALSE, since |-> LongAgo]]
  /\ seen1 = [age |-> OwnerGone1 + 1, troubles |-> {}]
  /\ seen2 = [age |-> OwnerGone2 + 1, complains |-> FALSE]
  /\ readable2 = FALSE

OwnerTimePasses ==
  /\ trouble' = [t \in Troubles |-> [trouble[t] EXCEPT !.since = OwnerAged(@, LongAgo)]]
  /\ seen1' = [seen1 EXCEPT !.age = OwnerAged(@, OwnerGone1 + 1)]
  /\ seen2' = [seen2 EXCEPT !.age = OwnerAged(@, OwnerGone2 + 1)]
  /\ UNCHANGED readable2

TroubleComesOrGoes ==
  /\ \E t \in Troubles : trouble' = [trouble EXCEPT ![t] = [there |-> ~@.there, since |-> 0]]
  /\ UNCHANGED <<seen1, seen2, readable2>>

OwnerArrives1 ==
  /\ seen1' = [age |-> 0, troubles |-> {t \in Troubles : trouble[t].there}]
  /\ UNCHANGED <<trouble, seen2, readable2>>

OwnerArrives2 ==
  /\ \E complains \in BOOLEAN : seen2' = [age |-> 0, complains |-> complains]
  /\ UNCHANGED <<trouble, seen1, readable2>>

Version2Turns ==
  /\ readable2' = ~readable2
  /\ UNCHANGED <<trouble, seen1, seen2>>

OwnerStatusNext ==
  \/ OwnerTimePasses \/ TroubleComesOrGoes \/ OwnerArrives1 \/ OwnerArrives2 \/ Version2Turns

OwnerStatusSpec == OwnerStatusInit /\ [][OwnerStatusNext]_ownerStatusVars

-----------------------------------------------------------------------------
\* Mutant: a sample that has not gone is good enough.
StillThere == IF seen1.age <= OwnerGone1 THEN {} ELSE {"metrics"}
\* deriveOwnerAttention: how current the sample is, and what it shows.
Delayed1 == IF seen1.age <= OwnerFresh1 THEN {} ELSE {"metrics"}
Attention1 == Delayed1 \cup seen1.troubles

\* observabilityAttentionItems.
Attention2 ==
  (IF seen2.age <= OwnerFresh2 THEN {} ELSE {"observability"})
    \cup (IF seen2.complains THEN {"complaint"} ELSE {})

\* The page: with version 2, freshness and resources of version 1 are left out.
Attention ==
  IF readable2 THEN (Attention1 \ (Resources \cup {"metrics"})) \cup Attention2
  ELSE Attention1

Quiet == Attention = {}
WasAbsent(t) == ~trouble[t].there \/ trouble[t].since <= OwnerFresh1

OwnerStatusTypeOK ==
  /\ \A t \in Troubles : trouble[t].there \in BOOLEAN /\ trouble[t].since \in 0..LongAgo
  /\ seen1.age \in 0..(OwnerGone1 + 1) /\ seen1.troubles \subseteq Troubles
  /\ seen2.age \in 0..(OwnerGone2 + 1) /\ readable2 \in BOOLEAN

\* As long as only version 1 is read, "No attention needed" is said only when
\* no trouble has lasted for longer than a sample may be old.
QuietWithoutV2 ==
  OwnerStatusTypeOK /\ (Quiet /\ ~readable2 => \A t \in Troubles : WasAbsent(t))

\* "No attention needed" only when freshness, resource thresholds, services
\* and containers are healthy, whichever version is read: no trouble that is
\* there to be seen in a current sample is passed over.
QuietIsHealthy ==
  Quiet /\ seen1.age <= OwnerFresh1 => \A t \in seen1.troubles : WasAbsent(t)
=============================================================================
