---------------------------- MODULE StatusProofs ----------------------------
(***************************************************************************)
(* Proofs about what is said of the services: to the public                *)
(* (PublicStatus), to the owner (OwnerStatus), by the caches behind the    *)
(* other pages (Caches), and in the list of projects (ProjectList).  The   *)
(* four share nothing but this module.                                     *)
(***************************************************************************)
EXTENDS PublicStatus, OwnerStatus, Caches, ProjectList, FiniteSetTheorems, TLAPS

------------------------------------------------------------------------------
(* The public status, for every set of services, window and limit.  The    *)
(* invariant carries the evidence: a service that a sample calls up or     *)
(* down was up or down within the age of that sample, and a stored answer  *)
(* of the feed was true when it was made.                                  *)

Evidence1 ==
  \A s \in Public : sample1.age <= Fresh1 /\ sample1.status[s] = "up" => WasUp(s, sample1.age)
Evidence2 ==
  \A s \in Public : latest2.age <= Fresh2 /\ latest2.status[s] = "up" => WasUp(s, latest2.age)
Remembered ==
  cached.kind = "operational" => \A s \in Public : WasUp(s, Fresh2 + cached.age)
Evidence == StatusTypeOK /\ Evidence1 /\ Evidence2 /\ Remembered

LEMMA LongestFacts ==
  /\ Longest \in Nat /\ Fresh1 + 1 < Longest /\ Fresh2 + CacheFor + 1 < Longest
BY StatusConstants DEF Longest

LEMMA EvidenceInit == StatusInit => Evidence
<1> SUFFICES ASSUME StatusInit PROVE Evidence
  OBVIOUS
<1>1. StatusTypeOK
  BY LongestFacts, StatusConstants
  DEF StatusInit, StatusTypeOK, Statuses, Unmeasured, NoAnswer, Kinds
<1> QED
  BY <1>1 DEF StatusInit, Evidence, Evidence1, Evidence2, Remembered, Unmeasured, NoAnswer

\* What follows of the claims of version 2, for a page and for the feed.
LEMMA Operational2 ==
  ASSUME Evidence, NEW kind \in {Status2, ProjectedState}, kind = "operational",
         Freshness2 = "fresh", NEW s \in Public
  PROVE  WasUp(s, Fresh2)
<1>1. ProjectedState = "operational"
  BY DEF Status2, NotFresh
<1>2. latest2.status[s] = "up" /\ latest2.age <= Fresh2
  BY <1>1 DEF ProjectedState, Evidence, StatusTypeOK, Statuses, Freshness2, Freshness
<1>3. WasUp(s, latest2.age)
  BY <1>2 DEF Evidence, Evidence2
<1> QED
  BY <1>2, <1>3, LongestFacts, StatusConstants DEF WasUp, Evidence, StatusTypeOK

LEMMA Fresh2WhenOperational == Status2 = "operational" => Freshness2 = "fresh"
BY DEF Status2, NotFresh

\* Time: evidence ages by one tick, and so does what it is about.
LEMMA TimeKeeps ==
  ASSUME Evidence, TimePasses
  PROVE  Evidence'
<1> USE LongestFacts, StatusConstants
<1>1. /\ truth \in [Public -> [up : BOOLEAN, since : 0..Longest]]
      /\ sample1.age \in Nat /\ latest2.age \in Nat /\ cached.age \in Nat
  BY DEF Evidence, StatusTypeOK
<1>2. StatusTypeOK'
  <2>1. truth' \in [Public -> [up : BOOLEAN, since : 0..Longest]]
    BY <1>1 DEF TimePasses, Aged
  <2>2. sample1' \in [age : 0..(Gone1 + 1), status : [Public -> Statuses], disk : {"ok", "critical"}]
    BY DEF TimePasses, Aged, Evidence, StatusTypeOK
  <2>3. latest2' \in [age : 0..(Gone2 + 1), status : [Public -> Statuses], host : BOOLEAN]
    BY DEF TimePasses, Aged, Evidence, StatusTypeOK
  <2>4. cached' \in [age : 0..(CacheFor + 1), kind : Kinds]
    BY DEF TimePasses, Evidence, StatusTypeOK, NoAnswer, Kinds
  <2> QED
    BY <2>1, <2>2, <2>3, <2>4 DEF TimePasses, Evidence, StatusTypeOK
<1>3. ASSUME NEW s \in Public, NEW w \in Nat, WasUp(s, w)
      PROVE  WasUp(s, w + 1)'
  <2>1. truth'[s].up = truth[s].up /\ truth'[s].since <= truth[s].since + 1
    BY <1>1 DEF TimePasses, Aged
  <2>2. truth[s].since \in Nat /\ truth'[s].since \in Nat
    BY <1>1, <1>2 DEF StatusTypeOK
  <2>3. CASE truth[s].up
    BY <2>1, <2>3 DEF WasUp
  <2>4. CASE truth[s].since <= w
    <3>1. truth'[s].since <= w + 1
      BY <2>1, <2>2, <2>4
    <3> QED
      BY <3>1 DEF WasUp
  <2> QED
    BY <1>3, <2>3, <2>4 DEF WasUp
<1>4. Evidence1'
  <2> SUFFICES ASSUME NEW s \in Public, sample1'.age <= Fresh1, sample1'.status[s] = "up"
               PROVE  WasUp(s, sample1.age)'
    BY DEF Evidence1
  <2>1. sample1'.age = sample1.age + 1 /\ sample1'.status = sample1.status
    BY <1>1 DEF TimePasses, Aged, Evidence, StatusTypeOK
  <2>2. WasUp(s, sample1.age)
    BY <1>1, <2>1 DEF Evidence, Evidence1
  <2> QED
    BY <1>1, <1>3, <2>1, <2>2
<1>5. Evidence2'
  <2> SUFFICES ASSUME NEW s \in Public, latest2'.age <= Fresh2, latest2'.status[s] = "up"
               PROVE  WasUp(s, latest2.age)'
    BY DEF Evidence2
  <2>1. latest2'.age = latest2.age + 1 /\ latest2'.status = latest2.status
    BY <1>1 DEF TimePasses, Aged, Evidence, StatusTypeOK
  <2>2. WasUp(s, latest2.age)
    BY <1>1, <2>1 DEF Evidence, Evidence2
  <2> QED
    BY <1>1, <1>3, <2>1, <2>2
<1>6. Remembered'
  <2> SUFFICES ASSUME cached'.kind = "operational", NEW s \in Public
               PROVE  WasUp(s, Fresh2 + cached.age)'
    BY DEF Remembered
  <2>1. cached'.age = cached.age + 1 /\ cached'.kind = cached.kind
    BY <1>1 DEF TimePasses, NoAnswer, Evidence, StatusTypeOK
  <2>2. WasUp(s, Fresh2 + cached.age)
    BY <2>1 DEF Evidence, Remembered
  <2>3. Fresh2 + cached.age \in Nat /\ Fresh2 + cached'.age = (Fresh2 + cached.age) + 1
    BY <1>1, <2>1
  <2>4. truth'[s].up \/ truth'[s].since <= (Fresh2 + cached.age) + 1
    BY <1>3, <2>2, <2>3 DEF WasUp
  <2> QED
    BY <2>3, <2>4 DEF WasUp
<1> QED
  BY <1>2, <1>4, <1>5, <1>6 DEF Evidence

\* A service that changes was, a moment ago, what it was before.
LEMMA ChangeKeeps ==
  ASSUME Evidence, Changes
  PROVE  Evidence'
<1> USE LongestFacts, StatusConstants
<1>1. PICK c \in Public : truth' = [truth EXCEPT ![c] = [up |-> ~truth[c].up, since |-> 0]]
  BY DEF Changes
<1>2. StatusTypeOK'
  <2>1. [up |-> ~truth[c].up, since |-> 0] \in [up : BOOLEAN, since : 0..Longest]
    BY DEF Evidence, StatusTypeOK
  <2>2. truth' \in [Public -> [up : BOOLEAN, since : 0..Longest]]
    BY <1>1, <2>1 DEF Evidence, StatusTypeOK
  <2> QED
    BY <2>2 DEF Changes, Evidence, StatusTypeOK
<1>3. ASSUME NEW s \in Public, NEW w \in Nat, WasUp(s, w)
      PROVE  WasUp(s, w)'
  <2>1. CASE s = c
    <3>1. truth'[s].since = 0
      BY <1>1, <2>1 DEF Evidence, StatusTypeOK
    <3> QED
      BY <3>1 DEF WasUp
  <2>2. CASE s # c
    BY <1>1, <1>3, <2>2 DEF WasUp, Evidence, StatusTypeOK
  <2> QED
    BY <2>1, <2>2
<1>4. sample1.age \in Nat /\ latest2.age \in Nat /\ Fresh2 + cached.age \in Nat
  BY DEF Evidence, StatusTypeOK
<1>5. UNCHANGED <<sample1, latest2, cached>>
  BY DEF Changes
<1>6. Evidence1' /\ Evidence2' /\ Remembered'
  <2>1. Evidence1'
    BY <1>3, <1>4, <1>5 DEF Evidence, Evidence1
  <2>2. Evidence2'
    BY <1>3, <1>4, <1>5 DEF Evidence, Evidence2
  <2>3. Remembered'
    BY <1>3, <1>4, <1>5 DEF Evidence, Remembered
  <2> QED
    BY <2>1, <2>2, <2>3
<1> QED
  BY <1>2, <1>6 DEF Evidence

\* A sample that arrives was true when it was made.
LEMMA FoundWasTrue ==
  ASSUME StatusTypeOK, NEW s \in Public, NEW delay \in 0..MaxDelay, NEW m \in Measured(delay),
         m[s] = "up"
  PROVE  WasUp(s, delay)
BY DEF Measured, Found, WasUp

LEMMA Arrival1Keeps ==
  ASSUME Evidence, Arrives1
  PROVE  Evidence'
<1> USE LongestFacts, StatusConstants
<1>0. PICK delay \in 0..MaxDelay : \E m \in Measured(delay), disk \in {"ok", "critical"} :
        delay < sample1.age /\ sample1' = [age |-> delay, status |-> m, disk |-> disk]
  BY DEF Arrives1
<1>1. PICK m \in Measured(delay), disk \in {"ok", "critical"} :
        delay < sample1.age /\ sample1' = [age |-> delay, status |-> m, disk |-> disk]
  BY <1>0
<1>2. StatusTypeOK'
  BY <1>1 DEF Arrives1, Evidence, StatusTypeOK, Measured
<1>3. Evidence1'
  <2> SUFFICES ASSUME NEW s \in Public, sample1'.status[s] = "up"
               PROVE  WasUp(s, sample1.age)'
    BY DEF Evidence1
  <2>1. WasUp(s, delay)
    BY <1>1, FoundWasTrue DEF Evidence
  <2> QED
    BY <1>1, <2>1 DEF WasUp, Arrives1
<1>4. Evidence2' /\ Remembered'
  BY DEF Arrives1, Evidence, Evidence2, Remembered, WasUp
<1> QED
  BY <1>2, <1>3, <1>4 DEF Evidence

LEMMA Arrival2Keeps ==
  ASSUME Evidence, Arrives2
  PROVE  Evidence'
<1> USE LongestFacts, StatusConstants
<1>0. PICK delay \in 0..MaxDelay : \E m \in Measured(delay), host \in BOOLEAN :
        delay < latest2.age /\ latest2' = [age |-> delay, status |-> m, host |-> host]
  BY DEF Arrives2
<1>1. PICK m \in Measured(delay), host \in BOOLEAN :
        delay < latest2.age /\ latest2' = [age |-> delay, status |-> m, host |-> host]
  BY <1>0
<1>2. StatusTypeOK'
  BY <1>1 DEF Arrives2, Evidence, StatusTypeOK, Measured
<1>3. Evidence2'
  <2> SUFFICES ASSUME NEW s \in Public, latest2'.status[s] = "up"
               PROVE  WasUp(s, latest2.age)'
    BY DEF Evidence2
  <2>1. WasUp(s, delay)
    BY <1>1, FoundWasTrue DEF Evidence
  <2> QED
    BY <1>1, <2>1 DEF WasUp, Arrives2
<1>4. Evidence1' /\ Remembered'
  BY DEF Arrives2, Evidence, Evidence1, Remembered, WasUp
<1> QED
  BY <1>2, <1>3, <1>4 DEF Evidence

\* What a cache stores is what a page would have said.
LEMMA FeedKeeps ==
  ASSUME Evidence, FeedAsked
  PROVE  Evidence'
<1> USE LongestFacts, StatusConstants
<1>1. Status2 \in Kinds
  BY DEF Status2, NotFresh, ProjectedState, Kinds
<1>2. StatusTypeOK'
  <2>1. cached' \in [age : 0..(CacheFor + 1), kind : Kinds]
    BY <1>1 DEF FeedAsked, Answer, NoAnswer, Kinds
  <2> QED
    BY <2>1 DEF FeedAsked, Evidence, StatusTypeOK
<1>3. Remembered'
  <2> SUFFICES ASSUME cached'.kind = "operational", NEW s \in Public
               PROVE  WasUp(s, Fresh2 + cached.age)'
    BY DEF Remembered
  <2>1. Status2 = "operational" /\ cached'.age = 0
    BY DEF FeedAsked, Answer, NoAnswer
  <2>2. WasUp(s, Fresh2)
    BY <2>1, Operational2, Fresh2WhenOperational
  <2> QED
    BY <2>1, <2>2 DEF WasUp, FeedAsked
<1>4. Evidence1' /\ Evidence2'
  BY DEF FeedAsked, Evidence, Evidence1, Evidence2, WasUp
<1> QED
  BY <1>2, <1>3, <1>4 DEF Evidence

LEMMA EvidenceStep == Evidence /\ [StatusNext]_statusVars => Evidence'
<1> SUFFICES ASSUME Evidence, [StatusNext]_statusVars PROVE Evidence'
  OBVIOUS
<1>1. CASE Breaks \/ MaintenanceTurns \/ UNCHANGED statusVars
  <2>1. StatusTypeOK'
    BY <1>1 DEF Breaks, MaintenanceTurns, statusVars, Evidence, StatusTypeOK
  <2>2. Evidence1' /\ Evidence2' /\ Remembered'
    BY <1>1
    DEF Breaks, MaintenanceTurns, statusVars, Evidence, Evidence1, Evidence2, Remembered, WasUp
  <2> QED
    BY <2>1, <2>2 DEF Evidence
<1> QED
  BY <1>1, TimeKeeps, ChangeKeeps, Arrival1Keeps, Arrival2Keeps, FeedKeeps DEF StatusNext

\* Version 1: one freshness for the site and for its projects.
LEMMA Up1 ==
  ASSUME Evidence, Freshness1 = "fresh", NEW s \in Public, Service1(s) = "up"
  PROVE  WasUp(s, Fresh1)
<1>1. sample1.age <= Fresh1 /\ sample1.status[s] = "up"
  BY DEF Service1, Freshness1, Freshness
<1>2. WasUp(s, sample1.age)
  BY <1>1 DEF Evidence, Evidence1
<1> QED
  BY <1>1, <1>2, LongestFacts, StatusConstants DEF WasUp, Evidence, StatusTypeOK

LEMMA EvidenceSuffices == Evidence => HealthWasTrue
<1> SUFFICES ASSUME Evidence PROVE HealthWasTrue
  OBVIOUS
<1> USE LongestFacts, StatusConstants
<1>0. \A s \in Public : Service1(s) \in Statuses
  BY DEF Service1, Evidence, StatusTypeOK, Statuses
<1>1. ASSUME Overall1 = "operational", NEW s \in Public PROVE WasUp(s, Fresh1)
  <2>1. Freshness1 = "fresh" /\ Service1(s) = "up"
    BY <1>0, <1>1 DEF Overall1, Freshness1, Freshness, Statuses
  <2> QED
    BY <2>1, Up1
<1>2. ASSUME NEW c \in Claims, c.kind = "operational", NEW s \in Public
      PROVE  WasUp(s, c.within)
  <2>1. CASE c = [kind |-> Overall1, within |-> Fresh1]
    BY <1>1, <1>2, <2>1
  <2>2. CASE c = [kind |-> Summary, within |-> IF Readable2 THEN Fresh2 ELSE Fresh1]
    BY <1>1, <1>2, <2>2, Operational2, Fresh2WhenOperational DEF Summary
  <2>3. CASE c = [kind |-> Heading, within |-> IF "v2" \in broken THEN Fresh1 ELSE Fresh2]
    <3>1. CASE Readable2
      BY <1>2, <2>3, <3>1, Operational2, Fresh2WhenOperational DEF Heading, Readable2
    <3>2. CASE ~Readable2 /\ "v2" \notin broken
      <4>1. Freshness2 = "fresh" /\ ProjectedState = "operational"
        BY <1>2, <2>3, <3>2 DEF Heading, NotFresh
      <4> QED
        BY <2>3, <3>2, <4>1, Operational2
    <3>3. CASE ~Readable2 /\ "v2" \in broken
      BY <1>1, <1>2, <2>3, <3>3 DEF Heading
    <3> QED
      BY <3>1, <3>2, <3>3
  <2>4. CASE c = [kind |-> cached.kind, within |-> Fresh2 + cached.age]
    BY <1>2, <2>4 DEF Evidence, Remembered
  <2> QED
    BY <1>2, <2>1, <2>2, <2>3, <2>4 DEF Claims
<1>3. ASSUME ProjectHealth = "healthy", NEW s \in Project PROVE WasUp(s, Fresh1)
  <2>1. Freshness1 = "fresh" /\ Project \cap Public = Project
    BY <1>3 DEF ProjectHealth
  <2>2. Together(Project) = "healthy"
    BY <1>3, <2>1 DEF ProjectHealth
  <2>3. Service1(s) = "up"
    BY <1>3, <2>2 DEF Together
  <2> QED
    BY <1>3, <2>1, <2>3, Up1
<1>4. ASSUME NEW s \in Public, Badge(s) = "up"
      PROVE  WasUp(s, IF Readable2 THEN Fresh2 ELSE Fresh1)
  <2>1. CASE ~Readable2
    <3>1. Freshness1 = "fresh" /\ Service1(s) = "up"
      BY <1>4, <2>1 DEF Badge, Service1
    <3> QED
      BY <2>1, <3>1, Up1
  <2>2. CASE Readable2
    <3>1. latest2.status[s] = "up" /\ latest2.age <= Fresh2
      BY <1>4, <2>2 DEF Badge, Freshness2, Freshness
    <3>2. WasUp(s, latest2.age)
      BY <3>1 DEF Evidence, Evidence2
    <3> QED
      BY <2>2, <3>1, <3>2 DEF WasUp, Evidence, StatusTypeOK
  <2> QED
    BY <2>1, <2>2
<1> QED
  BY <1>2, <1>3, <1>4 DEF HealthWasTrue, Evidence

\* "Operational" and "healthy" are never said of a service that has been down
\* for longer than the evidence may be old: page.tsx, Header.tsx, the feed,
\* and deriveProjectHealth.
THEOREM HealthTrue == StatusSpec => []HealthWasTrue
<1>1. StatusInit => Evidence
  BY EvidenceInit
<1>2. Evidence /\ [StatusNext]_statusVars => Evidence'
  BY EvidenceStep
<1>3. Evidence => HealthWasTrue
  BY EvidenceSuffices
<1> QED
  BY <1>1, <1>2, <1>3, PTL DEF StatusSpec

------------------------------------------------------------------------------
(* The same for alarms.                                                    *)

Down1 ==
  \A s \in Public : sample1.age <= Fresh1 /\ sample1.status[s] = "down" => WasDown(s, sample1.age)
Down2 ==
  \A s \in Public : latest2.age <= Fresh2 /\ latest2.status[s] = "down" => WasDown(s, latest2.age)
RememberedDown ==
  cached.kind = "disruption" => \E s \in Public : WasDown(s, Fresh2 + cached.age)
Alarms == Evidence /\ Down1 /\ Down2 /\ RememberedDown

LEMMA AlarmsInit == StatusInit => Alarms
BY EvidenceInit
DEF StatusInit, Alarms, Down1, Down2, RememberedDown, Unmeasured, NoAnswer

\* Which alarm of version 2 rests on which service.
LEMMA Disruption2 ==
  ASSUME Alarms, Status2 = "disruption"
  PROVE  \E s \in Public \ UNION active : WasDown(s, Fresh2)
<1>1. Freshness2 = "fresh" /\ latest2.age <= Fresh2
  BY DEF Status2, NotFresh, Freshness2, Freshness
<1>2. PICK s \in Public \ UNION active : latest2.status[s] = "down"
  <2>1. CASE \E s \in Unexcused : latest2.status[s] = "down"
    BY <2>1 DEF Unexcused
  <2>2. CASE ~\E s \in Unexcused : latest2.status[s] = "down"
    <3>1. active = {} /\ ProjectedState = "disruption"
      BY <1>1, <2>2 DEF Status2
    <3>2. UNION active = {}
      BY <3>1
    <3> QED
      BY <3>1, <3>2 DEF ProjectedState
  <2> QED
    BY <2>1, <2>2
<1>3. WasDown(s, latest2.age)
  BY <1>1, <1>2 DEF Alarms, Down2
<1>4. WasDown(s, Fresh2)
  BY <1>1, <1>3, LongestFacts, StatusConstants DEF WasDown, Alarms, Evidence, StatusTypeOK
<1> QED
  BY <1>4

LEMMA Projected2 ==
  ASSUME Alarms, Freshness2 = "fresh", ProjectedState = "disruption"
  PROVE  \E s \in Public : WasDown(s, Fresh2)
<1>1. latest2.age <= Fresh2
  BY DEF Freshness2, Freshness
<1>2. PICK s \in Public : latest2.status[s] = "down"
  BY DEF ProjectedState
<1>3. WasDown(s, latest2.age)
  BY <1>1, <1>2 DEF Alarms, Down2
<1>4. WasDown(s, Fresh2)
  BY <1>1, <1>3, LongestFacts, StatusConstants DEF WasDown, Alarms, Evidence, StatusTypeOK
<1> QED
  BY <1>4

LEMMA Disruption1 ==
  ASSUME Alarms, Overall1 = "disruption"
  PROVE  \E s \in Public : WasDown(s, Fresh1)
<1>1. Freshness1 = "fresh" /\ sample1.age <= Fresh1
  BY DEF Overall1, Freshness1, Freshness
<1>2. PICK s \in Public : sample1.status[s] = "down"
  BY <1>1 DEF Overall1, Service1
<1>3. WasDown(s, sample1.age)
  BY <1>1, <1>2 DEF Alarms, Down1
<1>4. WasDown(s, Fresh1)
  BY <1>1, <1>3, LongestFacts, StatusConstants DEF WasDown, Alarms, Evidence, StatusTypeOK
<1> QED
  BY <1>4

\* Time and change, for what was down.
LEMMA TimeKeepsAlarms ==
  ASSUME Alarms, TimePasses
  PROVE  Alarms'
<1> USE LongestFacts, StatusConstants
<1>1. /\ truth \in [Public -> [up : BOOLEAN, since : 0..Longest]]
      /\ sample1.age \in Nat /\ latest2.age \in Nat /\ cached.age \in Nat
  BY DEF Alarms, Evidence, StatusTypeOK
<1>2. Evidence'
  BY TimeKeeps DEF Alarms
<1>3. ASSUME NEW s \in Public, NEW w \in Nat, WasDown(s, w)
      PROVE  WasDown(s, w + 1)'
  <2>1. truth'[s].up = truth[s].up /\ truth'[s].since <= truth[s].since + 1
    BY <1>1 DEF TimePasses, Aged
  <2>2. truth[s].since \in Nat /\ truth'[s].since \in Nat
    BY <1>1, <1>2 DEF StatusTypeOK, Evidence
  <2>3. CASE ~truth[s].up
    BY <2>1, <2>3 DEF WasDown
  <2>4. CASE truth[s].since <= w
    <3>1. truth'[s].since <= w + 1
      BY <2>1, <2>2, <2>4
    <3> QED
      BY <3>1 DEF WasDown
  <2> QED
    BY <1>3, <2>3, <2>4 DEF WasDown
<1>4. Down1'
  <2> SUFFICES ASSUME NEW s \in Public, sample1'.age <= Fresh1, sample1'.status[s] = "down"
               PROVE  WasDown(s, sample1.age)'
    BY DEF Down1
  <2>1. sample1'.age = sample1.age + 1 /\ sample1'.status = sample1.status
    BY <1>1 DEF TimePasses, Aged, Alarms, Evidence, StatusTypeOK
  <2>2. WasDown(s, sample1.age)
    BY <1>1, <2>1 DEF Alarms, Down1
  <2> QED
    BY <1>1, <1>3, <2>1, <2>2
<1>5. Down2'
  <2> SUFFICES ASSUME NEW s \in Public, latest2'.age <= Fresh2, latest2'.status[s] = "down"
               PROVE  WasDown(s, latest2.age)'
    BY DEF Down2
  <2>1. latest2'.age = latest2.age + 1 /\ latest2'.status = latest2.status
    BY <1>1 DEF TimePasses, Aged, Alarms, Evidence, StatusTypeOK
  <2>2. WasDown(s, latest2.age)
    BY <1>1, <2>1 DEF Alarms, Down2
  <2> QED
    BY <1>1, <1>3, <2>1, <2>2
<1>6. RememberedDown'
  <2> SUFFICES ASSUME cached'.kind = "disruption"
               PROVE  \E s \in Public : WasDown(s, Fresh2 + cached.age)'
    BY DEF RememberedDown
  <2>1. cached'.age = cached.age + 1 /\ cached'.kind = cached.kind
    BY <1>1 DEF TimePasses, NoAnswer, Alarms, Evidence, StatusTypeOK
  <2>2. PICK s \in Public : WasDown(s, Fresh2 + cached.age)
    BY <2>1 DEF Alarms, RememberedDown
  <2>3. Fresh2 + cached.age \in Nat /\ Fresh2 + cached'.age = (Fresh2 + cached.age) + 1
    BY <1>1, <2>1
  <2>4. ~truth'[s].up \/ truth'[s].since <= (Fresh2 + cached.age) + 1
    BY <1>3, <2>2, <2>3 DEF WasDown
  <2> QED
    BY <2>3, <2>4 DEF WasDown
<1> QED
  BY <1>2, <1>4, <1>5, <1>6 DEF Alarms

LEMMA ChangeKeepsAlarms ==
  ASSUME Alarms, Changes
  PROVE  Alarms'
<1> USE LongestFacts, StatusConstants
<1>1. PICK c \in Public : truth' = [truth EXCEPT ![c] = [up |-> ~truth[c].up, since |-> 0]]
  BY DEF Changes
<1>2. Evidence'
  BY ChangeKeeps DEF Alarms
<1>3. ASSUME NEW s \in Public, NEW w \in Nat, WasDown(s, w)
      PROVE  WasDown(s, w)'
  <2>1. CASE s = c
    <3>1. truth'[s].since = 0
      BY <1>1, <2>1 DEF Alarms, Evidence, StatusTypeOK
    <3> QED
      BY <3>1 DEF WasDown
  <2>2. CASE s # c
    BY <1>1, <1>3, <2>2 DEF WasDown, Alarms, Evidence, StatusTypeOK
  <2> QED
    BY <2>1, <2>2
<1>4. sample1.age \in Nat /\ latest2.age \in Nat /\ Fresh2 + cached.age \in Nat
  BY DEF Alarms, Evidence, StatusTypeOK
<1>5. UNCHANGED <<sample1, latest2, cached>>
  BY DEF Changes
<1>6. Down1'
  BY <1>3, <1>4, <1>5 DEF Alarms, Down1
<1>7. Down2'
  BY <1>3, <1>4, <1>5 DEF Alarms, Down2
<1>8. RememberedDown'
  <2> SUFFICES ASSUME cached.kind = "disruption"
               PROVE  \E s \in Public : WasDown(s, Fresh2 + cached.age)'
    BY <1>5 DEF RememberedDown
  <2>1. PICK s \in Public : WasDown(s, Fresh2 + cached.age)
    BY DEF Alarms, RememberedDown
  <2>2. WasDown(s, Fresh2 + cached.age)'
    BY <1>3, <1>4, <1>5, <2>1
  <2> QED
    BY <2>2
<1> QED
  BY <1>2, <1>6, <1>7, <1>8 DEF Alarms

LEMMA FoundWasDown ==
  ASSUME StatusTypeOK, NEW s \in Public, NEW delay \in 0..MaxDelay, NEW m \in Measured(delay),
         m[s] = "down"
  PROVE  WasDown(s, delay)
BY DEF Measured, Found, WasDown

LEMMA ArrivalsKeepAlarms ==
  ASSUME Alarms, Arrives1 \/ Arrives2
  PROVE  Alarms'
<1>1. Evidence'
  BY Arrival1Keeps, Arrival2Keeps DEF Alarms
<1>2. CASE Arrives1
  <2>0. PICK delay \in 0..MaxDelay : \E m \in Measured(delay), disk \in {"ok", "critical"} :
          delay < sample1.age /\ sample1' = [age |-> delay, status |-> m, disk |-> disk]
    BY <1>2 DEF Arrives1
  <2>1. PICK m \in Measured(delay), disk \in {"ok", "critical"} :
          delay < sample1.age /\ sample1' = [age |-> delay, status |-> m, disk |-> disk]
    BY <2>0
  <2>2. ASSUME NEW s \in Public, sample1'.status[s] = "down" PROVE WasDown(s, sample1.age)'
    <3>1. WasDown(s, delay)
      BY <2>1, <2>2, FoundWasDown DEF Alarms, Evidence
    <3> QED
      BY <1>2, <2>1, <3>1 DEF WasDown, Arrives1
  <2>3. Down2' /\ RememberedDown'
    BY <1>2 DEF Arrives1, Alarms, Down2, RememberedDown, WasDown
  <2> QED
    BY <1>1, <2>2, <2>3 DEF Alarms, Down1
<1>3. CASE Arrives2
  <2>0. PICK delay \in 0..MaxDelay : \E m \in Measured(delay), host \in BOOLEAN :
          delay < latest2.age /\ latest2' = [age |-> delay, status |-> m, host |-> host]
    BY <1>3 DEF Arrives2
  <2>1. PICK m \in Measured(delay), host \in BOOLEAN :
          delay < latest2.age /\ latest2' = [age |-> delay, status |-> m, host |-> host]
    BY <2>0
  <2>2. ASSUME NEW s \in Public, latest2'.status[s] = "down" PROVE WasDown(s, latest2.age)'
    <3>1. WasDown(s, delay)
      BY <2>1, <2>2, FoundWasDown DEF Alarms, Evidence
    <3> QED
      BY <1>3, <2>1, <3>1 DEF WasDown, Arrives2
  <2>3. Down1' /\ RememberedDown'
    BY <1>3 DEF Arrives2, Alarms, Down1, RememberedDown, WasDown
  <2> QED
    BY <1>1, <2>2, <2>3 DEF Alarms, Down2
<1> QED
  BY <1>2, <1>3

LEMMA FeedKeepsAlarms ==
  ASSUME Alarms, FeedAsked
  PROVE  Alarms'
<1>1. Evidence'
  BY FeedKeeps DEF Alarms
<1>2. Down1' /\ Down2'
  BY DEF FeedAsked, Alarms, Down1, Down2, WasDown
<1>3. RememberedDown'
  <2> SUFFICES ASSUME cached'.kind = "disruption"
               PROVE  \E s \in Public : WasDown(s, Fresh2 + cached.age)'
    BY DEF RememberedDown
  <2>1. Status2 = "disruption" /\ cached'.age = 0
    BY DEF FeedAsked, Answer, NoAnswer
  <2>2. PICK s \in Public : WasDown(s, Fresh2)
    BY <2>1, Disruption2
  <2>3. WasDown(s, Fresh2 + cached.age)'
    BY <2>1, <2>2, StatusConstants DEF WasDown, FeedAsked
  <2> QED
    BY <2>3
<1> QED
  BY <1>1, <1>2, <1>3 DEF Alarms

LEMMA AlarmsStep == Alarms /\ [StatusNext]_statusVars => Alarms'
<1> SUFFICES ASSUME Alarms, [StatusNext]_statusVars PROVE Alarms'
  OBVIOUS
<1>1. CASE Breaks \/ MaintenanceTurns \/ UNCHANGED statusVars
  <2>1. Evidence'
    BY EvidenceStep DEF Alarms
  <2>2. Down1' /\ Down2' /\ RememberedDown'
    BY <1>1
    DEF Breaks, MaintenanceTurns, statusVars, Alarms, Down1, Down2, RememberedDown, WasDown
  <2> QED
    BY <2>1, <2>2 DEF Alarms
<1> QED
  BY <1>1, TimeKeepsAlarms, ChangeKeepsAlarms, ArrivalsKeepAlarms, FeedKeepsAlarms DEF StatusNext

LEMMA AlarmsSuffice == Alarms => AlarmsAreReal
<1> SUFFICES ASSUME Alarms PROVE AlarmsAreReal
  OBVIOUS
<1>1. ASSUME NEW c \in Claims, c.kind = "disruption"
      PROVE  \E s \in Public : WasDown(s, c.within)
  <2>1. CASE c = [kind |-> Overall1, within |-> Fresh1]
    BY <1>1, <2>1, Disruption1
  <2>2. CASE c = [kind |-> Summary, within |-> IF Readable2 THEN Fresh2 ELSE Fresh1]
    BY <1>1, <2>2, Disruption1, Disruption2 DEF Summary
  <2>3. CASE c = [kind |-> Heading, within |-> IF "v2" \in broken THEN Fresh1 ELSE Fresh2]
    <3>1. CASE Readable2
      BY <1>1, <2>3, <3>1, Disruption2 DEF Heading, Readable2
    <3>2. CASE ~Readable2 /\ "v2" \notin broken
      <4>1. Freshness2 = "fresh" /\ ProjectedState = "disruption"
        BY <1>1, <2>3, <3>2 DEF Heading, NotFresh
      <4> QED
        BY <2>3, <3>2, <4>1, Projected2
    <3>3. CASE ~Readable2 /\ "v2" \in broken
      BY <1>1, <2>3, <3>3, Disruption1 DEF Heading
    <3> QED
      BY <3>1, <3>2, <3>3
  <2>4. CASE c = [kind |-> cached.kind, within |-> Fresh2 + cached.age]
    BY <1>1, <2>4 DEF Alarms, RememberedDown
  <2> QED
    BY <1>1, <2>1, <2>2, <2>3, <2>4 DEF Claims
<1>2. Status2 = "maintenance" => \A s \in Public \ UNION active : latest2.status[s] # "down"
  BY DEF Status2, NotFresh, ProjectedState, Unexcused
<1> QED
  BY <1>1, <1>2, Disruption2 DEF AlarmsAreReal

\* "Service disruption" is never said without a public service that was down
\* within the same limits, never for the services a maintenance window covers
\* where it is taken into account, and a window never covers up the outage of
\* another service: createPublicStatusV2, deriveOverallPublicStatus, the feed.
THEOREM AlarmsReal == StatusSpec => []AlarmsAreReal
<1>1. StatusInit => Alarms
  BY AlarmsInit
<1>2. Alarms /\ [StatusNext]_statusVars => Alarms'
  BY AlarmsStep
<1>3. Alarms => AlarmsAreReal
  BY AlarmsSuffice
<1> QED
  BY <1>1, <1>2, <1>3, PTL DEF StatusSpec

------------------------------------------------------------------------------
(* What the owner is told, for any troubles and limits: a trouble the      *)
(* latest sample does not show was absent within the age of that sample.   *)

QuietTypes ==
  /\ trouble \in [Troubles -> [there : BOOLEAN, since : 0..LongAgo]]
  /\ seen1 \in [age : 0..(OwnerGone1 + 1), troubles : SUBSET Troubles]
  /\ seen2 \in [age : 0..(OwnerGone2 + 1), complains : BOOLEAN]
  /\ readable2 \in BOOLEAN
AbsentFor(t, within) == ~trouble[t].there \/ trouble[t].since <= within
SeenIsTrue ==
  \A t \in Troubles :
    seen1.age <= OwnerFresh1 /\ t \notin seen1.troubles => AbsentFor(t, seen1.age)
QuietInv == QuietTypes /\ SeenIsTrue

LEMMA QuietInit == OwnerStatusInit => QuietInv
<1> SUFFICES ASSUME OwnerStatusInit PROVE QuietInv
  OBVIOUS
<1>1. QuietTypes
  <2>1. LongAgo \in 0..LongAgo
    BY OwnerStatusConstants DEF LongAgo
  <2>2. trouble \in [Troubles -> [there : BOOLEAN, since : 0..LongAgo]]
    BY <2>1 DEF OwnerStatusInit
  <2>3. seen1 \in [age : 0..(OwnerGone1 + 1), troubles : SUBSET Troubles]
    BY OwnerStatusConstants DEF OwnerStatusInit
  <2>4. seen2 \in [age : 0..(OwnerGone2 + 1), complains : BOOLEAN]
    BY OwnerStatusConstants DEF OwnerStatusInit
  <2> QED
    BY <2>2, <2>3, <2>4 DEF OwnerStatusInit, QuietTypes
<1>2. SeenIsTrue
  BY OwnerStatusConstants DEF OwnerStatusInit, SeenIsTrue, AbsentFor
<1> QED
  BY <1>1, <1>2 DEF QuietInv

\* Time: what was absent is absent for one tick more.
LEMMA QuietOverTime ==
  ASSUME QuietInv, OwnerTimePasses
  PROVE  QuietInv'
<1> USE OwnerStatusConstants
<1>1. LongAgo \in Nat /\ OwnerFresh1 < LongAgo
  BY DEF LongAgo
<1>2. QuietTypes'
  <2>1. trouble' \in [Troubles -> [there : BOOLEAN, since : 0..LongAgo]]
    BY <1>1 DEF OwnerTimePasses, OwnerAged, QuietInv, QuietTypes
  <2>2. seen1' \in [age : 0..(OwnerGone1 + 1), troubles : SUBSET Troubles]
    BY DEF OwnerTimePasses, OwnerAged, QuietInv, QuietTypes
  <2>3. seen2' \in [age : 0..(OwnerGone2 + 1), complains : BOOLEAN]
    BY DEF OwnerTimePasses, OwnerAged, QuietInv, QuietTypes
  <2> QED
    BY <2>1, <2>2, <2>3 DEF OwnerTimePasses, QuietInv, QuietTypes
<1>3. SeenIsTrue'
  <2> SUFFICES ASSUME NEW t \in Troubles, seen1'.age <= OwnerFresh1, t \notin seen1'.troubles
               PROVE  AbsentFor(t, seen1.age)'
    BY DEF SeenIsTrue, Troubles
  <2>1. seen1.age \in Nat /\ seen1'.age = seen1.age + 1 /\ seen1'.troubles = seen1.troubles
    BY DEF OwnerTimePasses, OwnerAged, QuietInv, QuietTypes
  <2>2. AbsentFor(t, seen1.age)
    BY <2>1 DEF QuietInv, SeenIsTrue
  <2>3. /\ trouble'[t].there = trouble[t].there /\ trouble[t].since \in Nat
        /\ trouble'[t].since \in Nat /\ trouble'[t].since <= trouble[t].since + 1
    BY <1>1 DEF OwnerTimePasses, OwnerAged, QuietInv, QuietTypes
  <2>4. trouble[t].since <= seen1.age => trouble'[t].since <= seen1.age + 1
    BY <2>1, <2>3
  <2> QED
    BY <2>1, <2>2, <2>3, <2>4 DEF AbsentFor
<1> QED
  BY <1>2, <1>3 DEF QuietInv

\* What comes or goes was, a moment ago, as it is not now.
LEMMA QuietOverChange ==
  ASSUME QuietInv, TroubleComesOrGoes
  PROVE  QuietInv'
<1> USE OwnerStatusConstants
<1>1. PICK c \in Troubles :
        trouble' = [trouble EXCEPT ![c] = [there |-> ~trouble[c].there, since |-> 0]]
  BY DEF TroubleComesOrGoes
<1>2. UNCHANGED <<seen1, seen2, readable2>> /\ seen1.age \in Nat
  BY DEF TroubleComesOrGoes, QuietInv, QuietTypes
<1>3. QuietTypes'
  <2>1. [there |-> ~trouble[c].there, since |-> 0] \in [there : BOOLEAN, since : 0..LongAgo]
    BY DEF QuietInv, QuietTypes, LongAgo
  <2>2. trouble' \in [Troubles -> [there : BOOLEAN, since : 0..LongAgo]]
    BY <1>1, <2>1 DEF QuietInv, QuietTypes
  <2> QED
    BY <1>2, <2>2 DEF QuietInv, QuietTypes
<1>4. SeenIsTrue'
  <2> SUFFICES ASSUME NEW t \in Troubles, seen1.age <= OwnerFresh1, t \notin seen1.troubles
               PROVE  AbsentFor(t, seen1.age)'
    BY <1>2 DEF SeenIsTrue, Troubles
  <2>1. CASE t = c
    <3>1. trouble'[t].since = 0
      BY <1>1, <2>1 DEF QuietInv, QuietTypes
    <3> QED
      BY <1>2, <3>1 DEF AbsentFor
  <2>2. CASE t # c
    BY <1>1, <1>2, <2>2 DEF AbsentFor, QuietInv, QuietTypes, SeenIsTrue
  <2> QED
    BY <2>1, <2>2
<1> QED
  BY <1>3, <1>4 DEF QuietInv

LEMMA QuietOverArrival ==
  ASSUME QuietInv, OwnerArrives1
  PROVE  QuietInv'
<1> USE OwnerStatusConstants
<1>1. QuietTypes'
  <2>1. {t \in Troubles : trouble[t].there} \in SUBSET Troubles
    OBVIOUS
  <2>2. seen1' \in [age : 0..(OwnerGone1 + 1), troubles : SUBSET Troubles]
    BY <2>1 DEF OwnerArrives1
  <2>3. UNCHANGED <<trouble, seen2, readable2>>
    BY DEF OwnerArrives1
  <2> QED
    BY <2>2, <2>3 DEF QuietInv, QuietTypes
<1>2. SeenIsTrue'
  BY DEF OwnerArrives1, SeenIsTrue, AbsentFor, Troubles
<1> QED
  BY <1>1, <1>2 DEF QuietInv

LEMMA QuietStep == QuietInv /\ [OwnerStatusNext]_ownerStatusVars => QuietInv'
<1> SUFFICES ASSUME QuietInv, [OwnerStatusNext]_ownerStatusVars PROVE QuietInv'
  OBVIOUS
<1>1. CASE OwnerArrives2 \/ Version2Turns \/ UNCHANGED ownerStatusVars
  <2>1. UNCHANGED <<trouble, seen1>> /\ readable2' \in BOOLEAN
    BY <1>1 DEF OwnerArrives2, Version2Turns, ownerStatusVars, QuietInv, QuietTypes
  <2>2. seen2' \in [age : 0..(OwnerGone2 + 1), complains : BOOLEAN]
    <3>1. CASE OwnerArrives2
      <4>1. PICK complains \in BOOLEAN : seen2' = [age |-> 0, complains |-> complains]
        BY <3>1 DEF OwnerArrives2
      <4> QED
        BY <4>1, OwnerStatusConstants
    <3>2. CASE ~OwnerArrives2
      BY <1>1, <3>2 DEF Version2Turns, ownerStatusVars, QuietInv, QuietTypes
    <3> QED
      BY <3>1, <3>2
  <2>3. QuietTypes'
    BY <2>1, <2>2 DEF QuietInv, QuietTypes
  <2>4. SeenIsTrue'
    BY <2>1 DEF QuietInv, SeenIsTrue, AbsentFor
  <2> QED
    BY <2>3, <2>4 DEF QuietInv
<1> QED
  BY <1>1, QuietOverTime, QuietOverChange, QuietOverArrival DEF OwnerStatusNext

LEMMA QuietSuffices == QuietInv => QuietWithoutV2
<1> SUFFICES ASSUME QuietInv PROVE QuietWithoutV2
  OBVIOUS
<1>1. OwnerStatusTypeOK
  BY DEF QuietInv, QuietTypes, OwnerStatusTypeOK
<1>2. ASSUME Quiet, ~readable2, NEW t \in Troubles PROVE WasAbsent(t)
  <2>1. Attention1 = {}
    BY <1>2 DEF Quiet, Attention
  <2>2. seen1.age <= OwnerFresh1 /\ seen1.troubles = {}
    BY <2>1 DEF Attention1, Delayed1
  <2>3. AbsentFor(t, seen1.age)
    BY <2>2 DEF QuietInv, SeenIsTrue
  <2> QED
    BY <2>2, <2>3, OwnerStatusConstants
    DEF AbsentFor, WasAbsent, QuietInv, QuietTypes, LongAgo
<1> QED
  BY <1>1, <1>2 DEF QuietWithoutV2

\* As long as only version 1 is read, the owner is told that nothing needs
\* attention only when no trouble has lasted for longer than a sample may be
\* old: deriveOwnerAttention and OwnerAttentionSummary.tsx.
THEOREM QuietIsTrue == OwnerStatusSpec => []QuietWithoutV2
<1>1. OwnerStatusInit => QuietInv
  BY QuietInit
<1>2. QuietInv /\ [OwnerStatusNext]_ownerStatusVars => QuietInv'
  BY QuietStep
<1>3. QuietInv => QuietWithoutV2
  BY QuietSuffices
<1> QED
  BY <1>1, <1>2, <1>3, PTL DEF OwnerStatusSpec

------------------------------------------------------------------------------
(* The caches, for any limits and any number of requests at once.  The     *)
(* invariant follows an answer from the request that asked for it to the   *)
(* page it is shown on, and ties the requests of a repository to the one   *)
(* that others wait for.                                                   *)

\* A request to the pool: its answer, if there is one, was made after it.
PoolSound ==
  \A q \in pool :
    /\ q \in [asked : Nat, made : Nat]
    /\ q.asked \in 1..clock /\ clock - q.asked <= Deadline
    /\ q.made = 0 \/ q.made \in q.asked..clock
MiningSound ==
  /\ mining \in [observed : Nat, made : Nat]
  /\ mining = Empty \/ (/\ mining.made \in 1..mining.observed /\ mining.observed \in 1..clock
                        /\ mining.observed - mining.made <= Deadline)
ToldSound ==
  /\ told \in [at : Nat, freshness : {"unknown", "stale", "unavailable"}, observed : Nat, made : Nat]
  /\ told.freshness # "unavailable" => told.observed - told.made <= Deadline
  /\ told.freshness = "unknown" => told.at - told.observed < Ttl
  /\ told.freshness = "stale" => told.at - told.observed <= MaxStale
\* The request of a repository that others wait for is the only one.
AskingSound ==
  /\ inFlight \in [Repos -> Nat] /\ DOMAIN asking = Repos
  /\ \A r \in Repos :
       \/ inFlight[r] = 0 /\ asking[r] = {}
       \/ \E q : asking[r] = {q} /\ q.asked = inFlight[r] /\ inFlight[r] # 0
StatsSound == stats \in [Repos -> [ts : 0..MaxClock, made : Nat]]
ClockSound == clock \in 1..MaxClock /\ mining.observed \in 0..MaxClock
CacheInv ==
  ClockSound /\ PoolSound /\ MiningSound /\ ToldSound /\ AskingSound /\ StatsSound

LEMMA CacheNumbers ==
  /\ Ttl \in Nat /\ MaxStale \in Nat /\ Deadline \in Nat /\ MaxClock \in Nat
  /\ 0 < Ttl /\ 0 < Deadline /\ 0 < MaxClock /\ Ttl <= MaxStale
BY CacheConstants

LEMMA CacheInvInit == CacheInit => CacheInv
<1> SUFFICES ASSUME CacheInit PROVE CacheInv
  OBVIOUS
<1> USE CacheNumbers
<1>1. ClockSound /\ PoolSound /\ MiningSound
  BY DEF CacheInit, ClockSound, PoolSound, MiningSound, Empty
<1>2. ToldSound
  BY DEF CacheInit, ToldSound, Unavailable
<1>3. AskingSound
  BY DEF CacheInit, AskingSound
<1>4. StatsSound
  BY DEF CacheInit, StatsSound, NoStats
<1> QED
  BY <1>1, <1>2, <1>3, <1>4 DEF CacheInv

LEMMA TickKeeps ==
  ASSUME CacheInv, ClockTicks
  PROVE  CacheInv'
<1> USE CacheNumbers
<1>1. ClockSound'
  BY DEF ClockTicks, CacheInv, ClockSound
<1>2. PoolSound'
  <2> SUFFICES ASSUME NEW q \in pool
               PROVE  /\ q \in [asked : Nat, made : Nat]
                      /\ q.asked \in 1..clock' /\ clock' - q.asked <= Deadline
                      /\ q.made = 0 \/ q.made \in q.asked..clock'
    BY DEF ClockTicks, PoolSound
  <2> QED
    BY DEF ClockTicks, CacheInv, PoolSound, ClockSound
<1>3. MiningSound'
  BY DEF ClockTicks, CacheInv, MiningSound, ClockSound
<1>4. ToldSound' /\ AskingSound' /\ StatsSound'
  BY DEF ClockTicks, CacheInv, ToldSound, AskingSound, StatsSound
<1> QED
  BY <1>1, <1>2, <1>3, <1>4 DEF CacheInv

LEMMA PageKeeps ==
  ASSUME CacheInv, PageFromCache
  PROVE  CacheInv'
<1> USE CacheNumbers
<1>1. ToldSound'
  BY DEF PageFromCache, Current, Result, CacheInv, ToldSound, MiningSound, ClockSound
<1>2. UNCHANGED <<clock, pool, mining, asking, inFlight, stats>>
  BY DEF PageFromCache
<1> QED
  BY <1>1, <1>2 DEF CacheInv, ClockSound, PoolSound, MiningSound, AskingSound, StatsSound

LEMMA PoolKeeps ==
  ASSUME CacheInv, PageAsksPool \/ PoolAnswers
  PROVE  CacheInv'
<1> USE CacheNumbers
<1>1. UNCHANGED <<clock, mining, told, asking, inFlight, stats>>
  BY DEF PageAsksPool, PoolAnswers
<1>2. PoolSound'
  <2>1. CASE PageAsksPool
    BY <2>1 DEF PageAsksPool, CacheInv, PoolSound, ClockSound
  <2>2. CASE PoolAnswers
    <3>1. PICK q \in pool : pool' = (pool \ {q}) \cup {[q EXCEPT !.made = clock]}
      BY <2>2 DEF PoolAnswers
    <3>2. PICK a : a = [q EXCEPT !.made = clock]
      OBVIOUS
    <3>3. a \in [asked : Nat, made : Nat] /\ a.asked = q.asked /\ a.made = clock
      BY <3>2 DEF CacheInv, PoolSound, ClockSound
    <3>4. a.asked \in 1..clock /\ clock - a.asked <= Deadline /\ a.made \in a.asked..clock
      BY <3>3 DEF CacheInv, PoolSound, ClockSound
    <3> QED
      BY <1>1, <3>1, <3>2, <3>3, <3>4 DEF CacheInv, PoolSound
  <2> QED
    BY <2>1, <2>2
<1> QED
  BY <1>1, <1>2 DEF CacheInv, ClockSound, MiningSound, ToldSound, AskingSound, StatsSound

\* The numbers are at most as old as the deadline when they are read.
LEMMA ReadKeeps ==
  ASSUME CacheInv, AnswerRead
  PROVE  CacheInv'
<1> USE CacheNumbers
<1>1. PICK q \in pool : /\ q.made # 0 /\ pool' = pool \ {q}
                        /\ mining' = [observed |-> clock, made |-> q.made]
                        /\ told' = Result(mining', "unknown")
  BY DEF AnswerRead
<1>2. /\ q.made \in Nat /\ q.made \in 1..clock /\ clock - q.made <= Deadline
      /\ clock \in Nat /\ clock \in 1..clock /\ clock \in 0..MaxClock
  BY <1>1 DEF CacheInv, PoolSound, ClockSound
<1>3. mining'.observed = clock /\ mining'.made = q.made
  BY <1>1
<1>4. UNCHANGED <<clock, asking, inFlight, stats>>
  BY DEF AnswerRead
<1>5. MiningSound'
  BY <1>1, <1>2, <1>3, <1>4 DEF MiningSound
<1>6. ToldSound'
  BY <1>1, <1>2, <1>3 DEF ToldSound, Result
<1>7. PoolSound' /\ ClockSound' /\ AskingSound' /\ StatsSound'
  BY <1>1, <1>2, <1>3, <1>4 DEF CacheInv, PoolSound, ClockSound, AskingSound, StatsSound
<1> QED
  BY <1>5, <1>6, <1>7 DEF CacheInv

LEMMA FailKeeps ==
  ASSUME CacheInv, PoolFails
  PROVE  CacheInv'
<1> USE CacheNumbers
<1>1. UNCHANGED <<clock, mining, asking, inFlight, stats>> /\ pool' \subseteq pool
  BY DEF PoolFails
<1>2. ToldSound'
  BY DEF PoolFails, Result, Unavailable, CacheInv, ToldSound, MiningSound, ClockSound
<1> QED
  BY <1>1, <1>2 DEF CacheInv, ClockSound, PoolSound, MiningSound, AskingSound, StatsSound

LEMMA AskKeeps ==
  ASSUME CacheInv, AskGitHub
  PROVE  CacheInv'
<1>1. PICK r \in Repos :
        /\ inFlight[r] = 0
        /\ asking' = [asking EXCEPT ![r] = @ \cup {[asked |-> clock, nth |-> Cardinality(@)]}]
        /\ inFlight' = [inFlight EXCEPT ![r] = clock]
  BY DEF AskGitHub, MustAsk
<1>2. UNCHANGED <<clock, pool, mining, told, stats>> /\ clock \in Nat /\ clock # 0
  BY DEF AskGitHub, CacheInv, ClockSound
<1>3. PICK q : q = [asked |-> clock, nth |-> Cardinality(asking[r])]
  OBVIOUS
<1>4. asking[r] = {} /\ asking'[r] = {q} /\ inFlight'[r] = clock /\ q.asked = clock
  BY <1>1, <1>3 DEF CacheInv, AskingSound
<1>5. \A s \in Repos : s # r => asking'[s] = asking[s] /\ inFlight'[s] = inFlight[s]
  BY <1>1 DEF CacheInv, AskingSound
<1>6. inFlight' \in [Repos -> Nat] /\ DOMAIN asking' = Repos
  BY <1>1, <1>2 DEF CacheInv, AskingSound
<1>7. AskingSound'
  BY <1>2, <1>4, <1>5, <1>6 DEF CacheInv, AskingSound
<1> QED
  BY <1>2, <1>7 DEF CacheInv, ClockSound, PoolSound, MiningSound, ToldSound, StatsSound

LEMMA GitHubKeeps ==
  ASSUME CacheInv, GitHubAnswers
  PROVE  CacheInv'
<1>0. PICK r \in Repos : \E q \in asking[r] :
        /\ asking' = [asking EXCEPT ![r] = @ \ {q}]
        /\ inFlight' = [inFlight EXCEPT ![r] = IF @ = q.asked THEN 0 ELSE @]
        /\ \/ \E made \in q.asked..clock :
                stats' = [stats EXCEPT ![r] = [ts |-> clock, made |-> made]]
           \/ UNCHANGED stats
  BY DEF GitHubAnswers
<1>1. PICK q \in asking[r] :
        /\ asking' = [asking EXCEPT ![r] = @ \ {q}]
        /\ inFlight' = [inFlight EXCEPT ![r] = IF @ = q.asked THEN 0 ELSE @]
        /\ \/ \E made \in q.asked..clock :
                stats' = [stats EXCEPT ![r] = [ts |-> clock, made |-> made]]
           \/ UNCHANGED stats
  BY <1>0
<1>2. UNCHANGED <<clock, pool, mining, told>> /\ clock \in 0..MaxClock
  BY CacheNumbers DEF GitHubAnswers, CacheInv, ClockSound
<1>3. asking[r] = {q} /\ q.asked = inFlight[r] /\ q.asked \in Nat
  BY DEF CacheInv, AskingSound
<1>4. asking'[r] = {} /\ inFlight'[r] = 0
  BY <1>1, <1>3 DEF CacheInv, AskingSound
<1>5. \A s \in Repos : s # r => asking'[s] = asking[s] /\ inFlight'[s] = inFlight[s]
  BY <1>1 DEF CacheInv, AskingSound
<1>6. inFlight' \in [Repos -> Nat] /\ DOMAIN asking' = Repos
  BY <1>1 DEF CacheInv, AskingSound
<1>7. AskingSound'
  BY <1>4, <1>5, <1>6 DEF CacheInv, AskingSound
<1>8. StatsSound'
  <2>1. CASE UNCHANGED stats
    BY <2>1 DEF CacheInv, StatsSound
  <2>2. ASSUME NEW made \in q.asked..clock,
               stats' = [stats EXCEPT ![r] = [ts |-> clock, made |-> made]]
        PROVE  StatsSound'
    <3>1. made \in Nat
      BY <1>2, <1>3
    <3>2. [ts |-> clock, made |-> made] \in [ts : 0..MaxClock, made : Nat]
      BY <1>2, <3>1
    <3> QED
      BY <2>2, <3>2 DEF CacheInv, StatsSound
  <2> QED
    BY <1>1, <2>1, <2>2
<1> QED
  BY <1>2, <1>7, <1>8 DEF CacheInv, ClockSound, PoolSound, MiningSound, ToldSound

LEMMA CacheInvStep == CacheInv /\ [CacheNext]_cacheVars => CacheInv'
<1> SUFFICES ASSUME CacheInv, [CacheNext]_cacheVars PROVE CacheInv'
  OBVIOUS
<1>1. CASE UNCHANGED cacheVars
  BY <1>1
  DEF cacheVars, CacheInv, ClockSound, PoolSound, MiningSound, ToldSound, AskingSound, StatsSound
<1> QED
  BY <1>1, TickKeeps, PageKeeps, PoolKeeps, ReadKeeps, FailKeeps, AskKeeps, GitHubKeeps
  DEF CacheNext

LEMMA CacheInvSuffices == CacheInv => CachesHonest
<1> SUFFICES ASSUME CacheInv PROVE CachesHonest
  OBVIOUS
<1> USE CacheNumbers
<1>1. CacheTypeOK
  BY DEF CacheInv, ClockSound, ToldSound, StatsSound, CacheTypeOK
<1>2. /\ told.freshness # "unavailable" => told.observed - told.made <= Deadline
      /\ told.freshness = "unknown" => told.at - told.made < Ttl + Deadline
      /\ told.freshness = "stale" => told.at - told.made <= MaxStale + Deadline
  BY DEF CacheInv, ToldSound
<1>3. ASSUME NEW r \in Repos PROVE Cardinality(asking[r]) <= 1
  <2>1. CASE asking[r] = {}
    <3>1. Cardinality(asking[r]) = 0
      BY <2>1, FS_EmptySet
    <3> QED
      BY <3>1
  <2>2. CASE asking[r] # {}
    <3>1. PICK q : asking[r] = {q}
      BY <2>2 DEF CacheInv, AskingSound
    <3>2. Cardinality(asking[r]) = 1
      BY <3>1, FS_Singleton
    <3> QED
      BY <3>2
  <2> QED
    BY <2>1, <2>2
<1> QED
  BY <1>1, <1>2, <1>3 DEF CachesHonest

\* The age a page shows under the pool's numbers is theirs up to the fetch
\* deadline, numbers are shown no longer than the limits plus that, and one
\* request at a time asks GitHub for a repository: createMiningFetcher and
\* fetchRepoStats.
THEOREM CachesAreHonest == CacheSpec => []CachesHonest
<1>1. CacheInit => CacheInv
  BY CacheInvInit
<1>2. CacheInv /\ [CacheNext]_cacheVars => CacheInv'
  BY CacheInvStep
<1>3. CacheInv => CachesHonest
  BY CacheInvSuffices
<1> QED
  BY <1>1, <1>2, <1>3, PTL DEF CacheSpec

------------------------------------------------------------------------------
(* The list of projects.  Its address is its only state, so what is said   *)
(* of it holds of every address and every reading, reachable or not.       *)

\* The names of the parameters, and what no choice means for each.
LEMMA Names ==
  /\ DOMAIN Default = {"lifecycle", "maturity", "category", "health", "sort", "q"}
  /\ Default["lifecycle"] = "all" /\ Default["maturity"] = "all" /\ Default["category"] = "all"
  /\ Default["health"] = "all" /\ Default["sort"] = "featured" /\ Default["q"] = ""
BY DEF Default

\* Filters that are all at their default hide nothing.
LEMMA NothingHidden == HiddenIsSaid
<1> SUFFICES ASSUME ~HasFilters PROVE Listed = Projects /\ ListedRepositories = Repositories
  BY DEF HiddenIsSaid
<1>1. /\ Value("lifecycle") = "all" /\ Value("maturity") = "all" /\ Value("category") = "all"
      /\ Value("health") = "all" /\ Value("q") = ""
  BY Names DEF HasFilters, Chosen
<1>2. Listed = Projects
  BY <1>1 DEF Listed, Matches, InLifecycle
<1>3. ~ProjectOnly
  BY Names DEF HasFilters, ProjectOnly, Fields
<1>4. ListedRepositories = Repositories
  BY <1>1, <1>3 DEF ListedRepositories, Matches
<1> QED
  BY <1>2, <1>4

\* Equally many of the ids of a project are all of them.
LEMMA CompleteMeansAll ==
  ASSUME NEW p \in Projects, Complete(p), p.binds # {}
  PROVE  ChecksOf(p) = p.binds
<1>1. IsFiniteSet(p.binds) /\ ChecksOf(p) \subseteq p.binds
  BY ListBinds DEF ChecksOf
<1>2. Cardinality(ChecksOf(p)) = Cardinality(p.binds)
  BY DEF Complete
<1> QED
  BY <1>1, <1>2, FS_Subset

LEMMA HealthyMeans ==
  ASSUME NEW p, Health(p) = "healthy"
  PROVE  Complete(p) /\ seen.fresh /\ With(p, "up") = ChecksOf(p)
BY DEF Health

LEMMA DisruptedMeans ==
  ASSUME NEW p, Health(p) = "disruption"
  PROVE  Complete(p) /\ seen.fresh /\ With(p, "down") = ChecksOf(p)
BY DEF Health

LEMMA HealthProven == HealthIsProven
<1>1. ASSUME NEW p \in Listed, Health(p) = "healthy", NEW s \in p.binds
      PROVE  seen.status[s] = "up"
  <2>1. ChecksOf(p) = p.binds
    BY <1>1, HealthyMeans, CompleteMeansAll DEF Listed
  <2> QED
    BY <1>1, <2>1, HealthyMeans DEF With
<1>2. ASSUME NEW p \in Listed, Health(p) = "healthy", NEW s \in Checked,
             p.binds = {}, FiledUnder[s] = p.slug, seen.status[s] # "absent"
      PROVE  seen.status[s] = "up"
  <2>1. s \in ChecksOf(p)
    BY <1>2 DEF ChecksOf, Published
  <2> QED
    BY <1>2, <2>1, HealthyMeans DEF With
<1>3. ASSUME NEW p \in Listed, Health(p) = "disruption", NEW s \in p.binds
      PROVE  seen.status[s] = "down"
  <2>1. ChecksOf(p) = p.binds
    BY <1>3, DisruptedMeans, CompleteMeansAll DEF Listed
  <2> QED
    BY <1>3, <2>1, DisruptedMeans DEF With
<1> QED
  BY <1>1, <1>2, <1>3, HealthyMeans, DisruptedMeans DEF HealthIsProven

LEMMA CountsAreEqual == CountsAgree
<1> SUFFICES ASSUME NEW health \in {"healthy", "unavailable", "not-monitored"},
                    Value("health") = health,
                    \A name \in DOMAIN Default \ {"health", "sort"} : ~Chosen(name)
             PROVE  Listed = {p \in Projects : Health(p) = health}
  BY DEF CountsAgree, Counted
<1>1. /\ Value("lifecycle") = "all" /\ Value("maturity") = "all" /\ Value("category") = "all"
      /\ Value("q") = ""
  BY Names DEF Chosen
<1>2. \A p : Value("health") \in {"all", Health(p)} <=> Health(p) = health
  OBVIOUS
<1> QED
  BY <1>1, <1>2 DEF Listed, Matches, InLifecycle

\* For all projects, checks and options: whatever is not listed, the page
\* offers to clear the filters; a project listed as healthy or disrupted has
\* the checks for it; and the summary counts what its filter lists:
\* ProjectList.tsx and deriveProjectHealth.
THEOREM ListIsHonest == ListSpec => []ListHonest
<1>1. ListHonest
  BY NothingHidden, HealthProven, CountsAreEqual DEF ListHonest
<1> QED
  BY <1>1, PTL
=============================================================================
