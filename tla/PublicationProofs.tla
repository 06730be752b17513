------------------------- MODULE PublicationProofs --------------------------
(***************************************************************************)
(* Proofs about Publication, for any number of requests, drafts, intents   *)
(* and commits.  Shape is the type invariant together with what gives the  *)
(* indices their meaning; it is inductive by itself.  The receipts follow  *)
(* from it; the journal needs what requests remember of their intents      *)
(* (Remembered) besides.  PublicationServes is the refinement of           *)
(* PublicationService.                                                     *)
(***************************************************************************)
EXTENDS Publication, Catalogue, FiniteSetTheorems, TLAPS

Working == {"updateHead", "headUpdated", "verify", "verified", "retryHead",
            "headRetried", "compare"}

\* An intent names a commit that exists, and one on main once it is recorded
\* as published; n is the number of commits, L the commits on main.
EntryOK(i, n, L) ==
  /\ i \in Intent
  /\ i.commit \in 0..n
  /\ i.phase \in {"committed", "complete"} => i.commit \in L

\* A request past the creation of its commit has one; it believes that the
\* commit is on main only when it is.
SlotOK(x, n, L) ==
  /\ x \in Request
  /\ EntryOK(x.intent, n, L)
  /\ x.pc \in Working => x.intent.commit # 0
  /\ x.pc \in {"gotHead", "gotCommit"} => x.seen \in 0..n
  /\ x.pc = "createCommit" => x.intent.base \in 1..n
  /\ x.pc \in {"headUpdated", "headRetried"} /\ x.seen # 0 => x.intent.commit \in L
  /\ x.pc = "compare" => x.intent.commit \in L

ReceiptOK(p, L) == p \in Receipt /\ (p.kind = "published" => p.commit \in L)

\* The part of the invariant about GitHub and the editor.
RemoteOK ==
  /\ baseOf \in Seq(Nat) /\ drafts \in [Kinds -> 0..Len(baseOf)]
  /\ aged \subseteq Nat /\ intents \in Nat
  /\ commits \in Seq(Commit)
  /\ main \in Seq(1..Len(commits)) /\ main # <<>>
  /\ deployed \in 1..Len(commits)

Shape ==
  /\ RemoteOK
  /\ \A i \in journal : EntryOK(i, Len(commits), Landed)
  /\ ReceiptOK(receipt, Landed)
  /\ req \in [Requests -> Request]
  /\ \A r \in Requests : SlotOK(req[r], Len(commits), Landed)

-----------------------------------------------------------------------------
(* What the small operators return.                                        *)

\* The records a request and the journal are updated with have their types.
LEMMA Records ==
  /\ NoDrafts \in Revisions
  /\ NoIntent \in Intent
  /\ NoReceipt \in Receipt
  /\ Idle \in Request
  /\ \A c \in Nat : Published(c) \in Receipt
  /\ \A k \in {"conflict", "failed"} : Refused(k) \in Receipt
  /\ \A i \in Intent, p \in Phases : Marked(i, p) \in Intent
  /\ \A pc \in Awaits, i \in Intent, v \in Nat : Slot(pc, i, v) \in Request
BY DEF NoDrafts, Revisions, NoIntent, Intent, Phases, NoReceipt, Receipt, Idle,
       Request, Published, Refused, Marked, Slot

LEMMA ShapeImplies == Shape => TypeOK /\ RecordsAreTrue
<1> SUFFICES ASSUME Shape PROVE TypeOK /\ RecordsAreTrue
  OBVIOUS
<1>1. main \in Seq(Nat) /\ deployed \in Nat
  <2>1. 1..Len(commits) \subseteq Nat
    BY DEF Shape, RemoteOK
  <2>2. QED
    BY <2>1 DEF Shape, RemoteOK
<1>2. journal \subseteq Intent /\ receipt \in Receipt
  BY DEF Shape, EntryOK, ReceiptOK
<1>3. drafts \in Revisions
  BY DEF Shape, RemoteOK, Revisions
<1>4. QED
  BY <1>1, <1>2, <1>3 DEF Shape, RemoteOK, TypeOK, RecordsAreTrue, EntryOK, ReceiptOK

\* The clauses survive when commits are added and main grows.
LEMMA Growth ==
  ASSUME NEW n \in Nat, NEW m \in Nat, n <= m,
         NEW L, NEW M, L \subseteq M
  PROVE  /\ \A i : EntryOK(i, n, L) => EntryOK(i, m, M)
         /\ \A x : SlotOK(x, n, L) => SlotOK(x, m, M)
         /\ \A p : ReceiptOK(p, L) => ReceiptOK(p, M)
BY DEF EntryOK, SlotOK, ReceiptOK

\* A step that gives one slot a good record, keeps GitHub as it is and leaves
\* good journal entries and a good receipt preserves the invariant.
LEMMA LocalStep ==
  ASSUME Shape, NEW r \in Requests, NEW x,
         SlotOK(x, Len(commits), Landed),
         req' = [req EXCEPT ![r] = x],
         UNCHANGED <<remote, baseOf>>,
         drafts' \in [Kinds -> 0..Len(baseOf)], aged' = aged, intents' \in Nat,
         ReceiptOK(receipt', Landed),
         \A i \in journal' : EntryOK(i, Len(commits), Landed)
  PROVE  Shape'
<1>1. RemoteOK' /\ Landed' = Landed
  BY DEF Shape, RemoteOK, remote, Landed
<1>2. x \in Request
  BY DEF SlotOK
<1>3. \A q \in Requests : SlotOK(req'[q], Len(commits), Landed)
  BY DEF Shape
<1>4. req' \in [Requests -> Request]
  BY <1>2 DEF Shape
<1>5. QED
  BY <1>1, <1>3, <1>4 DEF Shape, remote

\* The same for a step that touches nothing but a slot.
LEMMA SlotStep ==
  ASSUME Shape, NEW r \in Requests, NEW x,
         SlotOK(x, Len(commits), Landed),
         req' = [req EXCEPT ![r] = x],
         UNCHANGED <<drafts, baseOf, journal, aged, receipt, remote, intents>>
  PROVE  Shape'
<1>1. /\ drafts' \in [Kinds -> 0..Len(baseOf)] /\ intents' \in Nat
      /\ ReceiptOK(receipt', Landed)
      /\ \A i \in journal' : EntryOK(i, Len(commits), Landed)
  BY DEF Shape, RemoteOK
<1>2. QED
  BY <1>1, LocalStep

\* An idle slot is good, whatever exists.
LEMMA IdleOK ==
  ASSUME NEW n \in Nat, NEW L
  PROVE  SlotOK(Idle, n, L)
BY Records DEF SlotOK, EntryOK, Idle, Slot, NoIntent, Working

\* What the invariant says of numbers and of the slot at hand.
LEMMA ShapeFacts ==
  ASSUME Shape, NEW r \in Requests
  PROVE  /\ Len(commits) \in Nat
         /\ SlotOK(req[r], Len(commits), Landed)
         /\ req[r] \in Request /\ req[r].intent \in Intent
         /\ EntryOK(req[r].intent, Len(commits), Landed)
         /\ Tip \in Landed /\ Tip \in 1..Len(commits)
         /\ Landed \subseteq 1..Len(commits)
         /\ \A i \in journal : EntryOK(i, Len(commits), Landed)
         /\ ReceiptOK(receipt, Landed)
         /\ drafts \in [Kinds -> 0..Len(baseOf)] /\ drafts \in Revisions /\ intents \in Nat
<1>1. Len(main) \in DOMAIN main /\ \A n \in DOMAIN main : main[n] \in 1..Len(commits)
  BY DEF Shape, RemoteOK
<1>2. Tip \in Landed /\ Landed \subseteq 1..Len(commits)
  BY <1>1 DEF Tip, Landed
<1>3. SlotOK(req[r], Len(commits), Landed)
  BY DEF Shape
<1>4. req[r] \in Request /\ EntryOK(req[r].intent, Len(commits), Landed)
  BY <1>3 DEF SlotOK
<1>5. drafts \in Revisions /\ req[r].intent \in Intent
  BY <1>4 DEF Shape, RemoteOK, Revisions, EntryOK
<1>6. QED
  BY <1>2, <1>3, <1>4, <1>5 DEF Shape, RemoteOK

-----------------------------------------------------------------------------
(* Requests before their commit.                                           *)

LEMMA RecoveryStarts ==
  ASSUME Shape, NEW r \in Requests, NEW v, StartRecovery(r, v)
  PROVE  Shape'
<1>1. PICK i \in journal : i.commit # 0 /\ Goto(r, "verify", i)
  BY DEF StartRecovery
<1>2. SlotOK(Slot("verify", i, 0), Len(commits), Landed)
  <2>1. EntryOK(i, Len(commits), Landed) /\ i \in Intent
    BY DEF Shape, EntryOK
  <2>2. Slot("verify", i, 0) \in Request
    BY <2>1, Records DEF Awaits
  <2>3. QED
    BY <1>1, <2>1, <2>2 DEF SlotOK, Slot, Working
<1>3. QED
  <2>1. req' = [req EXCEPT ![r] = Slot("verify", i, 0)]
    BY <1>1 DEF Goto
  <2>2. QED
    BY <1>2, <2>1, SlotStep DEF StartRecovery

\* A planned publication has no commit yet, and needs only its types.
LEMMA PlanOK ==
  ASSUME Shape, NEW v \in Revisions, NEW base \in Nat
  PROVE  SlotOK(Slot("getHead", Plan(v, base), 0), Len(commits), Landed)
<1>1. BundleContent \in Revisions
  <2>1. commits[deployed].content \in Revisions
    <3>1. commits[deployed] \in Commit
      BY DEF Shape, RemoteOK
    <3>2. QED
      BY <3>1 DEF Commit
  <2>2. drafts \in Revisions
    BY ShapeFacts DEF Shape, RemoteOK, Revisions
  <2>3. QED
    BY <2>1, <2>2 DEF BundleContent, Revisions
<1>2. Plan(v, base) \in Intent
  BY <1>1 DEF Plan, Intent, Phases
<1>3. Slot("getHead", Plan(v, base), 0) \in Request
  BY <1>2, Records DEF Awaits
<1>4. Len(commits) \in Nat
  BY DEF Shape, RemoteOK
<1>5. QED
  BY <1>2, <1>3, <1>4 DEF SlotOK, EntryOK, Plan, Slot, Working

LEMMA PublishStarts ==
  ASSUME Shape, NEW r \in Requests, StartPublish(r)
  PROVE  Shape'
<1>1. PICK base \in Bases(drafts) : /\ Bases(drafts) = {base}
                                    /\ Goto(r, "getHead", Plan(drafts, base))
  BY DEF StartPublish
<1>2. base \in Nat
  BY DEF Bases, Shape, RemoteOK
<1>3. QED
  BY <1>1, <1>2, PlanOK, ShapeFacts, SlotStep DEF StartPublish, Goto

LEMMA PublishRestarts ==
  ASSUME Shape, NEW r \in Requests, NEW v, RestartPublish(r, v)
  PROVE  Shape'
<1>1. PICK i \in journal :
        /\ Expired(i)
        /\ journal' = Replaced(i, Marked(i, "failed"))
        /\ IF v = drafts THEN Goto(r, "getHead", Plan(v, i.base)) ELSE UNCHANGED req
  BY DEF RestartPublish
<1>2. EntryOK(i, Len(commits), Landed)
  BY DEF Shape
<1>3. \A j \in journal' : EntryOK(j, Len(commits), Landed)
  <2>1. EntryOK(Marked(i, "failed"), Len(commits), Landed)
    BY <1>2, Records DEF EntryOK, Marked, Phases, Intent
  <2>2. QED
    BY <1>1, <2>1 DEF Replaced, Shape
<1>4. CASE v = drafts
  <2>1. v \in Revisions /\ i.base \in Nat
    BY <1>2, <1>4, ShapeFacts DEF EntryOK, Intent
  <2>2. SlotOK(Slot("getHead", Plan(v, i.base), 0), Len(commits), Landed)
    BY <2>1, PlanOK
  <2>3. QED
    BY <1>1, <1>3, <1>4, <2>2, ShapeFacts, LocalStep DEF RestartPublish, Goto
<1>5. CASE v # drafts
  <2>1. req' = [req EXCEPT ![r] = req[r]]
    BY <1>1, <1>5 DEF Shape
  <2>2. QED
    BY <1>3, <2>1, ShapeFacts, LocalStep DEF RestartPublish
<1>6. QED
  BY <1>4, <1>5

\* A remote answer that is a head of main, or an error.
LEMMA HeadAnswers ==
  ASSUME Shape, NEW r \in Requests, GetHead(r) \/ Verify(r)
  PROVE  Shape'
<1>1. PICK v \in {Tip, 0}, pc \in {"gotHead", "verified"} :
        /\ Answer(r, pc, v)
        /\ pc = "verified" => req[r].pc = "verify"
  BY DEF GetHead, Verify
<1>2. SlotOK(Slot(pc, req[r].intent, v), Len(commits), Landed)
  <2>1. v \in 0..Len(commits) /\ v \in Nat
    BY ShapeFacts
  <2>2. Slot(pc, req[r].intent, v) \in Request
    BY <2>1, ShapeFacts, Records DEF Awaits
  <2>3. QED
    BY <1>1, <2>1, <2>2, ShapeFacts DEF SlotOK, Slot, Working
<1>3. QED
  BY <1>1, <1>2, SlotStep DEF GetHead, Verify, Answer

\* The request ends and at most a conflict or failed receipt is written.
LEMMA RefusalStep ==
  ASSUME Shape, NEW r \in Requests, Done(r),
         NEW S \in SUBSET {"conflict", "failed"}, WriteReceipt(S),
         UNCHANGED <<drafts, baseOf, aged, remote, intents>>,
         \A i \in journal' : EntryOK(i, Len(commits), Landed)
  PROVE  Shape'
<1>1. ReceiptOK(receipt', Landed)
  BY Records, ShapeFacts DEF WriteReceipt, ReceiptOK, Refused
<1>2. SlotOK(Idle, Len(commits), Landed)
  BY IdleOK, ShapeFacts
<1>3. QED
  BY <1>1, <1>2, LocalStep, ShapeFacts DEF Done

LEMMA HeadRefused ==
  ASSUME Shape, NEW r \in Requests, Refuse(r)
  PROVE  Shape'
<1>1. \A i \in journal' : EntryOK(i, Len(commits), Landed)
  BY ShapeFacts DEF Refuse
<1>2. QED
  BY <1>1, RefusalStep DEF Refuse

LEMMA IntentJoined ==
  ASSUME Shape, NEW r \in Requests, JoinIntent(r)
  PROVE  Shape'
<1>1. PICK j \in journal : Reconcile(r, j)
  BY DEF JoinIntent, SameKeyIntents
<1>2. CASE j.commit = 0
  BY <1>1, <1>2, IdleOK, SlotStep, ShapeFacts DEF Reconcile, Done, JoinIntent
<1>3. CASE j.commit # 0
  <2>1. EntryOK(j, Len(commits), Landed) /\ j \in Intent
    BY DEF Shape, EntryOK
  <2>2. Slot("verify", j, 0) \in Request
    BY <2>1, Records DEF Awaits
  <2>3. SlotOK(Slot("verify", j, 0), Len(commits), Landed)
    BY <1>3, <2>1, <2>2 DEF SlotOK, Slot, Working
  <2>4. QED
    BY <1>1, <1>3, <2>3, SlotStep DEF Reconcile, Goto, JoinIntent
<1>4. QED
  BY <1>2, <1>3

-----------------------------------------------------------------------------
(* Requests that create their intent and its commit.                       *)

LEMMA IntentCreated ==
  ASSUME Shape, NEW r \in Requests, CreateIntent(r)
  PROVE  Shape'
<1> DEFINE i == [Keyed(r) EXCEPT !.id = intents + 1]
<1>1. /\ req[r].pc = "gotHead" /\ req[r].seen # 0
      /\ intents' = intents + 1
      /\ journal' = Trimmed \cup {i}
      /\ req' = [req EXCEPT ![r] = Slot("createCommit", i, 0)]
      /\ UNCHANGED <<drafts, baseOf, aged, receipt, remote>>
  BY DEF CreateIntent, BaseIsHead, AnyHead, Goto
<1>2. req[r].seen \in 1..Len(commits)
  BY <1>1, ShapeFacts DEF SlotOK
<1>3. i \in Intent /\ i.base = req[r].seen
  <2>1. Keyed(r) \in Intent /\ Keyed(r).base = req[r].seen
    BY <1>2, ShapeFacts DEF Keyed, Intent
  <2>2. QED
    BY <2>1, ShapeFacts DEF Intent
<1>4. EntryOK(i, Len(commits), Landed)
  BY <1>3, ShapeFacts DEF EntryOK, Keyed, Intent
<1> HIDE DEF i
<1>5. SlotOK(Slot("createCommit", i, 0), Len(commits), Landed)
  <2>1. Slot("createCommit", i, 0) \in Request
    BY <1>3, Records DEF Awaits
  <2>2. QED
    BY <1>2, <1>3, <1>4, <2>1 DEF SlotOK, Slot, Working
<1>6. \A j \in journal' : EntryOK(j, Len(commits), Landed)
  BY <1>1, <1>4, ShapeFacts DEF Trimmed
<1>7. intents' \in Nat /\ ReceiptOK(receipt', Landed) /\ drafts' \in [Kinds -> 0..Len(baseOf)]
  BY <1>1, ShapeFacts
<1>8. QED
  BY <1>1, <1>5, <1>6, <1>7, LocalStep

\* A step that adds commits, or moves main forward, and changes slots only to
\* good records preserves the invariant.
LEMMA GrowthStep ==
  ASSUME Shape, RemoteOK', Len(commits) <= Len(commits'), Landed \subseteq Landed',
         UNCHANGED <<journal, receipt>>,
         req' \in [Requests -> Request],
         \A q \in Requests : req'[q] = req[q] \/ SlotOK(req'[q], Len(commits'), Landed')
  PROVE  Shape'
<1>1. Len(commits) \in Nat /\ Len(commits') \in Nat
  BY DEF Shape, RemoteOK
<1>2. /\ \A i : EntryOK(i, Len(commits), Landed) => EntryOK(i, Len(commits'), Landed')
      /\ \A x : SlotOK(x, Len(commits), Landed) => SlotOK(x, Len(commits'), Landed')
      /\ \A p : ReceiptOK(p, Landed) => ReceiptOK(p, Landed')
  BY <1>1, Growth
<1>3. QED
  BY <1>2 DEF Shape

LEMMA CommitCreated ==
  ASSUME Shape, NEW r \in Requests, CreateCommit(r)
  PROVE  Shape'
<1> DEFINE i == req[r].intent
           c == [parent |-> i.base, content |-> i.content, reviewed |-> i.reviewed]
<1>1. req[r].pc = "createCommit"
  BY DEF CreateCommit
<1>2. c \in Commit
  BY ShapeFacts DEF Commit, Intent
<1>3. \A n \in Nat : \A v \in 0..n : EntryOK(i, n, Landed) =>
        SlotOK(Slot("gotCommit", i, v), n, Landed)
  <2> SUFFICES ASSUME NEW n \in Nat, NEW v \in 0..n, EntryOK(i, n, Landed)
               PROVE  SlotOK(Slot("gotCommit", i, v), n, Landed)
    OBVIOUS
  <2>1. Slot("gotCommit", i, v) \in Request
    BY ShapeFacts, Records DEF Awaits
  <2>2. QED
    BY <2>1 DEF SlotOK, Slot, Working
<1>4. CASE UNCHANGED commits /\ Answer(r, "gotCommit", 0)
  <2>1. SlotOK(Slot("gotCommit", i, 0), Len(commits), Landed)
    BY <1>3, ShapeFacts
  <2>2. UNCHANGED <<drafts, baseOf, journal, aged, receipt, remote, intents>>
    BY <1>4 DEF CreateCommit, remote
  <2>3. req' = [req EXCEPT ![r] = Slot("gotCommit", i, 0)]
    BY <1>4 DEF Answer
  <2>4. QED
    BY <2>1, <2>2, <2>3, SlotStep
<1>5. CASE /\ commits' = Append(commits, c)
           /\ \E v \in {Len(commits) + 1, 0} : Answer(r, "gotCommit", v)
  <2>1. PICK v \in {Len(commits) + 1, 0} :
          req' = [req EXCEPT ![r] = Slot("gotCommit", i, v)]
    BY <1>5 DEF Answer
  <2>2. commits' \in Seq(Commit) /\ Len(commits') = Len(commits) + 1
    BY <1>2, <1>5 DEF Shape, RemoteOK
  <2>3. RemoteOK' /\ Landed' = Landed
    BY <2>2 DEF Shape, RemoteOK, CreateCommit, Landed
  <2>4. SlotOK(Slot("gotCommit", i, v), Len(commits'), Landed)
    <3>1. Len(commits') \in Nat /\ v \in 0..Len(commits') /\ Len(commits) <= Len(commits')
      BY <2>2, ShapeFacts
    <3>2. EntryOK(i, Len(commits'), Landed)
      BY <3>1, ShapeFacts, Growth
    <3>3. QED
      BY <1>3, <3>1, <3>2
  <2>5. \A q \in Requests : req'[q] = req[q] \/ SlotOK(req'[q], Len(commits'), Landed')
    BY <2>1, <2>3, <2>4 DEF Shape
  <2>6. req' \in [Requests -> Request]
    BY <2>1, <2>4 DEF Shape, SlotOK
  <2>7. Len(commits) <= Len(commits') /\ UNCHANGED <<journal, receipt>>
    BY <2>2, ShapeFacts DEF CreateCommit
  <2>8. QED
    BY <2>3, <2>5, <2>6, <2>7, GrowthStep
<1>6. QED
  BY <1>4, <1>5 DEF CreateCommit

\* An intent keeps its meaning in a new phase, if that phase is not a claim
\* that its commit is on main, or the claim is true.
LEMMA MarkedOK ==
  ASSUME NEW n, NEW L, NEW i, EntryOK(i, n, L), NEW p \in Phases,
         p \in {"committed", "complete"} => i.commit \in L
  PROVE  EntryOK(Marked(i, p), n, L)
<1>1. Marked(i, p) \in Intent
  BY Records DEF EntryOK
<1>2. QED
  BY <1>1 DEF EntryOK, Marked, Intent

LEMMA CommitRecorded ==
  ASSUME Shape, NEW r \in Requests, RecordCommit(r)
  PROVE  Shape'
<1> DEFINE i == req[r].intent
           j == [i EXCEPT !.phase = "ref-pending", !.commit = req[r].seen]
<1>1. /\ req[r].pc = "gotCommit" /\ req[r].seen # 0
      /\ journal' = Replaced(i, j)
      /\ req' = [req EXCEPT ![r] = Slot("updateHead", j, 0)]
      /\ UNCHANGED <<drafts, baseOf, aged, receipt, remote, intents>>
  BY DEF RecordCommit, Goto
<1>2. req[r].seen \in 1..Len(commits)
  BY <1>1, ShapeFacts DEF SlotOK
<1>3. j \in Intent /\ j.commit = req[r].seen /\ j.phase = "ref-pending"
  <2>1. i \in Intent /\ req[r].seen \in Nat
    BY <1>2, ShapeFacts
  <2>2. [i EXCEPT !.phase = "ref-pending"] \in Intent
    BY <2>1 DEF Intent, Phases
  <2>3. QED
    BY <2>1, <2>2 DEF Intent
<1> HIDE DEF j
<1>4. EntryOK(j, Len(commits), Landed)
  BY <1>2, <1>3 DEF EntryOK
<1>5. SlotOK(Slot("updateHead", j, 0), Len(commits), Landed)
  <2>1. Slot("updateHead", j, 0) \in Request
    BY <1>3, Records DEF Awaits
  <2>2. QED
    BY <1>2, <1>3, <1>4, <2>1 DEF SlotOK, Slot, Working
<1>6. \A k \in journal' : EntryOK(k, Len(commits), Landed)
  BY <1>1, <1>4, ShapeFacts DEF Replaced
<1>7. intents' \in Nat /\ ReceiptOK(receipt', Landed) /\ drafts' \in [Kinds -> 0..Len(baseOf)]
  BY <1>1, ShapeFacts
<1>8. QED
  BY <1>1, <1>5, <1>6, <1>7, LocalStep

LEMMA IntentAbandoned ==
  ASSUME Shape, NEW r \in Requests, AbandonIntent(r)
  PROVE  Shape'
<1> DEFINE i == req[r].intent
<1>1. EntryOK(Marked(i, "failed"), Len(commits), Landed)
  BY MarkedOK, ShapeFacts DEF Phases
<1>2. journal' = Replaced(i, Marked(i, "failed")) \/ journal' = journal
  BY DEF AbandonIntent
<1>3. \A k \in journal' : EntryOK(k, Len(commits), Landed)
  BY <1>1, <1>2, ShapeFacts DEF Replaced
<1>4. QED
  BY <1>3, RefusalStep DEF AbandonIntent

-----------------------------------------------------------------------------
(* Requests that have a commit.                                            *)

\* A request that goes on with the intent it has needs no more than a commit.
LEMMA SameIntentOK ==
  ASSUME NEW x, NEW n \in Nat, NEW L, SlotOK(x, n, L), x.intent.commit # 0,
         NEW pc \in {"verify", "retryHead", "verified"}, NEW v \in Nat
  PROVE  SlotOK(Slot(pc, x.intent, v), n, L)
<1>1. Slot(pc, x.intent, v) \in Request
  BY Records DEF Awaits, SlotOK, EntryOK
<1>2. QED
  BY <1>1 DEF SlotOK, Slot

LEMMA HeadUpdates ==
  ASSUME Shape, NEW r \in Requests, UpdateHead(r)
  PROVE  Shape'
<1> DEFINE i == req[r].intent
           c == i.commit
<1>1. PICK next \in {"headUpdated", "headRetried"} :
        /\ req[r].pc \in {"updateHead", "retryHead"}
        /\ \/ /\ main' = Append(main, c)
              /\ \E v \in {c, 0} : Answer(r, next, v)
           \/ /\ UNCHANGED main
              /\ \E v \in {IF Tip = c THEN c ELSE 0, 0} : Answer(r, next, v)
  BY DEF UpdateHead
<1>2. c \in 1..Len(commits)
  BY <1>1, ShapeFacts DEF SlotOK, Working, EntryOK
<1>3. ASSUME NEW L, NEW v \in {c, 0}, EntryOK(i, Len(commits), L), v # 0 => c \in L
      PROVE  SlotOK(Slot(next, i, v), Len(commits), L)
  <2>1. v \in Nat
    BY <1>2
  <2>2. Slot(next, i, v) \in Request
    BY <2>1, ShapeFacts, Records DEF Awaits
  <2>3. QED
    BY <1>2, <1>3, <2>2 DEF SlotOK, Slot
<1>4. CASE /\ main' = Append(main, c)
           /\ \E v \in {c, 0} : Answer(r, next, v)
  <2>1. PICK v \in {c, 0} : req' = [req EXCEPT ![r] = Slot(next, i, v)]
    BY <1>4 DEF Answer
  <2>2. UNCHANGED <<drafts, baseOf, journal, aged, receipt, commits, deployed, intents>>
    BY DEF UpdateHead
  <2>3. main' \in Seq(1..Len(commits)) /\ main' # <<>>
    BY <1>2, <1>4 DEF Shape, RemoteOK
  <2>4. RemoteOK'
    BY <2>2, <2>3 DEF Shape, RemoteOK
  <2>5. Landed \subseteq Landed' /\ c \in Landed'
    <3>1. /\ DOMAIN main' = 1..Len(main) + 1 /\ DOMAIN main = 1..Len(main) /\ Len(main) \in Nat
          /\ main'[Len(main) + 1] = c /\ \A n \in DOMAIN main : main'[n] = main[n]
      BY <1>2, <1>4 DEF Shape, RemoteOK
    <3>2. QED
      BY <3>1 DEF Landed
  <2>6. SlotOK(Slot(next, i, v), Len(commits), Landed')
    <3>1. EntryOK(i, Len(commits), Landed')
      BY <2>5, ShapeFacts DEF EntryOK
    <3>2. QED
      BY <1>3, <2>5, <3>1
  <2>7. req' \in [Requests -> Request]
    BY <2>1, <2>6 DEF Shape, SlotOK
  <2>8. \A q \in Requests : req'[q] = req[q] \/ SlotOK(req'[q], Len(commits'), Landed')
    BY <2>1, <2>2, <2>6 DEF Shape
  <2>9. Len(commits) <= Len(commits')
    BY <2>2, ShapeFacts
  <2>10. QED
    BY <2>2, <2>4, <2>5, <2>7, <2>8, <2>9, GrowthStep
<1>5. CASE /\ UNCHANGED main
           /\ \E v \in {IF Tip = c THEN c ELSE 0, 0} : Answer(r, next, v)
  <2>1. PICK v \in {IF Tip = c THEN c ELSE 0, 0} :
          req' = [req EXCEPT ![r] = Slot(next, i, v)]
    BY <1>5 DEF Answer
  <2>2. v \in {c, 0} /\ (v # 0 => c \in Landed)
    BY ShapeFacts
  <2>3. SlotOK(Slot(next, i, v), Len(commits), Landed)
    BY <1>3, <2>2, ShapeFacts
  <2>4. UNCHANGED <<drafts, baseOf, journal, aged, receipt, remote, intents>>
    BY <1>5 DEF UpdateHead, remote
  <2>5. QED
    BY <2>1, <2>3, <2>4, SlotStep
<1>6. QED
  BY <1>1, <1>4, <1>5

\* A step that only ends a request, or sends it on with its intent.
LEMMA RequestMoves ==
  ASSUME Shape, NEW r \in Requests,
         \/ HeadNotUpdated(r) \/ VerifyStops(r) \/ RetryHead(r)
         \/ FinishRefused(r) \/ CompareStops(r)
  PROVE  Shape'
<1>1. UNCHANGED <<drafts, baseOf, journal, aged, receipt, remote, intents>>
  BY DEF HeadNotUpdated, VerifyStops, RetryHead, FinishRefused, CompareStops
<1>2. CASE Done(r)
  BY <1>1, <1>2, IdleOK, SlotStep, ShapeFacts DEF Done
<1>3. CASE ~Done(r)
  <2>1. PICK pc \in {"verify", "retryHead"} :
          /\ req' = [req EXCEPT ![r] = Slot(pc, req[r].intent, 0)]
          /\ req[r].pc \in Working
    BY <1>3 DEF HeadNotUpdated, VerifyStops, RetryHead, FinishRefused, CompareStops,
                Goto, Working
  <2>2. SlotOK(Slot(pc, req[r].intent, 0), Len(commits), Landed)
    <3>1. req[r].intent.commit # 0 /\ SlotOK(req[r], Len(commits), Landed)
      BY <2>1, ShapeFacts DEF SlotOK
    <3>2. QED
      BY <3>1, ShapeFacts, SameIntentOK
  <2>3. QED
    BY <1>1, <2>1, <2>2, SlotStep
<1>4. QED
  BY <1>2, <1>3

-----------------------------------------------------------------------------
(* Requests that finish.                                                   *)

\* The commit of a confirmed request is on main.
LEMMA ConfirmedLanded ==
  ASSUME Shape, NEW r \in Requests, Confirmed(r)
  PROVE  req[r].intent.commit \in Landed
<1>1. CASE req[r].pc \in {"headUpdated", "headRetried"} /\ req[r].seen # 0
  BY <1>1, ShapeFacts DEF SlotOK
<1>2. CASE OnMain(r)
  BY <1>2 DEF OnMain, IsAncestor, Landed
<1>3. QED
  BY <1>1, <1>2 DEF Confirmed

\* The writes of a finish, in any combination, leave good drafts, a good
\* receipt and good journal entries, because the commit is on main.
LEMMA FinishWrites ==
  ASSUME Shape, NEW r \in Requests, req[r].intent.commit \in Landed
  PROVE  /\ ReceiptOK(Published(req[r].intent.commit), Landed)
         /\ \A kinds : Cleared(req[r].intent, kinds) \in [Kinds -> 0..Len(baseOf)]
         /\ \A p \in {"committed", "complete"} :
              EntryOK(Marked(req[r].intent, p), Len(commits), Landed)
<1>1. req[r].intent.commit \in Nat
  BY ShapeFacts DEF EntryOK
<1>2. Published(req[r].intent.commit) \in Receipt
  BY <1>1, Records
<1>3. ReceiptOK(Published(req[r].intent.commit), Landed)
  BY <1>2 DEF ReceiptOK, Published
<1>4. \A kinds : Cleared(req[r].intent, kinds) \in [Kinds -> 0..Len(baseOf)]
  <2>1. Len(baseOf) \in Nat
    BY DEF Shape, RemoteOK
  <2>2. QED
    BY <2>1, ShapeFacts DEF Cleared
<1>5. \A p \in {"committed", "complete"} :
        EntryOK(Marked(req[r].intent, p), Len(commits), Landed)
  BY ShapeFacts, MarkedOK DEF Phases
<1>6. QED
  BY <1>3, <1>4, <1>5

\* A step that ends the request after some of those writes.
LEMMA FinishStep ==
  ASSUME Shape, NEW r \in Requests, Done(r), req[r].intent.commit \in Landed,
         NEW p \in {"committed", "complete"}, NEW kinds,
         receipt' \in {receipt, Published(req[r].intent.commit)},
         drafts' \in {drafts, Cleared(req[r].intent, kinds)},
         journal' \in {journal, Replaced(req[r].intent, Marked(req[r].intent, p))},
         UNCHANGED <<baseOf, aged, remote, intents>>
  PROVE  Shape'
<1>1. ReceiptOK(receipt', Landed)
  BY FinishWrites, ShapeFacts
<1>2. drafts' \in [Kinds -> 0..Len(baseOf)]
  BY FinishWrites, ShapeFacts
<1>3. \A i \in journal' : EntryOK(i, Len(commits), Landed)
  BY FinishWrites, ShapeFacts DEF Replaced
<1>4. SlotOK(Idle, Len(commits), Landed)
  BY IdleOK, ShapeFacts
<1>5. req' = [req EXCEPT ![r] = Idle] /\ intents' \in Nat
  BY ShapeFacts DEF Done
<1>6. QED
  BY <1>1, <1>2, <1>3, <1>4, <1>5, LocalStep

LEMMA Finishes ==
  ASSUME Shape, NEW r \in Requests, Finish(r) \/ FinishCompared(r) \/ FinishStops(r)
  PROVE  Shape'
<1>1. req[r].intent.commit \in Landed
  <2>1. CASE Confirmed(r)
    BY <2>1, ConfirmedLanded
  <2>2. CASE req[r].pc = "compare"
    BY <2>2, ShapeFacts DEF SlotOK
  <2>3. QED
    BY <2>1, <2>2 DEF Finish, FinishCompared, FinishStops
<1>2. Done(r) /\ UNCHANGED <<baseOf, aged, remote, intents>>
  BY DEF Finish, FinishCompared, FinishStops
<1>3. receipt' \in {receipt, Published(req[r].intent.commit)}
  BY DEF Finish, FinishCompared, FinishStops
<1>4. PICK kinds : drafts' \in {drafts, Cleared(req[r].intent, kinds)}
  BY DEF Finish, FinishCompared, FinishStops
<1>5. PICK p \in {"committed", "complete"} :
        journal' \in {journal, Replaced(req[r].intent, Marked(req[r].intent, p))}
  BY DEF Finish, FinishCompared, FinishStops
<1>6. QED
  BY <1>1, <1>2, <1>3, <1>4, <1>5, FinishStep

LEMMA FinishAsks ==
  ASSUME Shape, NEW r \in Requests, FinishCompares(r)
  PROVE  Shape'
<1> DEFINE i == Marked(req[r].intent, "committed")
           x == [Slot("compare", i, 0) EXCEPT !.prev = receipt]
<1>1. /\ Confirmed(r) /\ journal' = Replaced(req[r].intent, i)
      /\ req' = [req EXCEPT ![r] = x]
      /\ UNCHANGED <<drafts, baseOf, aged, receipt, remote, intents>>
  BY DEF FinishCompares
<1>2. req[r].intent.commit \in Landed
  BY <1>1, ConfirmedLanded
<1>3. EntryOK(i, Len(commits), Landed) /\ i.commit = req[r].intent.commit
  BY <1>2, FinishWrites, ShapeFacts DEF Marked, Intent
<1>4. i.commit \in 1..Len(commits)
  BY <1>2, <1>3, ShapeFacts
<1> HIDE DEF i
<1>5. x \in Request /\ x.pc = "compare" /\ x.intent = i
  BY <1>3, ShapeFacts DEF EntryOK, Slot, Request, Awaits, NoReceipt, Receipt, ReceiptOK
<1>6. SlotOK(x, Len(commits), Landed)
  BY <1>2, <1>3, <1>4, <1>5 DEF SlotOK
<1>7. \A j \in journal' : EntryOK(j, Len(commits), Landed)
  BY <1>1, <1>3, ShapeFacts DEF Replaced
<1>8. drafts' \in [Kinds -> 0..Len(baseOf)] /\ intents' \in Nat /\ ReceiptOK(receipt', Landed)
  BY <1>1, ShapeFacts
<1>9. QED
  BY <1>1, <1>6, <1>7, <1>8, LocalStep

-----------------------------------------------------------------------------
(* The owner and the world around the requests.                            *)

\* A draft changes to a revision in range.
LEMMA DraftReplaced ==
  ASSUME NEW n \in Nat, NEW m \in Nat, n <= m, NEW f \in [Kinds -> 0..n],
         NEW k, NEW v \in 0..m
  PROVE  [f EXCEPT ![k] = v] \in [Kinds -> 0..m]
<1>1. 0..n \subseteq 0..m
  OBVIOUS
<1>2. f \in [Kinds -> 0..m]
  BY <1>1
<1>3. QED
  BY <1>2, Zenon

LEMMA OwnerEdits ==
  ASSUME Shape, NEW k \in Edited, SaveDraft(k) \/ DiscardDraft(k)
  PROVE  Shape'
<1>1. UNCHANGED <<journal, aged, receipt, remote, intents, req>>
  BY DEF SaveDraft, DiscardDraft
<1>2. baseOf' \in Seq(Nat) /\ drafts' \in [Kinds -> 0..Len(baseOf')]
  <2>1. CASE SaveDraft(k)
    <3>1. deployed \in Nat /\ baseOf' = Append(baseOf, deployed)
      BY <2>1, ShapeFacts DEF SaveDraft, Shape, RemoteOK
    <3>2. baseOf' \in Seq(Nat) /\ Len(baseOf') = Len(baseOf) + 1 /\ Len(baseOf) \in Nat
      BY <3>1 DEF Shape, RemoteOK
    <3>3. drafts' = [drafts EXCEPT ![k] = Len(baseOf) + 1]
      BY <2>1 DEF SaveDraft
    <3>4. drafts' \in [Kinds -> 0..Len(baseOf) + 1]
      <4>1. Len(baseOf) + 1 \in 0..Len(baseOf) + 1 /\ Len(baseOf) <= Len(baseOf) + 1
        BY <3>2
      <4>2. drafts \in [Kinds -> 0..Len(baseOf)]
        BY DEF Shape, RemoteOK
      <4>3. Len(baseOf) + 1 \in Nat
        BY <3>2
      <4>4. [drafts EXCEPT ![k] = Len(baseOf) + 1] \in [Kinds -> 0..Len(baseOf) + 1]
        BY <3>2, <4>1, <4>2, <4>3, DraftReplaced
      <4>5. QED
        BY <3>3, <4>4
    <3>5. QED
      BY <3>2, <3>4
  <2>2. CASE DiscardDraft(k)
    <3>1. baseOf' = baseOf /\ drafts' = [drafts EXCEPT ![k] = 0]
      BY <2>2 DEF DiscardDraft
    <3>2. baseOf \in Seq(Nat) /\ Len(baseOf) \in Nat /\ drafts \in [Kinds -> 0..Len(baseOf)]
      BY DEF Shape, RemoteOK
    <3>3. drafts' \in [Kinds -> 0..Len(baseOf)]
      <4>1. 0 \in 0..Len(baseOf) /\ Len(baseOf) <= Len(baseOf)
        BY <3>2
      <4>2. QED
        BY <3>1, <3>2, <4>1, DraftReplaced
    <3>4. QED
      BY <3>1, <3>2, <3>3
  <2>3. QED
    BY <2>1, <2>2
<1>3. RemoteOK'
  BY <1>1, <1>2 DEF Shape, RemoteOK, remote
<1>4. Landed' = Landed
  BY <1>1 DEF Landed, remote
<1>5. QED
  BY <1>1, <1>3, <1>4 DEF Shape, remote

LEMMA ServerStops ==
  ASSUME Shape, Crash
  PROVE  Shape'
<1>1. UNCHANGED <<drafts, baseOf, journal, aged, receipt, remote, intents>>
  BY DEF Crash
<1>2. RemoteOK' /\ Landed' = Landed /\ Len(commits) \in Nat
  BY <1>1 DEF Shape, RemoteOK, remote, Landed
<1>3. req' \in [Requests -> Request]
  BY Records DEF Crash
<1>4. \A r \in Requests : SlotOK(req'[r], Len(commits), Landed)
  BY <1>2, IdleOK DEF Crash
<1>5. QED
  BY <1>1, <1>2, <1>3, <1>4 DEF Shape, remote

LEMMA MainPushed ==
  ASSUME Shape, ExternalPush
  PROVE  Shape'
<1> DEFINE c == Len(commits) + 1
<1>1. PICK content :
        /\ \/ content = commits[Tip].content
           \/ \E k \in Kinds : content = [commits[Tip].content EXCEPT ![k] = Len(baseOf) + 1]
        /\ commits' = Append(commits, [parent |-> Tip, content |-> content,
                                       reviewed |-> NoDrafts])
        /\ baseOf' \in {baseOf, Append(baseOf, 0)}
  BY DEF ExternalPush
<1>2. /\ main' = Append(main, c)
      /\ UNCHANGED <<drafts, journal, aged, receipt, deployed, intents, req>>
  BY DEF ExternalPush
<1>3. Tip \in 1..Len(commits) /\ Len(commits) \in Nat /\ Len(baseOf) \in Nat
  <2>1. Tip \in 1..Len(commits)
    <3>1. Len(main) \in 1..Len(main)
      BY DEF Shape, RemoteOK
    <3>2. QED
      BY <3>1 DEF Tip, Shape, RemoteOK
  <2>2. QED
    BY <2>1 DEF Shape, RemoteOK
<1>4. content \in Revisions
  <2>1. commits[Tip] \in Commit
    BY <1>3 DEF Shape, RemoteOK
  <2>2. commits[Tip].content \in [Kinds -> Nat]
    BY <2>1 DEF Commit, Revisions
  <2>3. QED
    BY <1>1, <1>3, <2>2 DEF Revisions
<1>5. commits' \in Seq(Commit) /\ Len(commits') = c
  <2>1. [parent |-> Tip, content |-> content, reviewed |-> NoDrafts] \in Commit
    BY <1>3, <1>4, Records DEF Commit
  <2>2. QED
    BY <1>1, <2>1 DEF Shape, RemoteOK
<1>6. baseOf' \in Seq(Nat) /\ Len(baseOf) <= Len(baseOf') /\ Len(baseOf') \in Nat
  <2>1. baseOf \in Seq(Nat)
    BY DEF Shape, RemoteOK
  <2>2. CASE baseOf' = baseOf
    BY <1>3, <2>1, <2>2
  <2>3. CASE baseOf' = Append(baseOf, 0)
    BY <1>3, <2>1, <2>3
  <2>4. QED
    BY <1>1, <2>2, <2>3
<1>7. drafts' \in [Kinds -> 0..Len(baseOf')]
  <2>1. 0..Len(baseOf) \subseteq 0..Len(baseOf')
    BY <1>3, <1>6
  <2>2. QED
    BY <1>2, <2>1 DEF Shape, RemoteOK
<1>8. main' \in Seq(1..c) /\ main' # <<>> /\ Landed \subseteq Landed'
  <2>1. main \in Seq(1..c)
    <3>1. 1..Len(commits) \subseteq 1..c
      BY <1>3
    <3>2. QED
      BY <3>1 DEF Shape, RemoteOK
  <2>2. c \in 1..c
    BY <1>3
  <2>3. main' \in Seq(1..c) /\ main' # <<>>
    BY <1>2, <2>1, <2>2
  <2>4. /\ DOMAIN main' = 1..Len(main) + 1 /\ DOMAIN main = 1..Len(main) /\ Len(main) \in Nat
        /\ \A n \in DOMAIN main : main'[n] = main[n]
    BY <1>2, <2>1, <2>2
  <2>5. QED
    BY <2>3, <2>4 DEF Landed
<1>9. RemoteOK'
  <2>1. deployed' \in 1..Len(commits')
    BY <1>2, <1>3, <1>5 DEF Shape, RemoteOK
  <2>2. QED
    BY <1>2, <1>5, <1>6, <1>7, <1>8, <2>1 DEF Shape, RemoteOK
<1>10. Len(commits) <= Len(commits')
  BY <1>3, <1>5
<1>11. QED
  BY <1>2, <1>8, <1>9, <1>10, GrowthStep DEF Shape

LEMMA VersionDeployed ==
  ASSUME Shape, Deploy \/ AgeIntent \/ UNCHANGED vars
  PROVE  Shape'
<1>1. UNCHANGED <<drafts, baseOf, journal, receipt, commits, main, intents, req>>
  BY DEF Deploy, AgeIntent, vars, remote
<1>2. deployed' \in 1..Len(commits)
  <2>1. Landed \subseteq 1..Len(commits)
    BY DEF Landed, Shape, RemoteOK
  <2>2. QED
    BY <2>1 DEF Deploy, AgeIntent, vars, remote, Shape, RemoteOK
<1>3. aged' \subseteq Nat
  BY DEF Deploy, AgeIntent, vars, Shape, RemoteOK, EntryOK, Intent
<1>4. RemoteOK' /\ Landed' = Landed
  BY <1>1, <1>2, <1>3 DEF Shape, RemoteOK, Landed
<1>5. QED
  BY <1>1, <1>4 DEF Shape

-----------------------------------------------------------------------------
(* The theorems.                                                           *)

LEMMA ShapeStarts == Init => Shape
<1> SUFFICES ASSUME Init PROVE Shape
  OBVIOUS
<1>1. baseOf \in Seq(Nat) /\ drafts \in [Kinds -> 0..Len(baseOf)]
  BY DEF Init, NoDrafts
<1>2. commits \in Seq(Commit) /\ Len(commits) = 1
  <2>1. [parent |-> 0, content |-> NoDrafts, reviewed |-> NoDrafts] \in Commit
    BY Records DEF Commit
  <2>2. QED
    BY <2>1 DEF Init
<1>3. main \in Seq(1..Len(commits)) /\ main # <<>>
  BY <1>2 DEF Init
<1>4. RemoteOK
  BY <1>1, <1>2, <1>3 DEF Init, RemoteOK
<1>5. req \in [Requests -> Request]
      /\ \A r \in Requests : SlotOK(req[r], Len(commits), Landed)
  BY <1>2, Records, IdleOK DEF Init
<1>6. ReceiptOK(receipt, Landed)
  BY Records DEF Init, ReceiptOK, NoReceipt
<1>7. QED
  BY <1>4, <1>5, <1>6 DEF Shape, Init

LEMMA ShapeKept == Shape /\ [Next]_vars => Shape'
<1> SUFFICES ASSUME Shape, [Next]_vars PROVE Shape'
  OBVIOUS
<1>1. CASE \E k \in Edited : SaveDraft(k) \/ DiscardDraft(k)
  BY <1>1, OwnerEdits
<1>2. ASSUME NEW r \in Requests,
             \/ \E v \in Reviewable : StartRecovery(r, v) \/ RestartPublish(r, v)
             \/ StartPublish(r)
      PROVE  Shape'
  BY <1>2, RecoveryStarts, PublishRestarts, PublishStarts
<1>3. ASSUME NEW r \in Requests, Local(r)
      PROVE  Shape'
  BY <1>3, HeadRefused, IntentJoined, IntentCreated, CommitRecorded, IntentAbandoned,
     RequestMoves, Finishes, FinishAsks DEF Local
<1>4. ASSUME NEW r \in Requests, GitHub(r)
      PROVE  Shape'
  BY <1>4, HeadAnswers, CommitCreated, HeadUpdates DEF GitHub
<1>5. ASSUME NEW r \in Requests, CompareStops(r) \/ FinishStops(r)
      PROVE  Shape'
  BY <1>5, RequestMoves, Finishes
<1>6. CASE Crash
  BY <1>6, ServerStops
<1>7. CASE ExternalPush
  BY <1>7, MainPushed
<1>8. CASE Deploy \/ AgeIntent \/ UNCHANGED vars
  BY <1>8, VersionDeployed
<1>9. QED
  BY <1>1, <1>2, <1>3, <1>4, <1>5, <1>6, <1>7, <1>8 DEF Next

\* However many requests, drafts, intents and commits there are, the records
\* have their form, and what the journal and the receipt say about GitHub is
\* true: whatever answer is lost or late, and wherever a request dies, a
\* commit recorded as published is on main.
THEOREM RecordsTrue == Spec => []RecordsSound
<1>1. Shape => RecordsSound
  BY ShapeImplies DEF RecordsSound
<1>2. QED
  BY <1>1, ShapeStarts, ShapeKept, PTL DEF Spec

-----------------------------------------------------------------------------
(* Receipts.                                                               *)

\* Two commits of main are in order, one way or the other.
LEMMA AncestorsTotal ==
  ASSUME Shape, NEW c \in Landed, NEW d \in Landed
  PROVE  IsAncestor(c, c) /\ (IsAncestor(c, d) \/ IsAncestor(d, c))
<1>1. PICK m \in DOMAIN main, n \in DOMAIN main : main[m] = c /\ main[n] = d
  BY DEF Landed
<1>2. m \in Nat /\ n \in Nat
  BY <1>1 DEF Shape, RemoteOK
<1> QED
  BY <1>1, <1>2 DEF IsAncestor

\* A finish replaces the receipt it found by that of a newer commit.
LEMMA FinishAdvances ==
  ASSUME Shape, NEW r \in Requests, Finish(r) \/ FinishCompared(r) \/ FinishStops(r),
         receipt.kind = "published", receipt'.kind = "published"
  PROVE  IsAncestor(receipt.commit, receipt'.commit)
<1> DEFINE i == req[r].intent
<1>1. receipt.commit \in Landed /\ IsAncestor(receipt.commit, receipt.commit)
  BY AncestorsTotal DEF Shape, ReceiptOK
<1>2. CASE receipt' = receipt
  BY <1>1, <1>2
<1>3. CASE receipt' # receipt
  <2>1. /\ receipt' = Published(i.commit)
        /\ \/ Confirmed(r) /\ ~OtherReceipt(i)
           \/ /\ req[r].pc = "compare" /\ receipt = req[r].prev
              /\ ~IsAncestor(i.commit, req[r].prev.commit)
    <3>1. CASE Finish(r)
      BY <1>3, <3>1 DEF Finish
    <3>2. CASE FinishCompared(r)
      BY <1>3, <3>2 DEF FinishCompared
    <3>3. CASE FinishStops(r)
      BY <1>3, <3>3 DEF FinishStops, Confirmed
    <3> QED
      BY <3>1, <3>2, <3>3
  <2>2. receipt'.commit = i.commit
    BY <2>1 DEF Published
  <2>3. CASE ~OtherReceipt(i)
    BY <1>1, <2>2, <2>3 DEF OtherReceipt
  <2>4. CASE req[r].pc = "compare" /\ ~IsAncestor(i.commit, receipt.commit)
    <3>1. i.commit \in Landed
      BY <2>4, ShapeFacts DEF SlotOK
    <3> QED
      BY <1>1, <2>2, <2>4, <3>1, AncestorsTotal
  <2> QED
    BY <2>1, <2>3, <2>4
<1> QED
  BY <1>2, <1>3

\* A late recovery never puts an older publication's receipt over a newer one
\* (finishCommitted compares before it writes).
THEOREM ReceiptsAdvance == Spec => ReceiptAdvances
<1> DEFINE Step == receipt.kind = "published" /\ receipt'.kind = "published" =>
                     IsAncestor(receipt.commit, receipt'.commit)
<1>1. Shape /\ Next => Step
  <2> SUFFICES ASSUME Shape, Next, receipt.kind = "published", receipt'.kind = "published"
               PROVE  IsAncestor(receipt.commit, receipt'.commit)
    OBVIOUS
  <2>1. CASE \E r \in Requests : Finish(r) \/ FinishCompared(r) \/ FinishStops(r)
    BY <2>1, FinishAdvances
  <2>2. CASE \E r \in Requests : Refuse(r) \/ AbandonIntent(r)
    <3>1. UNCHANGED receipt \/ receipt' \in {Refused("conflict"), Refused("failed")}
      BY <2>2 DEF Refuse, AbandonIntent, WriteReceipt
    <3>2. UNCHANGED receipt
      BY <3>1 DEF Refused
    <3> QED
      BY <3>2, AncestorsTotal DEF Shape, ReceiptOK
  <2>3. CASE UNCHANGED receipt
    BY <2>3, AncestorsTotal DEF Shape, ReceiptOK
  <2>4. \/ UNCHANGED receipt
        \/ \E r \in Requests : Finish(r) \/ FinishCompared(r) \/ FinishStops(r)
        \/ \E r \in Requests : Refuse(r) \/ AbandonIntent(r)
    BY DEF Next, Local, GitHub, SaveDraft, DiscardDraft, StartRecovery, RestartPublish, StartPublish,
           JoinIntent, CreateIntent, RecordCommit, HeadNotUpdated, VerifyStops, RetryHead, FinishRefused,
           FinishCompares, GetHead, CreateCommit, UpdateHead, Verify, CompareStops, Crash, ExternalPush,
           Deploy, AgeIntent
  <2> QED
    BY <2>1, <2>2, <2>3, <2>4
<1> HIDE DEF Step
<1>2. Shape /\ [Next]_vars => [Step]_vars
  BY <1>1
<1>3. Spec => [][Step]_vars
  BY <1>2, ShapeStarts, ShapeKept, PTL DEF Spec
<1> QED
  BY <1>3, PTL DEF ReceiptAdvances, Step

-----------------------------------------------------------------------------
(* The journal: one intent for a review and base, and only so many.        *)

\* What a suspended request remembers of its intent's phase.
PhaseOK(x) ==
  /\ x.pc # "idle" => x.intent.phase # "failed"
  /\ x.pc \in {"getHead", "gotHead", "createCommit", "gotCommit"} => x.intent.phase = "prepared"
  /\ x.pc \in {"updateHead", "headUpdated", "retryHead", "headRetried"} =>
       x.intent.phase # "complete"
  /\ x.pc = "compare" => x.intent.phase = "committed"
  /\ x.pc = "verified" /\ x.seen # 0 /\ x.intent.phase = "complete" =>
       IsAncestor(x.intent.commit, x.seen)

Admitted == IsFiniteSet(journal) /\ OneIntentPerKey /\ JournalBounded
Remembered == \A r \in Requests : PhaseOK(req[r])

LEMMA IdlePhase == PhaseOK(Idle)
BY DEF PhaseOK, Idle, Slot

LEMMA ReplacedCounts ==
  ASSUME NEW S, IsFiniteSet(S), NEW i \in S, NEW j
  PROVE  /\ IsFiniteSet((S \ {i}) \cup {j})
         /\ Cardinality((S \ {i}) \cup {j}) <= Cardinality(S)
         /\ Cardinality(S) \in Nat
<1>1. IsFiniteSet(S \ {i}) /\ Cardinality(S \ {i}) = Cardinality(S) - 1
  BY FS_RemoveElement
<1>2. /\ IsFiniteSet((S \ {i}) \cup {j})
      /\ Cardinality((S \ {i}) \cup {j}) \in {Cardinality(S \ {i}), Cardinality(S \ {i}) + 1}
  BY <1>1, FS_AddElement
<1>3. Cardinality(S) \in Nat
  BY FS_CardinalityType
<1> QED
  BY <1>1, <1>2, <1>3

\* An entry replaced by a later version of itself.
LEMMA EntryReplaced ==
  ASSUME Admitted, NEW i \in journal, NEW j, SameKey(i, j),
         i.phase = "failed" => j.phase = "failed",
         Unfinished(j) => Unfinished(i),
         journal' = Replaced(i, j)
  PROVE  Admitted'
<1> DEFINE U == {x \in journal : Unfinished(x)}
<1>1. IsFiniteSet(journal') /\ Cardinality(journal') <= Cardinality(journal)
      /\ Cardinality(journal) \in Nat /\ Cardinality(journal') \in Nat
  BY ReplacedCounts, FS_CardinalityType DEF Admitted, Replaced
<1>2. OneIntentPerKey'
  <2> SUFFICES ASSUME NEW x \in journal', NEW y \in journal',
                      x.phase # "failed", y.phase # "failed", SameKey(x, y)
               PROVE  x = y
    BY DEF OneIntentPerKey, SameKey
  <2>1. \A a, b \in journal : a.phase # "failed" /\ b.phase # "failed" /\ SameKey(a, b) => a = b
    BY DEF Admitted, OneIntentPerKey
  <2>2. CASE x = j /\ y # j
    <3>1. y \in journal /\ y # i /\ i.phase # "failed" /\ SameKey(i, y)
      BY <2>2 DEF Replaced, SameKey
    <3> QED
      BY <2>1, <3>1
  <2>3. CASE x # j /\ y = j
    <3>1. x \in journal /\ x # i /\ i.phase # "failed" /\ SameKey(i, x)
      BY <2>3 DEF Replaced, SameKey
    <3> QED
      BY <2>1, <3>1
  <2> QED
    BY <2>1, <2>2, <2>3 DEF Replaced
<1>3. Cardinality({x \in journal' : Unfinished(x)}) <= Cardinality(U)
  <2>0. IsFiniteSet(U) /\ Cardinality(U) \in Nat
    BY FS_Subset, FS_CardinalityType DEF Admitted
  <2>1. CASE Unfinished(j)
    <3>1. i \in U
      BY <2>1
    <3>2. {x \in journal' : Unfinished(x)} \subseteq (U \ {i}) \cup {j}
      BY DEF Replaced
    <3>3. IsFiniteSet((U \ {i}) \cup {j}) /\ Cardinality((U \ {i}) \cup {j}) <= Cardinality(U)
          /\ Cardinality((U \ {i}) \cup {j}) \in Nat
      BY <2>0, <3>1, ReplacedCounts, FS_CardinalityType
    <3>4. /\ Cardinality({x \in journal' : Unfinished(x)}) <= Cardinality((U \ {i}) \cup {j})
          /\ Cardinality({x \in journal' : Unfinished(x)}) \in Nat
      BY <3>2, <3>3, FS_Subset, FS_CardinalityType
    <3> HIDE DEF U
    <3> QED
      BY <2>0, <3>3, <3>4
  <2>2. CASE ~Unfinished(j)
    <3>1. {x \in journal' : Unfinished(x)} \subseteq U
      BY <2>2 DEF Replaced
    <3> QED
      BY <2>0, <3>1, FS_Subset
  <2> QED
    BY <2>1, <2>2
<1>4. JournalBounded'
  <2>1. Cardinality(U) \in Nat /\ Cardinality({x \in journal' : Unfinished(x)}) \in Nat
    <3>1. IsFiniteSet(U) /\ IsFiniteSet({x \in journal' : Unfinished(x)})
      BY <1>1, FS_Subset DEF Admitted
    <3> QED
      BY <3>1, FS_CardinalityType
  <2>2. Cardinality(journal) <= MaxJournal /\ Cardinality(U) <= MaxPending
    BY DEF Admitted, JournalBounded
  <2>3. Cardinality({x \in journal' : Unfinished(x)}) <= MaxPending
    BY <1>3, <2>1, <2>2, PublicationConstants
  <2> QED
    BY <1>1, <2>2, <2>3, PublicationConstants DEF JournalBounded, Unfinished
<1> QED
  BY <1>1, <1>2, <1>4 DEF Admitted

\* A new entry for a key the journal does not hold, within the limit.
LEMMA EntryAdded ==
  ASSUME Shape, Admitted, NEW r \in Requests, CreateIntent(r)
  PROVE  Admitted'
<1> DEFINE i == [Keyed(r) EXCEPT !.id = intents + 1]
           U == {x \in journal : Unfinished(x)}
<1>0. /\ SameKeyIntents(Keyed(r)) = {} /\ ~JournalFull
      /\ journal' = Trimmed \cup {i} /\ req[r].intent \in Intent
  BY ShapeFacts DEF CreateIntent
<1>1. SameKey(Keyed(r), i)
  BY <1>0 DEF SameKey, Keyed, Intent
<1>2. Trimmed \subseteq journal
  BY DEF Trimmed
<1> HIDE DEF i
<1>3. OneIntentPerKey'
  <2>1. \A a, b \in journal : a.phase # "failed" /\ b.phase # "failed" /\ SameKey(a, b) => a = b
    BY DEF Admitted, OneIntentPerKey
  <2>2. \A a \in journal : a.phase # "failed" => ~SameKey(a, i) /\ ~SameKey(i, a)
    BY <1>0, <1>1 DEF SameKeyIntents, SameKey
  <2> QED
    BY <1>0, <1>2, <2>1, <2>2 DEF OneIntentPerKey, SameKey
<1>4. /\ IsFiniteSet(journal) /\ IsFiniteSet(U) /\ IsFiniteSet(Trimmed)
      /\ Cardinality(journal) \in Nat /\ Cardinality(U) \in Nat /\ Cardinality(Trimmed) \in Nat
  <2>1. IsFiniteSet(journal) /\ IsFiniteSet(U) /\ IsFiniteSet(Trimmed)
    BY <1>2, FS_Subset DEF Admitted
  <2> QED
    BY <2>1, FS_CardinalityType
<1>5. Cardinality(U) < MaxPending
  BY <1>0, <1>4, PublicationConstants DEF JournalFull
<1>6. Cardinality(Trimmed) < MaxJournal
  <2>1. CASE Cardinality(journal) >= MaxJournal
    BY <1>4, <1>5, <2>1, PublicationConstants DEF Trimmed
  <2>2. CASE ~(Cardinality(journal) >= MaxJournal)
    BY <1>4, <2>2, PublicationConstants DEF Trimmed
  <2> QED
    BY <2>1, <2>2
<1>7. /\ IsFiniteSet(journal') /\ Cardinality(journal') <= MaxJournal
  <2>1. /\ IsFiniteSet(journal')
        /\ Cardinality(journal') \in {Cardinality(Trimmed), Cardinality(Trimmed) + 1}
    BY <1>0, <1>4, FS_AddElement
  <2> QED
    BY <1>4, <1>6, <2>1, PublicationConstants
<1>8. Cardinality({x \in journal' : Unfinished(x)}) <= MaxPending
  <2>1. {x \in journal' : Unfinished(x)} \subseteq U \cup {i}
    BY <1>0, <1>2
  <2>2. /\ IsFiniteSet(U \cup {i})
        /\ Cardinality(U \cup {i}) \in {Cardinality(U), Cardinality(U) + 1}
    BY <1>4, FS_AddElement
  <2> DEFINE V == {x \in journal' : Unfinished(x)}
  <2>3. Cardinality(V) <= Cardinality(U \cup {i}) /\ Cardinality(V) \in Nat
    BY <2>1, <2>2, FS_Subset, FS_CardinalityType
  <2> HIDE DEF U, V
  <2>4. Cardinality(V) <= MaxPending
    BY <1>4, <1>5, <2>2, <2>3, PublicationConstants
  <2> QED
    BY <2>4 DEF V
<1> QED
  BY <1>3, <1>7, <1>8 DEF Admitted, JournalBounded, Unfinished

-----------------------------------------------------------------------------
(* What the requests remember.                                             *)

LEMMA RememberStep ==
  ASSUME Shape, Remembered, NEW r \in Requests, NEW x, req' = [req EXCEPT ![r] = x],
         UNCHANGED main, PhaseOK(x)
  PROVE  Remembered'
BY DEF Remembered, PhaseOK, IsAncestor, Shape

\* The commit of a complete publication is an ancestor of every later head.
LEMMA CompleteIsOnTip ==
  ASSUME Shape, NEW i, EntryOK(i, Len(commits), Landed), i.phase = "complete"
  PROVE  IsAncestor(i.commit, Tip)
<1>1. PICK m \in DOMAIN main : main[m] = i.commit
  BY DEF EntryOK, Landed
<1>2. Len(main) \in DOMAIN main /\ m <= Len(main)
  BY <1>1 DEF Shape, RemoteOK
<1> QED
  BY <1>1, <1>2 DEF IsAncestor, Tip

LEMMA LocalPhases ==
  ASSUME Shape, Remembered, NEW r \in Requests,
         \/ Local(r) \/ GetHead(r) \/ CreateCommit(r) \/ Verify(r) \/ CompareStops(r) \/ FinishStops(r)
         \/ StartPublish(r) \/ \E v : StartRecovery(r, v) \/ RestartPublish(r, v)
  PROVE  Remembered'
<1> DEFINE i == req[r].intent
<1>0. PhaseOK(req[r]) /\ i \in Intent /\ EntryOK(i, Len(commits), Landed)
  BY ShapeFacts DEF Remembered
<1>1. UNCHANGED main
  BY DEF Local, GetHead, CreateCommit, Verify, CompareStops, FinishStops, StartPublish, StartRecovery,
         RestartPublish, Refuse, JoinIntent, CreateIntent, RecordCommit, AbandonIntent, HeadNotUpdated,
         VerifyStops, RetryHead, FinishRefused, Finish, FinishCompares, FinishCompared, remote
<1>2. CASE \/ Refuse(r) \/ AbandonIntent(r) \/ VerifyStops(r) \/ FinishRefused(r) \/ Finish(r)
           \/ FinishCompared(r) \/ CompareStops(r) \/ FinishStops(r)
  <2>1. req' = [req EXCEPT ![r] = Idle]
    BY <1>2 DEF Refuse, AbandonIntent, VerifyStops, FinishRefused, Finish, FinishCompared,
           CompareStops, FinishStops, Done
  <2> QED
    BY <1>1, <2>1, IdlePhase, RememberStep
<1>3. CASE JoinIntent(r) \/ \E v : StartRecovery(r, v)
  <2>1. \/ req' = [req EXCEPT ![r] = Idle]
        \/ \E j \in journal : j.phase # "failed" /\ req' = [req EXCEPT ![r] = Slot("verify", j, 0)]
    BY <1>3 DEF JoinIntent, StartRecovery, SameKeyIntents, Reconcile, Done, Goto, Found, Matching
  <2>2. \A j \in journal : j.phase # "failed" => PhaseOK(Slot("verify", j, 0))
    BY DEF PhaseOK, Slot
  <2> QED
    BY <1>1, <2>1, <2>2, IdlePhase, RememberStep
<1>4. CASE StartPublish(r) \/ \E v : RestartPublish(r, v)
  <2>1. \/ \E v, base : req' = [req EXCEPT ![r] = Slot("getHead", Plan(v, base), 0)]
        \/ UNCHANGED req
    BY <1>4 DEF StartPublish, RestartPublish, Goto
  <2>2. \A v, base : PhaseOK(Slot("getHead", Plan(v, base), 0))
    BY DEF PhaseOK, Slot, Plan
  <2>3. UNCHANGED req => req' = [req EXCEPT ![r] = req[r]]
    BY DEF Shape
  <2> QED
    BY <1>0, <1>1, <2>1, <2>2, <2>3, RememberStep
<1>5. CASE GetHead(r) \/ CreateCommit(r)
  <2>1. PICK pc, v : /\ pc \in {"gotHead", "gotCommit"}
                    /\ req' = [req EXCEPT ![r] = Slot(pc, i, v)]
                    /\ req[r].pc \in {"getHead", "createCommit"}
    BY <1>5 DEF GetHead, CreateCommit, Answer
  <2>2. PhaseOK(Slot(pc, i, v))
    BY <1>0, <2>1 DEF PhaseOK, Slot
  <2> QED
    BY <1>1, <2>1, <2>2, RememberStep
<1>6. CASE CreateIntent(r)
  <2> DEFINE k == [Keyed(r) EXCEPT !.id = intents + 1]
  <2>1. req' = [req EXCEPT ![r] = Slot("createCommit", k, 0)] /\ req[r].pc = "gotHead"
    BY <1>6 DEF CreateIntent, Goto, BaseIsHead, AnyHead
  <2>2. k.phase = "prepared"
    BY <1>0, <2>1 DEF PhaseOK, Keyed, Intent
  <2>3. PhaseOK(Slot("createCommit", k, 0))
    BY <2>2 DEF PhaseOK, Slot
  <2> QED
    BY <1>1, <2>1, <2>3, RememberStep
<1>7. CASE RecordCommit(r)
  <2> DEFINE k == [i EXCEPT !.phase = "ref-pending", !.commit = req[r].seen]
  <2>1. req' = [req EXCEPT ![r] = Slot("updateHead", k, 0)]
    BY <1>7 DEF RecordCommit, Goto
  <2>2. PhaseOK(Slot("updateHead", k, 0))
    BY <1>0 DEF PhaseOK, Slot, Intent
  <2> QED
    BY <1>1, <2>1, <2>2, RememberStep
<1>8. CASE HeadNotUpdated(r)
  <2>1. \/ req' = [req EXCEPT ![r] = Idle]
        \/ req' = [req EXCEPT ![r] = Slot("verify", i, 0)] /\ req[r].pc = "headUpdated"
    BY <1>8 DEF HeadNotUpdated, Goto, Done
  <2>2. req[r].pc = "headUpdated" => PhaseOK(Slot("verify", i, 0))
    BY <1>0 DEF PhaseOK, Slot
  <2> QED
    BY <1>1, <2>1, <2>2, IdlePhase, RememberStep
<1>9. CASE Verify(r)
  <2>1. PICK v \in {Tip, 0} : req' = [req EXCEPT ![r] = Slot("verified", i, v)] /\ req[r].pc = "verify"
    BY <1>9 DEF Verify, Answer
  <2>2. PhaseOK(Slot("verified", i, v))
    BY <1>0, <2>1, CompleteIsOnTip DEF PhaseOK, Slot
  <2> QED
    BY <1>1, <2>1, <2>2, RememberStep
<1>10. CASE RetryHead(r)
  <2>1. /\ req' = [req EXCEPT ![r] = Slot("retryHead", i, 0)]
        /\ req[r].pc = "verified" /\ req[r].seen # 0 /\ ~IsAncestor(i.commit, req[r].seen)
    BY <1>10 DEF RetryHead, Goto, OnMain
  <2>2. PhaseOK(Slot("retryHead", i, 0))
    BY <1>0, <2>1 DEF PhaseOK, Slot
  <2> QED
    BY <1>1, <2>1, <2>2, RememberStep
<1>11. CASE FinishCompares(r)
  <2> DEFINE x == [Slot("compare", Marked(i, "committed"), 0) EXCEPT !.prev = receipt]
  <2>1. req' = [req EXCEPT ![r] = x]
    BY <1>11 DEF FinishCompares
  <2>2. x.pc = "compare" /\ x.intent.phase = "committed"
    BY <1>0 DEF Slot, Marked, Intent
  <2>3. PhaseOK(x)
    BY <2>2 DEF PhaseOK
  <2> QED
    BY <1>1, <2>1, <2>3, RememberStep
<1> QED
  BY <1>2, <1>3, <1>4, <1>5, <1>6, <1>7, <1>8, <1>9, <1>10, <1>11 DEF Local

\* Ancestors stay ancestors when main grows.
LEMMA AncestorsStay ==
  ASSUME Shape, NEW c, main' = main \/ main' = Append(main, c), NEW a, NEW b, IsAncestor(a, b)
  PROVE  IsAncestor(a, b)'
<1>1. main \in Seq(1..Len(commits))
  BY DEF Shape, RemoteOK
<1>2. \A n \in DOMAIN main : n \in DOMAIN main' /\ main'[n] = main[n]
  BY <1>1
<1> QED
  BY <1>2 DEF IsAncestor

LEMMA GrowthPhases ==
  ASSUME Shape, Remembered, ExternalPush \/ \E r \in Requests : UpdateHead(r)
  PROVE  Remembered'
<1>1. \A x : PhaseOK(x) => PhaseOK(x)'
  <2>1. PICK c : main' = main \/ main' = Append(main, c)
    BY DEF ExternalPush, UpdateHead
  <2>2. \A a, b : IsAncestor(a, b) => IsAncestor(a, b)'
    BY <2>1, AncestorsStay
  <2> QED
    BY <2>2 DEF PhaseOK
<1>2. CASE ExternalPush
  BY <1>1, <1>2 DEF ExternalPush, Remembered
<1>3. ASSUME NEW r \in Requests, UpdateHead(r)
      PROVE  Remembered'
  <2>1. PICK pc, v : /\ pc \in {"headUpdated", "headRetried"}
                    /\ req' = [req EXCEPT ![r] = Slot(pc, req[r].intent, v)]
                    /\ req[r].pc \in {"updateHead", "retryHead"}
    BY <1>3 DEF UpdateHead, Answer
  <2>2. PhaseOK(Slot(pc, req[r].intent, v))
    BY <2>1 DEF Remembered, PhaseOK, Slot
  <2> QED
    BY <1>1, <2>1, <2>2 DEF Remembered, Shape
<1> QED
  BY <1>2, <1>3

-----------------------------------------------------------------------------
(* The journal.                                                            *)

LEMMA MarkedKey ==
  ASSUME NEW i \in Intent, NEW p
  PROVE  SameKey(i, Marked(i, p)) /\ Marked(i, p).phase = p
BY DEF SameKey, Marked, Intent

\* A finish begins on an intent that is neither failed nor complete.
LEMMA ConfirmedOpen ==
  ASSUME Shape, Remembered, NEW r \in Requests, Confirmed(r) \/ req[r].pc = "compare"
  PROVE  req[r].intent.phase \notin {"complete", "failed"} /\ req[r].intent \in Intent
<1>1. PhaseOK(req[r])
  BY DEF Remembered
<1> QED
  BY <1>1, ShapeFacts DEF PhaseOK, Confirmed

LEMMA SameJournal ==
  ASSUME Admitted, UNCHANGED journal
  PROVE  Admitted'
BY DEF Admitted, OneIntentPerKey, JournalBounded, SameKey, Unfinished

LEMMA JournalKept ==
  ASSUME Shape, Admitted, Remembered, NEW r \in Requests,
         Local(r) \/ FinishStops(r) \/ \E v : RestartPublish(r, v)
  PROVE  Admitted'
<1> DEFINE i == req[r].intent
<1>0. PhaseOK(req[r]) /\ i \in Intent
  BY ShapeFacts DEF Remembered
<1>1. CASE JoinIntent(r) \/ Refuse(r) \/ HeadNotUpdated(r) \/ VerifyStops(r) \/ RetryHead(r) \/ FinishRefused(r)
  BY <1>1, SameJournal DEF JoinIntent, Refuse, HeadNotUpdated, VerifyStops, RetryHead, FinishRefused
<1>2. CASE CreateIntent(r)
  BY <1>2, EntryAdded
<1>3. CASE RecordCommit(r)
  <2> DEFINE k == [i EXCEPT !.phase = "ref-pending", !.commit = req[r].seen]
  <2>1. i \in journal /\ journal' = Replaced(i, k) /\ i.phase = "prepared"
    BY <1>0, <1>3 DEF RecordCommit, CanUpdate, PhaseOK
  <2>2. SameKey(i, k)
    BY <1>0 DEF SameKey, Intent
  <2>3. Unfinished(i) /\ i.phase # "failed"
    BY <2>1 DEF Unfinished
  <2> HIDE DEF k
  <2> QED
    BY <2>1, <2>2, <2>3, EntryReplaced
<1>4. CASE AbandonIntent(r)
  <2>1. CASE UNCHANGED journal
    BY <2>1, SameJournal
  <2>2. CASE i \in journal /\ journal' = Replaced(i, Marked(i, "failed"))
    BY <1>0, <2>2, MarkedKey, EntryReplaced DEF Unfinished
  <2> QED
    BY <1>4, <2>1, <2>2 DEF AbandonIntent, CanUpdate
<1>5. CASE Finish(r) \/ FinishCompares(r) \/ FinishCompared(r) \/ FinishStops(r)
  <2>1. i.phase \notin {"complete", "failed"}
    BY <1>5, ConfirmedOpen DEF Finish, FinishCompares, FinishCompared, FinishStops
  <2>2. \/ UNCHANGED journal
        \/ \E p \in {"committed", "complete"} : i \in journal /\ journal' = Replaced(i, Marked(i, p))
    BY <1>5 DEF Finish, FinishCompares, FinishCompared, FinishStops, CanUpdate
  <2>3. ASSUME NEW p \in {"committed", "complete"}, i \in journal,
               journal' = Replaced(i, Marked(i, p))
        PROVE  Admitted'
    BY <1>0, <2>1, <2>3, MarkedKey, EntryReplaced DEF Unfinished
  <2> QED
    BY <2>2, <2>3, SameJournal
<1>6. ASSUME NEW v, RestartPublish(r, v)
      PROVE  Admitted'
  <2>1. PICK prior \in journal : journal' = Replaced(prior, Marked(prior, "failed"))
    BY <1>6 DEF RestartPublish
  <2>2. prior \in Intent
    BY DEF Shape, EntryOK
  <2> QED
    BY <2>1, <2>2, MarkedKey, EntryReplaced DEF Unfinished
<1> QED
  BY <1>1, <1>2, <1>3, <1>4, <1>5, <1>6 DEF Local

LEMMA JournalStep == Shape /\ Admitted /\ Remembered /\ [Next]_vars => Admitted' /\ Remembered'
<1> SUFFICES ASSUME Shape, Admitted, Remembered, [Next]_vars
             PROVE  Admitted' /\ Remembered'
  OBVIOUS
<1>1. ASSUME NEW r \in Requests, Local(r) \/ FinishStops(r) \/ \E v \in Reviewable : RestartPublish(r, v)
      PROVE  Admitted' /\ Remembered'
  BY <1>1, JournalKept, LocalPhases
<1>2. ASSUME NEW r \in Requests,
             \/ GetHead(r) \/ CreateCommit(r) \/ Verify(r) \/ CompareStops(r) \/ StartPublish(r)
             \/ \E v \in Reviewable : StartRecovery(r, v)
      PROVE  Admitted' /\ Remembered'
  <2>1. UNCHANGED journal
    BY <1>2 DEF GetHead, CreateCommit, Verify, CompareStops, StartPublish, StartRecovery
  <2> QED
    BY <1>2, <2>1, SameJournal, LocalPhases
<1>3. CASE ExternalPush \/ \E r \in Requests : UpdateHead(r)
  <2>1. UNCHANGED journal
    BY <1>3 DEF ExternalPush, UpdateHead
  <2> QED
    BY <1>3, <2>1, SameJournal, GrowthPhases
<1>4. CASE Crash
  <2>1. UNCHANGED <<journal, main>> /\ req' = [r \in Requests |-> Idle]
    BY <1>4 DEF Crash, remote
  <2>2. Remembered'
    BY <2>1, IdlePhase DEF Remembered, PhaseOK, IsAncestor
  <2> QED
    BY <2>1, <2>2, SameJournal
<1>5. CASE Deploy \/ AgeIntent \/ UNCHANGED vars \/ \E k \in Edited : SaveDraft(k) \/ DiscardDraft(k)
  <2>1. UNCHANGED <<journal, main, req>>
    BY <1>5 DEF Deploy, AgeIntent, vars, SaveDraft, DiscardDraft, remote
  <2>2. Remembered'
    BY <2>1 DEF Remembered, PhaseOK, IsAncestor
  <2> QED
    BY <2>1, <2>2, SameJournal
<1> QED
  BY <1>1, <1>2, <1>3, <1>4, <1>5 DEF Next, GitHub

LEMMA JournalStarts == Init => Shape /\ Admitted /\ Remembered
<1> SUFFICES ASSUME Init PROVE Shape /\ Admitted /\ Remembered
  OBVIOUS
<1>1. Remembered
  BY IdlePhase DEF Init, Remembered
<1>2. journal = {} /\ {i \in journal : Unfinished(i)} = {}
  BY DEF Init
<1>3. Admitted
  BY <1>2, FS_EmptySet, PublicationConstants DEF Admitted, OneIntentPerKey, JournalBounded
<1> QED
  BY <1>1, <1>3, ShapeStarts

------------------------------------------------------------------------------
(* What lands on main, and what becomes of the drafts.                     *)
(*                                                                         *)
(* Once.  Every publication of a review is a commit whose parent is the    *)
(* version the reviewed drafts were saved on (Based, Rooted), main is a    *)
(* chain of parents without repetition (Chain), so two commits of one      *)
(* review would follow the same commit of main.                            *)
(*                                                                         *)
(* Exactly.  A commit is what its intent asked for (Carried), and what an  *)
(* intent asks for changes only reviewed files.  The file that has no      *)
(* draft is read from the running version, which may be newer than the     *)
(* base of the drafts; then main has moved past that base for good, and    *)
(* the comparison with the head refuses the request (SlotSound).  So the   *)
(* invariant lets a request be wrong until it has made that comparison.    *)
(*                                                                         *)
(* Recoverably.  A commit is in the journal before the branch is touched,  *)
(* and leaves it as an unfinished one when its drafts are gone (Retained). *)

\* Reviewed drafts v were all saved on version base.
SavedOn(v, base, b) ==
  \A k \in Kinds : v[k] # 0 => v[k] \in 1..Len(b) /\ b[v[k]] = base

\* Every intent, in the journal or in a request, is for the version its
\* reviewed drafts were saved on.
Based ==
  /\ \A i \in journal : SavedOn(i.reviewed, i.base, baseOf)
  /\ \A r \in Requests : SavedOn(req[r].intent.reviewed, req[r].intent.base, baseOf)

Rooted ==
  \A c \in 1..Len(commits) : SavedOn(commits[c].reviewed, commits[c].parent, baseOf)

\* main is the initial commit followed by children, and repeats none.
Chain ==
  /\ main[1] = 1 /\ commits[1].parent = 0 /\ commits[1].reviewed = NoDrafts
  /\ \A m \in DOMAIN main : m > 1 => commits[main[m]].parent = main[m - 1]
  /\ \A m, n \in DOMAIN main : main[m] = main[n] => m = n

Lineage == Based /\ Rooted /\ Chain

-----------------------------------------------------------------------------
LEMMA LineageImplies == Shape /\ Lineage => PublishedOnce
<1> SUFFICES ASSUME Shape, Lineage,
                    NEW m \in DOMAIN main, NEW n \in DOMAIN main,
                    commits[main[m]].reviewed = commits[main[n]].reviewed,
                    commits[main[m]].reviewed # NoDrafts
             PROVE  m = n
  BY DEF PublishedOnce
<1>1. /\ main[m] \in 1..Len(commits) /\ main[n] \in 1..Len(commits)
      /\ m \in Nat \ {0} /\ n \in Nat \ {0}
  BY DEF Shape, RemoteOK
<1>2. m > 1 /\ n > 1 /\ m - 1 \in DOMAIN main /\ n - 1 \in DOMAIN main
  <2>1. m # 1 /\ n # 1
    BY DEF Lineage, Chain
  <2>2. QED
    BY <1>1, <2>1 DEF Shape, RemoteOK
<1>3. PICK k \in Kinds : commits[main[m]].reviewed[k] # 0
  <2>1. commits[main[m]] \in Commit
    BY <1>1 DEF Shape, RemoteOK
  <2>2. commits[main[m]].reviewed \in [Kinds -> Nat]
    BY <2>1 DEF Commit, Revisions
  <2>3. QED
    BY <2>2 DEF NoDrafts
<1>4. commits[main[m]].parent = commits[main[n]].parent
  BY <1>1, <1>3 DEF Lineage, Rooted, SavedOn
<1>5. main[m - 1] = main[n - 1]
  BY <1>2, <1>4 DEF Lineage, Chain
<1>6. m - 1 = n - 1
  BY <1>2, <1>5 DEF Lineage, Chain
<1>7. QED
  BY <1>1, <1>6

LEMMA NothingReviewed ==
  ASSUME NEW base, NEW b
  PROVE  SavedOn(NoDrafts, base, b)
BY DEF SavedOn, NoDrafts

\* The base of a reviewed draft does not change when others are saved.
LEMMA SavedOnGrows ==
  ASSUME NEW b \in Seq(Nat), NEW x \in Nat, NEW v \in Revisions, NEW base,
         SavedOn(v, base, b)
  PROVE  SavedOn(v, base, Append(b, x))
<1>1. /\ Len(b) \in Nat /\ Len(Append(b, x)) = Len(b) + 1
      /\ \A n \in 1..Len(b) : Append(b, x)[n] = b[n]
  OBVIOUS
<1>2. QED
  BY <1>1 DEF SavedOn

-----------------------------------------------------------------------------
(* Steps that leave editor, commits and branch alone: they only have to    *)
(* keep what the intents of the journal and of the requests are for.       *)

SameReview(i, j) == i.reviewed = j.reviewed /\ i.base = j.base

LEMMA LocalLineage ==
  ASSUME Lineage, NEW r \in Requests, NEW x,
         UNCHANGED <<baseOf, commits, main>>,
         req \in [Requests -> Request], req' = [req EXCEPT ![r] = x],
         SavedOn(x.intent.reviewed, x.intent.base, baseOf),
         \A i \in journal' : \/ i \in journal
                             \/ SavedOn(i.reviewed, i.base, baseOf)
  PROVE  Lineage'
<1>1. Rooted' /\ Chain'
  BY DEF Lineage, Rooted, Chain
<1>2. Based'
  BY DEF Lineage, Based
<1>3. QED
  BY <1>1, <1>2 DEF Lineage

\* The request gets an intent that is for the same review as one it or the
\* journal holds, or none; and so do the new entries of the journal.
LEMMA ReviewKept ==
  ASSUME Shape, Lineage, NEW r \in Requests, NEW x,
         UNCHANGED <<baseOf, commits, main>>, req' = [req EXCEPT ![r] = x],
         \/ x = Idle
         \/ SameReview(x.intent, req[r].intent)
         \/ \E j \in journal : SameReview(x.intent, j),
         \A i \in journal' : i \in journal \/ SameReview(i, req[r].intent)
  PROVE  Lineage'
<1>1. SavedOn(x.intent.reviewed, x.intent.base, baseOf)
  <2>1. CASE x = Idle
    BY <2>1, NothingReviewed DEF Idle, Slot, NoIntent
  <2>2. CASE x # Idle
    BY <2>2 DEF Lineage, Based, SameReview
  <2>3. QED
    BY <2>1, <2>2
<1>2. \A i \in journal' : i \in journal \/ SavedOn(i.reviewed, i.base, baseOf)
  BY DEF Lineage, Based, SameReview
<1>3. QED
  BY <1>1, <1>2, LocalLineage DEF Shape

\* The intent a request plans is for the version its drafts were saved on.
LEMMA PlannedOnBase ==
  ASSUME Shape, Lineage, NEW r \in Requests, NEW v,
         StartPublish(r) \/ RestartPublish(r, v)
  PROVE  Lineage'
<1>1. UNCHANGED <<baseOf, commits, main>>
  BY DEF StartPublish, RestartPublish, remote
<1>2. CASE StartPublish(r)
  <2>1. PICK base \in Bases(drafts) : /\ Bases(drafts) = {base}
                                      /\ Goto(r, "getHead", Plan(drafts, base))
    BY <1>2 DEF StartPublish
  <2>2. SavedOn(drafts, base, baseOf)
    <3>1. \A k \in Kinds : drafts[k] # 0 => drafts[k] \in 1..Len(baseOf)
      BY DEF Shape, RemoteOK
    <3>2. \A k \in Kinds : drafts[k] # 0 => baseOf[drafts[k]] \in Bases(drafts)
      BY DEF Bases
    <3>3. QED
      BY <2>1, <3>1, <3>2 DEF SavedOn
  <2>3. journal' = journal
    BY <1>2 DEF StartPublish
  <2>4. QED
    BY <1>1, <2>1, <2>2, <2>3, LocalLineage DEF Goto, Slot, Plan, Shape
<1>3. CASE RestartPublish(r, v)
  <2>1. PICK prior \in journal :
          /\ Found(prior, v)
          /\ journal' = Replaced(prior, Marked(prior, "failed"))
          /\ IF v = drafts THEN Goto(r, "getHead", Plan(v, prior.base)) ELSE UNCHANGED req
    BY <1>3 DEF RestartPublish
  <2>2. prior.reviewed = v /\ SavedOn(v, prior.base, baseOf) /\ prior \in Intent
    BY <2>1 DEF Found, Matching, Lineage, Based, Shape, EntryOK
  <2>3. SameReview(Marked(prior, "failed"), prior)
    BY <2>2 DEF SameReview, Marked, Intent
  <2>4. \A i \in journal' : i \in journal \/ SavedOn(i.reviewed, i.base, baseOf)
    BY <2>1, <2>2, <2>3 DEF Replaced, SameReview
  <2>5. CASE v = drafts
    BY <1>1, <2>1, <2>2, <2>4, <2>5, LocalLineage DEF Goto, Slot, Plan, Shape
  <2>6. CASE v # drafts
    <3>1. req' = [req EXCEPT ![r] = req[r]]
      BY <2>1, <2>6 DEF Shape
    <3>2. QED
      BY <1>1, <2>4, <3>1, LocalLineage DEF Lineage, Based, Shape
  <2>7. QED
    BY <2>5, <2>6
<1>4. QED
  BY <1>2, <1>3

\* The request goes on with an intent for a review that it or the journal
\* has, or ends; and new entries of the journal are for such a review.
Reviews(r, x) ==
  /\ UNCHANGED <<baseOf, commits, main>> /\ req' = [req EXCEPT ![r] = x]
  /\ \/ x = Idle
     \/ req[r].pc # "idle" /\ SameReview(x.intent, req[r].intent)
     \/ \E j \in journal : SameReview(x.intent, j)
  /\ \A i \in journal' : i \in journal \/ (req[r].pc # "idle" /\ SameReview(i, req[r].intent))
ReviewStep(r) == \E x : Reviews(r, x)

\* Every local step but the start of a publication carries reviews along.
LEMMA LocalReviews ==
  ASSUME Shape, NEW r \in Requests,
         \/ Local(r) \/ GetHead(r) \/ Verify(r) \/ CompareStops(r) \/ FinishStops(r)
         \/ \E v : StartRecovery(r, v)
  PROVE  ReviewStep(r)
<1> DEFINE i == req[r].intent
<1>1. i \in Intent /\ \A p : SameReview(Marked(i, p), i)
  BY ShapeFacts DEF SameReview, Marked, Intent
<1>2. UNCHANGED <<baseOf, commits, main>>
  BY DEF Local, GetHead, Verify, CompareStops, FinishStops, StartRecovery, Refuse,
         JoinIntent, CreateIntent, RecordCommit, AbandonIntent, HeadNotUpdated,
         VerifyStops, RetryHead, FinishRefused, Finish, FinishCompares, FinishCompared,
         remote
<1>3. CASE GetHead(r) \/ Verify(r)
  <2>1. PICK pc, v : req' = [req EXCEPT ![r] = Slot(pc, i, v)]
    BY <1>3 DEF GetHead, Verify, Answer
  <2>2. SameReview(Slot(pc, i, v).intent, i) /\ journal' = journal /\ req[r].pc # "idle"
    BY <1>3 DEF Slot, SameReview, GetHead, Verify
  <2>3. Reviews(r, Slot(pc, i, v))
    BY <1>2, <2>1, <2>2 DEF Reviews
  <2> QED
    BY <2>3 DEF ReviewStep
<1>4. CASE Refuse(r) \/ VerifyStops(r) \/ FinishRefused(r) \/ CompareStops(r)
  <2>1. Reviews(r, Idle)
    BY <1>2, <1>4 DEF Reviews, Refuse, VerifyStops, FinishRefused, CompareStops, Done
  <2> QED
    BY <2>1 DEF ReviewStep
<1>5. CASE AbandonIntent(r) \/ Finish(r) \/ FinishCompared(r) \/ FinishStops(r)
  <2>1. \A j \in journal' : j \in journal \/ SameReview(j, i)
    BY <1>1, <1>5 DEF AbandonIntent, Finish, FinishCompared, FinishStops, Replaced
  <2>2. Done(r) /\ req[r].pc # "idle"
    BY <1>5 DEF AbandonIntent, Finish, FinishCompared, FinishStops, Confirmed
  <2>3. Reviews(r, Idle)
    BY <1>2, <2>1, <2>2 DEF Reviews, Done
  <2> QED
    BY <2>3 DEF ReviewStep
<1>6. CASE JoinIntent(r) \/ \E v : StartRecovery(r, v)
  <2>1. journal' = journal
    BY <1>6 DEF JoinIntent, StartRecovery
  <2>2. Done(r) \/ \E j \in journal : Goto(r, "verify", j)
    BY <1>6 DEF JoinIntent, StartRecovery, SameKeyIntents, Reconcile
  <2>3. CASE Done(r)
    <3>1. Reviews(r, Idle)
      BY <1>2, <2>1, <2>3 DEF Reviews, Done
    <3> QED
      BY <3>1 DEF ReviewStep
  <2>4. ASSUME NEW j \in journal, Goto(r, "verify", j) PROVE ReviewStep(r)
    <3>1. req' = [req EXCEPT ![r] = Slot("verify", j, 0)] /\ SameReview(Slot("verify", j, 0).intent, j)
      BY <2>4 DEF Goto, Slot, SameReview
    <3>2. Reviews(r, Slot("verify", j, 0))
      BY <1>2, <2>1, <3>1 DEF Reviews
    <3> QED
      BY <3>2 DEF ReviewStep
  <2>5. QED
    BY <2>2, <2>3, <2>4
<1>7. CASE CreateIntent(r)
  <2> DEFINE k == [Keyed(r) EXCEPT !.id = intents + 1]
  <2>1. /\ journal' = Trimmed \cup {k}
        /\ req' = [req EXCEPT ![r] = Slot("createCommit", k, 0)]
        /\ req[r].seen = i.base /\ req[r].pc # "idle"
    BY <1>7 DEF CreateIntent, Goto, BaseIsHead, AnyHead
  <2>2. SameReview(k, i) /\ SameReview(Slot("createCommit", k, 0).intent, i)
    BY <1>1, <2>1 DEF SameReview, Keyed, Intent, Slot
  <2>3. \A j \in journal' : j \in journal \/ SameReview(j, i)
    BY <2>1, <2>2 DEF Trimmed
  <2> HIDE DEF k
  <2>4. Reviews(r, Slot("createCommit", k, 0))
    BY <1>2, <2>1, <2>2, <2>3 DEF Reviews
  <2> QED
    BY <2>4 DEF ReviewStep
<1>8. CASE RecordCommit(r)
  <2> DEFINE k == [i EXCEPT !.phase = "ref-pending", !.commit = req[r].seen]
  <2>1. /\ journal' = Replaced(i, k) /\ req' = [req EXCEPT ![r] = Slot("updateHead", k, 0)]
        /\ req[r].pc # "idle"
    BY <1>8 DEF RecordCommit, Goto
  <2>2. SameReview(k, i) /\ SameReview(Slot("updateHead", k, 0).intent, i)
    BY <1>1 DEF SameReview, Intent, Slot
  <2>3. \A j \in journal' : j \in journal \/ SameReview(j, i)
    BY <2>1, <2>2 DEF Replaced
  <2> HIDE DEF k
  <2>4. Reviews(r, Slot("updateHead", k, 0))
    BY <1>2, <2>1, <2>2, <2>3 DEF Reviews
  <2> QED
    BY <2>4 DEF ReviewStep
<1>9. CASE HeadNotUpdated(r) \/ RetryHead(r)
  <2>1. journal' = journal /\ req[r].pc # "idle"
    BY <1>9 DEF HeadNotUpdated, RetryHead
  <2>2. Done(r) \/ \E pc : Goto(r, pc, i)
    BY <1>9 DEF HeadNotUpdated, RetryHead
  <2>3. CASE Done(r)
    <3>1. Reviews(r, Idle)
      BY <1>2, <2>1, <2>3 DEF Reviews, Done
    <3> QED
      BY <3>1 DEF ReviewStep
  <2>4. ASSUME NEW pc, Goto(r, pc, i) PROVE ReviewStep(r)
    <3>1. req' = [req EXCEPT ![r] = Slot(pc, i, 0)] /\ SameReview(Slot(pc, i, 0).intent, i)
      BY <2>4 DEF Goto, Slot, SameReview
    <3>2. Reviews(r, Slot(pc, i, 0))
      BY <1>2, <2>1, <3>1 DEF Reviews
    <3> QED
      BY <3>2 DEF ReviewStep
  <2>5. QED
    BY <2>2, <2>3, <2>4
<1>10. CASE FinishCompares(r)
  <2> DEFINE k == Marked(i, "committed")
             x == [Slot("compare", k, 0) EXCEPT !.prev = receipt]
  <2>1. journal' = Replaced(i, k) /\ req' = [req EXCEPT ![r] = x] /\ req[r].pc # "idle"
    BY <1>10 DEF FinishCompares, Confirmed
  <2>2. x.intent = k
    BY DEF Slot
  <2>3. SameReview(x.intent, i) /\ \A j \in journal' : j \in journal \/ SameReview(j, i)
    BY <1>1, <2>1, <2>2 DEF Replaced
  <2> HIDE DEF x
  <2>4. Reviews(r, x)
    BY <1>2, <2>1, <2>3 DEF Reviews
  <2> QED
    BY <2>4 DEF ReviewStep
<1>11. QED
  BY <1>3, <1>4, <1>5, <1>6, <1>7, <1>8, <1>9, <1>10 DEF Local

LEMMA LocalKept ==
  ASSUME Shape, Lineage, NEW r \in Requests,
         \/ Local(r) \/ GetHead(r) \/ Verify(r) \/ CompareStops(r) \/ FinishStops(r)
         \/ \E v : StartRecovery(r, v)
  PROVE  Lineage'
<1>1. PICK x : Reviews(r, x)
  BY LocalReviews DEF ReviewStep
<1> QED
  BY <1>1, ReviewKept DEF Reviews

-----------------------------------------------------------------------------
(* Steps that add a commit, move the branch, or save a draft.              *)

LEMMA CommitLineage ==
  ASSUME Shape, Lineage, NEW r \in Requests, CreateCommit(r)
  PROVE  Lineage'
<1> DEFINE i == req[r].intent
           c == [parent |-> i.base, content |-> i.content, reviewed |-> i.reviewed]
<1>1. UNCHANGED <<journal, baseOf, main>>
  BY DEF CreateCommit
<1>2. PICK v : req' = [req EXCEPT ![r] = Slot("gotCommit", i, v)]
  BY DEF CreateCommit, Answer
<1>3. Based'
  BY <1>1, <1>2 DEF Lineage, Based, Slot, Shape
<1>4. CASE commits' = commits
  BY <1>1, <1>3, <1>4 DEF Lineage, Rooted, Chain
<1>5. CASE commits' = Append(commits, c)
  <2>1. c \in Commit
    BY ShapeFacts DEF Commit, Intent
  <2>2. /\ Len(commits) \in Nat /\ Len(commits') = Len(commits) + 1
        /\ \A n \in 1..Len(commits) : commits'[n] = commits[n]
        /\ commits'[Len(commits) + 1] = c
    BY <1>5, <2>1 DEF Shape, RemoteOK
  <2>3. SavedOn(c.reviewed, c.parent, baseOf)
    BY DEF Lineage, Based
  <2>4. Rooted'
    BY <1>1, <2>2, <2>3 DEF Lineage, Rooted
  <2>5. Chain'
    <3>1. \A m \in DOMAIN main : main[m] \in 1..Len(commits)
      BY DEF Shape, RemoteOK
    <3>2. 1 \in 1..Len(commits)
      <4>1. 1 \in DOMAIN main
        BY DEF Shape, RemoteOK
      <4>2. QED
        BY <3>1, <4>1 DEF Lineage, Chain
    <3>3. QED
      BY <1>1, <2>2, <3>1, <3>2 DEF Lineage, Chain
  <2>6. QED
    BY <1>3, <2>4, <2>5 DEF Lineage
<1>6. QED
  BY <1>4, <1>5 DEF CreateCommit

\* A child of the tip is not on main yet.
LEMMA ChildIsNew ==
  ASSUME Shape, Chain, NEW c \in 1..Len(commits), commits[c].parent = Tip
  PROVE  c \notin Landed
<1> SUFFICES ASSUME NEW m \in DOMAIN main, main[m] = c PROVE FALSE
  BY DEF Landed
<1>1. Len(main) \in DOMAIN main /\ m \in 1..Len(main) /\ Len(main) \in Nat
  BY DEF Shape, RemoteOK
<1>2. Tip = main[Len(main)] /\ Tip \in 1..Len(commits)
  BY <1>1 DEF Tip, Shape, RemoteOK
<1>3. m # 1
  BY <1>2 DEF Chain
<1>4. m - 1 \in DOMAIN main /\ m > 1
  BY <1>1, <1>3 DEF Shape, RemoteOK
<1>5. main[m - 1] = main[Len(main)]
  BY <1>2, <1>4 DEF Chain
<1>6. m - 1 = Len(main)
  BY <1>1, <1>4, <1>5 DEF Chain
<1>7. QED
  BY <1>1, <1>6

\* main stays a chain when a new child of its tip is appended.
LEMMA ChainGrows ==
  ASSUME Shape, Chain, NEW c \in Nat, c \notin Landed,
         main' = Append(main, c), commits'[c].parent = Tip,
         \A n \in 1..Len(commits) : commits'[n] = commits[n]
  PROVE  Chain'
<1>1. /\ Len(main) \in Nat \ {0} /\ DOMAIN main = 1..Len(main)
      /\ DOMAIN main' = 1..Len(main) + 1
      /\ main'[Len(main) + 1] = c
      /\ \A m \in DOMAIN main : main'[m] = main[m] /\ main[m] \in 1..Len(commits)
  <2>1. main \in Seq(Nat)
    <3>1. 1..Len(commits) \subseteq Nat
      BY DEF Shape, RemoteOK
    <3>2. QED
      BY <3>1 DEF Shape, RemoteOK
  <2>2. QED
    BY <2>1 DEF Shape, RemoteOK
<1>2. 1 \in 1..Len(commits) /\ main'[1] = 1
  BY <1>1 DEF Chain
<1>3. \A m \in DOMAIN main' : m > 1 => commits'[main'[m]].parent = main'[m - 1]
  <2> SUFFICES ASSUME NEW m \in 1..Len(main) + 1, m > 1
               PROVE  commits'[main'[m]].parent = main'[m - 1]
    BY <1>1
  <2>1. CASE m = Len(main) + 1
    <3>1. main'[m] = c /\ m - 1 = Len(main)
      BY <1>1, <2>1
    <3>2. Len(main) \in DOMAIN main
      BY <1>1
    <3>3. main'[Len(main)] = Tip
      BY <1>1, <3>2 DEF Tip
    <3>4. QED
      BY <3>1, <3>3
  <2>2. CASE m # Len(main) + 1
    <3>1. m \in DOMAIN main /\ m - 1 \in DOMAIN main
      BY <1>1, <2>2
    <3>2. QED
      BY <1>1, <3>1 DEF Chain
  <2>3. QED
    BY <2>1, <2>2
<1>4. \A m \in DOMAIN main : main[m] # c
  BY DEF Landed
<1>5. \A m, n \in DOMAIN main' : main'[m] = main'[n] => m = n
  BY <1>1, <1>4 DEF Chain
<1>6. QED
  BY <1>2, <1>3, <1>5 DEF Chain

LEMMA HeadLineage ==
  ASSUME Shape, Lineage, NEW r \in Requests, UpdateHead(r)
  PROVE  Lineage'
<1> DEFINE c == req[r].intent.commit
<1>1. UNCHANGED <<journal, baseOf, commits>>
  BY DEF UpdateHead
<1>2. PICK pc, v : req' = [req EXCEPT ![r] = Slot(pc, req[r].intent, v)]
  BY DEF UpdateHead, Answer
<1>3. Based' /\ Rooted'
  BY <1>1, <1>2 DEF Lineage, Based, Rooted, Slot, Shape
<1>4. CASE main' = main
  BY <1>1, <1>3, <1>4 DEF Lineage, Chain
<1>5. CASE FastForward(c) /\ main' = Append(main, c)
  <2>1. c \in 1..Len(commits) /\ c \in Nat
    BY ShapeFacts DEF UpdateHead, SlotOK, Working, EntryOK
  <2>2. c \notin Landed
    BY <1>5, <2>1, ChildIsNew DEF FastForward, Lineage
  <2>3. Chain'
    BY <1>1, <1>5, <2>1, <2>2, ChainGrows DEF FastForward, Lineage
  <2>4. QED
    BY <1>3, <2>3 DEF Lineage
<1>6. QED
  BY <1>4, <1>5 DEF UpdateHead

\* Content that becomes known leaves the base of every saved draft alone.
LEMMA BaseLineage ==
  ASSUME Shape, Lineage, NEW x \in Nat, baseOf' = Append(baseOf, x),
         UNCHANGED <<journal, req>>
  PROVE  /\ Based'
         /\ \A c \in 1..Len(commits) : SavedOn(commits[c].reviewed, commits[c].parent, baseOf')
<1>1. \A i \in journal : i.reviewed \in Revisions
  BY DEF Shape, EntryOK, Intent
<1>2. \A r \in Requests : req[r].intent.reviewed \in Revisions
  BY DEF Shape, SlotOK, EntryOK, Intent
<1>3. \A c \in 1..Len(commits) : commits[c].reviewed \in Revisions
  <2>1. \A c \in 1..Len(commits) : commits[c] \in Commit
    BY DEF Shape, RemoteOK
  <2>2. QED
    BY <2>1 DEF Commit
<1>4. \A v \in Revisions : \A base : SavedOn(v, base, baseOf) => SavedOn(v, base, baseOf')
  BY SavedOnGrows DEF Shape, RemoteOK
<1>5. QED
  BY <1>1, <1>2, <1>3, <1>4 DEF Lineage, Based, Rooted

LEMMA PushLineage ==
  ASSUME Shape, Lineage, ExternalPush
  PROVE  Lineage'
<1> DEFINE c == Len(commits) + 1
<1>1. UNCHANGED <<journal, req>> /\ main' = Append(main, c)
  BY DEF ExternalPush
<1>2. PICK content : commits' = Append(commits, [parent |-> Tip, content |-> content,
                                                 reviewed |-> NoDrafts])
  BY DEF ExternalPush
<1>3. /\ Len(commits) \in Nat /\ Len(commits') = c
      /\ \A n \in 1..Len(commits) : commits'[n] = commits[n]
      /\ commits'[c].parent = Tip /\ commits'[c].reviewed = NoDrafts
  BY <1>2 DEF Shape, RemoteOK
<1>4. /\ Based'
      /\ \A n \in 1..Len(commits) : SavedOn(commits[n].reviewed, commits[n].parent, baseOf')
  <2>1. CASE baseOf' = baseOf
    BY <1>1, <2>1 DEF Lineage, Based, Rooted
  <2>2. CASE baseOf' = Append(baseOf, 0)
    BY <1>1, <2>2, BaseLineage
  <2>3. QED
    BY <2>1, <2>2 DEF ExternalPush
<1>5. Rooted'
  BY <1>3, <1>4, NothingReviewed DEF Rooted
<1>6. c \notin Landed
  BY <1>3 DEF Landed, Shape, RemoteOK
<1>7. Chain'
  BY <1>1, <1>3, <1>6, ChainGrows DEF Lineage
<1>8. QED
  BY <1>4, <1>5, <1>7 DEF Lineage

LEMMA DraftLineage ==
  ASSUME Shape, Lineage, NEW k \in Edited, SaveDraft(k)
  PROVE  Lineage'
<1>1. UNCHANGED <<journal, commits, main, req>> /\ baseOf' = Append(baseOf, deployed)
  BY DEF SaveDraft, remote
<1>2. deployed \in Nat
  BY DEF Shape, RemoteOK
<1>3. Based' /\ Rooted'
  BY <1>1, <1>2, BaseLineage DEF Rooted
<1>4. QED
  BY <1>1, <1>3 DEF Lineage, Chain

-----------------------------------------------------------------------------
LEMMA LineageStarts == Init => Lineage
<1> SUFFICES ASSUME Init PROVE Lineage
  OBVIOUS
<1>1. Based
  BY NothingReviewed DEF Init, Based, Idle, Slot, NoIntent
<1>2. Rooted
  BY NothingReviewed DEF Init, Rooted
<1>3. Chain
  BY DEF Init, Chain
<1>4. QED
  BY <1>1, <1>2, <1>3 DEF Lineage

LEMMA LineageKept == Shape /\ Lineage /\ [Next]_vars => Lineage'
<1> SUFFICES ASSUME Shape, Lineage, [Next]_vars PROVE Lineage'
  OBVIOUS
<1>1. ASSUME NEW k \in Edited, SaveDraft(k) PROVE Lineage'
  BY <1>1, DraftLineage
<1>2. ASSUME NEW r \in Requests,
             StartPublish(r) \/ \E v \in Reviewable : RestartPublish(r, v)
      PROVE  Lineage'
  BY <1>2, PlannedOnBase
<1>3. ASSUME NEW r \in Requests,
             \/ Local(r) \/ GetHead(r) \/ Verify(r) \/ CompareStops(r) \/ FinishStops(r)
             \/ \E v \in Reviewable : StartRecovery(r, v)
      PROVE  Lineage'
  BY <1>3, LocalKept
<1>4. ASSUME NEW r \in Requests, CreateCommit(r) PROVE Lineage'
  BY <1>4, CommitLineage
<1>5. ASSUME NEW r \in Requests, UpdateHead(r) PROVE Lineage'
  BY <1>5, HeadLineage
<1>6. CASE ExternalPush
  BY <1>6, PushLineage
<1>7. CASE Crash
  <2>1. Based'
    BY <1>7, NothingReviewed DEF Crash, Lineage, Based, Idle, Slot, NoIntent
  <2>2. QED
    BY <1>7, <2>1 DEF Crash, remote, Lineage, Rooted, Chain
<1>8. CASE Deploy \/ AgeIntent \/ UNCHANGED vars \/ \E k \in Edited : DiscardDraft(k)
  <2>1. UNCHANGED <<journal, req, baseOf, commits, main>>
    BY <1>8 DEF Deploy, AgeIntent, vars, DiscardDraft, remote
  <2>2. QED
    BY <2>1 DEF Lineage, Based, Rooted, Chain
<1>9. QED
  BY <1>1, <1>2, <1>3, <1>4, <1>5, <1>6, <1>7, <1>8 DEF Next, GitHub

\* However requests overlap, fail, die and are retried, one review of the
\* drafts lands on main at most once: for any number of requests and commits.
THEOREM PublishedAtMostOnce == Spec => []PublishedOnce
<1>1. Init => Shape /\ Lineage
  BY ShapeStarts, LineageStarts
<1>2. Shape /\ Lineage /\ [Next]_vars => (Shape /\ Lineage)'
  BY ShapeKept, LineageKept
<1>3. Shape /\ Lineage => PublishedOnce
  BY LineageImplies
<1>4. QED
  BY <1>1, <1>2, <1>3, PTL DEF Spec

-----------------------------------------------------------------------------
(* What a publication changes.                                             *)

\* The commit is what the intent asked for.
IsOf(c, i) == c.reviewed = i.reviewed /\ c.parent = i.base /\ c.content = i.content

\* Reviewed files get the reviewed drafts, the others keep what the base has.
Exact(reviewed, base, content) ==
  reviewed # NoDrafts =>
    /\ base \in 1..Len(commits)
    /\ \A k \in Kinds : content[k] = IF reviewed[k] # 0 THEN reviewed[k]
                                     ELSE commits[base].content[k]
ExactIntent(i) == ~Rollback => Exact(i.reviewed, i.base, i.content)

EntrySound(i) == (i.commit # 0 => IsOf(commits[i.commit], i)) /\ ExactIntent(i)

\* Main has moved past c for good.
Passed(c) == c \in Landed /\ c # Tip

\* Before it has compared the head with its base, a request may carry content
\* of a later version: then the comparison will fail.
SlotSound(x) ==
  /\ x.intent.commit # 0 => IsOf(commits[x.intent.commit], x.intent)
  /\ x.pc = "gotCommit" /\ x.seen # 0 => IsOf(commits[x.seen], x.intent)
  /\ ~Rollback /\ x.pc = "getHead" => ExactIntent(x.intent) \/ Passed(x.intent.base)
  /\ ~Rollback /\ x.pc = "gotHead" => ExactIntent(x.intent) \/ x.seen # x.intent.base
  /\ x.pc \notin {"idle", "getHead", "gotHead"} => ExactIntent(x.intent)

Carried ==
  /\ \A i \in journal : EntrySound(i)
  /\ \A r \in Requests : SlotSound(req[r])

\* Commits are exact, and without rollbacks a saved draft is based on the
\* running version or one before it.
Placed ==
  /\ ~Rollback => \A c \in 1..Len(commits) :
       Exact(commits[c].reviewed, commits[c].parent, commits[c].content)
  /\ deployed \in Landed
  /\ ~Rollback => \A k \in Kinds : drafts[k] # 0 => IsAncestor(baseOf[drafts[k]], deployed)

-----------------------------------------------------------------------------
LEMMA IdleSound == SlotSound(Idle)
BY DEF SlotSound, Idle, Slot, NoIntent

LEMMA CarryStep ==
  ASSUME Shape, Carried, NEW r \in Requests, NEW x, req' = [req EXCEPT ![r] = x],
         UNCHANGED <<commits, main>>, SlotSound(x),
         \A i \in journal' : i \in journal \/ EntrySound(i)
  PROVE  Carried'
<1>1. \A i : EntrySound(i) => EntrySound(i)'
  BY DEF EntrySound, IsOf, ExactIntent, Exact
<1>2. \A y : SlotSound(y) => SlotSound(y)'
  BY DEF SlotSound, IsOf, ExactIntent, Exact, Passed, Landed, Tip
<1> QED
  BY <1>1, <1>2 DEF Carried, Shape

\* The content of a plan is exact, or main has moved past its base.
LEMMA PlanExact ==
  ASSUME Shape, Lineage, Placed, NEW base, SavedOn(drafts, base, baseOf)
  PROVE  SlotSound(Slot("getHead", Plan(drafts, base), 0))
<1> DEFINE i == Plan(drafts, base)
<1>1. /\ i.reviewed = drafts /\ i.base = base /\ i.commit = 0
      /\ \A k \in Kinds : i.content[k] = IF drafts[k] # 0 THEN drafts[k]
                                         ELSE commits[deployed].content[k]
  BY DEF Plan, BundleContent
<1> HIDE DEF i
<1>2. ASSUME ~Rollback, drafts # NoDrafts
      PROVE  ExactIntent(i) \/ Passed(base)
  <2>1. PICK k \in Kinds : drafts[k] # 0
    <3>1. drafts \in [Kinds -> 0..Len(baseOf)]
      BY DEF Shape, RemoteOK
    <3> QED
      BY <1>2, <3>1 DEF NoDrafts
  <2>2. IsAncestor(base, deployed)
    BY <1>2, <2>1 DEF Placed, SavedOn
  <2>3. PICK m, n \in DOMAIN main : m <= n /\ main[m] = base /\ main[n] = deployed
    BY <2>2 DEF IsAncestor
  <2>4. /\ m \in 1..Len(main) /\ n \in 1..Len(main) /\ Len(main) \in 1..Len(main)
        /\ Len(main) \in Nat /\ main[m] \in 1..Len(commits)
    BY <2>3 DEF Shape, RemoteOK
  <2>5. CASE m = n
    BY <1>1, <2>3, <2>4, <2>5 DEF ExactIntent, Exact
  <2>6. CASE m # n
    <3>1. m # Len(main)
      BY <2>3, <2>4, <2>6
    <3> QED
      BY <2>3, <2>4, <3>1 DEF Passed, Landed, Tip, Lineage, Chain
  <2> QED
    BY <2>5, <2>6
<1>3. drafts = NoDrafts => ExactIntent(i)
  BY <1>1 DEF ExactIntent, Exact
<1>4. ~Rollback => ExactIntent(i) \/ Passed(i.base)
  BY <1>1, <1>2, <1>3
<1> QED
  BY <1>1, <1>4 DEF SlotSound, Slot, i

LEMMA MarkedSound ==
  ASSUME NEW i \in Intent, NEW p
  PROVE  /\ EntrySound(i) => EntrySound(Marked(i, p))
         /\ Marked(i, p).commit = i.commit
BY DEF EntrySound, IsOf, ExactIntent, Marked, Intent

\* A request past the comparison holds an entry that is sound.
LEMMA WorkingSound ==
  ASSUME Shape, Carried, NEW r \in Requests, req[r].pc \notin {"idle", "getHead", "gotHead"}
  PROVE  EntrySound(req[r].intent)
BY DEF Carried, SlotSound, EntrySound

LEMMA PlansCarried ==
  ASSUME Shape, Lineage, Carried, Placed, NEW r \in Requests,
         StartPublish(r) \/ \E v : RestartPublish(r, v)
  PROVE  Carried'
<1>1. UNCHANGED <<commits, main>>
  BY DEF StartPublish, RestartPublish, remote
<1>2. CASE StartPublish(r)
  <2>1. PICK base \in Bases(drafts) : /\ Bases(drafts) = {base}
                                      /\ Goto(r, "getHead", Plan(drafts, base))
    BY <1>2 DEF StartPublish
  <2>2. SavedOn(drafts, base, baseOf)
    <3>1. \A k \in Kinds : drafts[k] # 0 => drafts[k] \in 1..Len(baseOf)
      BY DEF Shape, RemoteOK
    <3>2. \A k \in Kinds : drafts[k] # 0 => baseOf[drafts[k]] \in Bases(drafts)
      BY DEF Bases
    <3> QED
      BY <2>1, <3>1, <3>2 DEF SavedOn
  <2>3. journal' = journal
    BY <1>2 DEF StartPublish
  <2> QED
    BY <1>1, <2>1, <2>2, <2>3, PlanExact, CarryStep DEF Goto
<1>3. ASSUME NEW v, RestartPublish(r, v)
      PROVE  Carried'
  <2>1. PICK prior \in journal :
          /\ Found(prior, v)
          /\ journal' = Replaced(prior, Marked(prior, "failed"))
          /\ IF v = drafts THEN Goto(r, "getHead", Plan(v, prior.base)) ELSE UNCHANGED req
    BY <1>3 DEF RestartPublish
  <2>2. SavedOn(v, prior.base, baseOf) /\ prior \in Intent
    BY <2>1 DEF Found, Matching, Lineage, Based, Shape, EntryOK
  <2>3. \A i \in journal' : i \in journal \/ EntrySound(i)
    BY <2>1, <2>2, MarkedSound DEF Replaced, Carried
  <2>4. CASE v = drafts
    BY <1>1, <2>1, <2>2, <2>3, <2>4, PlanExact, CarryStep DEF Goto
  <2>5. CASE v # drafts
    <3>1. req' = [req EXCEPT ![r] = req[r]]
      BY <2>1, <2>5 DEF Shape
    <3> QED
      BY <1>1, <2>3, <3>1, CarryStep DEF Carried
  <2> QED
    BY <2>4, <2>5
<1> QED
  BY <1>2, <1>3

LEMMA LocalCarried ==
  ASSUME Shape, Lineage, Carried, NEW r \in Requests,
         \/ Local(r) \/ GetHead(r) \/ Verify(r) \/ CompareStops(r) \/ FinishStops(r)
         \/ \E v : StartRecovery(r, v)
  PROVE  Carried'
<1> DEFINE i == req[r].intent
<1>0. SlotSound(req[r]) /\ i \in Intent
  BY ShapeFacts DEF Carried
<1>1. UNCHANGED <<commits, main>>
  BY DEF Local, GetHead, Verify, CompareStops, FinishStops, StartRecovery, Refuse,
         JoinIntent, CreateIntent, RecordCommit, AbandonIntent, HeadNotUpdated,
         VerifyStops, RetryHead, FinishRefused, Finish, FinishCompares, FinishCompared,
         remote
<1>2. CASE Refuse(r) \/ VerifyStops(r) \/ FinishRefused(r) \/ CompareStops(r)
  BY <1>1, <1>2, IdleSound, CarryStep DEF Refuse, VerifyStops, FinishRefused, CompareStops, Done
<1>3. CASE AbandonIntent(r) \/ Finish(r) \/ FinishCompared(r) \/ FinishStops(r)
  <2>1. req[r].pc \notin {"idle", "getHead", "gotHead"}
    BY <1>3 DEF AbandonIntent, Finish, FinishCompared, FinishStops, Confirmed
  <2>2. \A j \in journal' : j \in journal \/ \E p : j = Marked(i, p)
    BY <1>3 DEF AbandonIntent, Finish, FinishCompared, FinishStops, Replaced
  <2>3. \A j \in journal' : j \in journal \/ EntrySound(j)
    BY <1>0, <2>1, <2>2, WorkingSound, MarkedSound
  <2>4. Done(r)
    BY <1>3 DEF AbandonIntent, Finish, FinishCompared, FinishStops
  <2> QED
    BY <1>1, <2>3, <2>4, IdleSound, CarryStep DEF Done
<1>4. CASE JoinIntent(r) \/ \E v : StartRecovery(r, v)
  <2>1. journal' = journal
    BY <1>4 DEF JoinIntent, StartRecovery
  <2>2. Done(r) \/ \E j \in journal : Goto(r, "verify", j)
    BY <1>4 DEF JoinIntent, StartRecovery, SameKeyIntents, Reconcile
  <2>3. \A j \in journal : SlotSound(Slot("verify", j, 0))
    BY DEF Carried, EntrySound, SlotSound, Slot
  <2> QED
    BY <1>1, <2>1, <2>2, <2>3, IdleSound, CarryStep DEF Done, Goto
<1>5. CASE CreateIntent(r)
  <2> DEFINE k == [Keyed(r) EXCEPT !.id = intents + 1]
  <2>1. /\ journal' = Trimmed \cup {k}
        /\ req' = [req EXCEPT ![r] = Slot("createCommit", k, 0)]
        /\ req[r].pc = "gotHead" /\ req[r].seen = i.base
    BY <1>5 DEF CreateIntent, Goto, BaseIsHead, AnyHead
  <2>2. k.reviewed = i.reviewed /\ k.base = i.base /\ k.content = i.content /\ k.commit = i.commit
    BY <1>0, <2>1 DEF Keyed, Intent
  <2> HIDE DEF k
  <2>3. EntrySound(k)
    BY <1>0, <2>1, <2>2 DEF SlotSound, EntrySound, IsOf, ExactIntent
  <2>4. SlotSound(Slot("createCommit", k, 0)) /\ \A j \in journal' : j \in journal \/ EntrySound(j)
    BY <2>1, <2>3 DEF SlotSound, Slot, EntrySound, Trimmed
  <2> QED
    BY <1>1, <2>1, <2>4, CarryStep
<1>6. CASE RecordCommit(r)
  <2> DEFINE k == [i EXCEPT !.phase = "ref-pending", !.commit = req[r].seen]
  <2>1. /\ journal' = Replaced(i, k) /\ req' = [req EXCEPT ![r] = Slot("updateHead", k, 0)]
        /\ req[r].pc = "gotCommit" /\ req[r].seen # 0
    BY <1>6 DEF RecordCommit, Goto
  <2>2. /\ k.reviewed = i.reviewed /\ k.base = i.base /\ k.content = i.content
        /\ k.commit = req[r].seen
    BY <1>0 DEF Intent
  <2> HIDE DEF k
  <2>3. EntrySound(k)
    BY <1>0, <2>1, <2>2 DEF SlotSound, EntrySound, IsOf, ExactIntent
  <2>4. SlotSound(Slot("updateHead", k, 0)) /\ \A j \in journal' : j \in journal \/ EntrySound(j)
    BY <2>1, <2>3 DEF SlotSound, Slot, EntrySound, Replaced
  <2> QED
    BY <1>1, <2>1, <2>4, CarryStep
<1>7. CASE HeadNotUpdated(r) \/ RetryHead(r) \/ Verify(r)
  <2>1. journal' = journal /\ req[r].pc \notin {"idle", "getHead", "gotHead"}
    BY <1>7 DEF HeadNotUpdated, RetryHead, Verify
  <2>2. \/ Done(r)
        \/ \E v : \E pc \in {"verify", "retryHead", "verified"} : req' = [req EXCEPT ![r] = Slot(pc, i, v)]
    BY <1>7 DEF HeadNotUpdated, RetryHead, Verify, Goto, Answer
  <2>3. \A pc \in {"verify", "retryHead", "verified"} : \A v : SlotSound(Slot(pc, i, v))
    BY <1>0, <2>1 DEF SlotSound, Slot
  <2> QED
    BY <1>1, <2>1, <2>2, <2>3, IdleSound, CarryStep DEF Done
<1>8. CASE FinishCompares(r)
  <2> DEFINE k == Marked(i, "committed")
             x == [Slot("compare", k, 0) EXCEPT !.prev = receipt]
  <2>1. /\ journal' = Replaced(i, k) /\ req' = [req EXCEPT ![r] = x]
        /\ req[r].pc \notin {"idle", "getHead", "gotHead"}
    BY <1>8 DEF FinishCompares, Confirmed
  <2>2. x.intent = k /\ x.pc = "compare"
    BY DEF Slot
  <2>3. EntrySound(k)
    BY <1>0, <2>1, WorkingSound, MarkedSound
  <2>4. SlotSound(x) /\ \A j \in journal' : j \in journal \/ EntrySound(j)
    BY <2>1, <2>2, <2>3 DEF SlotSound, EntrySound, Replaced
  <2> QED
    BY <1>1, <2>1, <2>4, CarryStep
<1>9. CASE GetHead(r)
  <2>1. PICK v \in {Tip, 0} : req' = [req EXCEPT ![r] = Slot("gotHead", i, v)] /\ req[r].pc = "getHead"
    BY <1>9 DEF GetHead, Answer
  <2>2. i.base \in Landed => i.base # 0
    BY DEF Landed, Shape, RemoteOK
  <2>3. SlotSound(Slot("gotHead", i, v))
    BY <1>0, <2>1, <2>2 DEF SlotSound, Slot, Passed
  <2>4. journal' = journal
    BY <1>9 DEF GetHead
  <2> QED
    BY <1>1, <2>1, <2>3, <2>4, CarryStep
<1> QED
  BY <1>2, <1>3, <1>4, <1>5, <1>6, <1>7, <1>8, <1>9 DEF Local
-----------------------------------------------------------------------------
(* Steps that add a commit or move the branch.                             *)

LEMMA CarryGrows ==
  ASSUME Shape, Carried, journal' = journal, Len(commits') \in Nat, Len(commits) <= Len(commits'),
         \A n \in 1..Len(commits) : commits'[n] = commits[n],
         \A c : Passed(c) => Passed(c)',
         \A r \in Requests : \A x : x = req'[r] => x = req[r] \/ SlotSound(x)'
  PROVE  Carried'
<1>0. Len(commits) \in Nat
  BY DEF Shape, RemoteOK
<1>1. \A v, b, c : Exact(v, b, c) => Exact(v, b, c)'
  BY <1>0 DEF Exact
<1>2. \A i : ExactIntent(i) => ExactIntent(i)'
  BY <1>1 DEF ExactIntent
<1>3. ASSUME NEW i, EntryOK(i, Len(commits), Landed), EntrySound(i)
      PROVE  EntrySound(i)'
  <2>1. i.commit # 0 => i.commit \in 1..Len(commits) /\ IsOf(commits[i.commit], i)
    BY <1>0, <1>3 DEF EntryOK, EntrySound
  <2>2. i.commit # 0 => IsOf(commits'[i.commit], i)
    BY <2>1 DEF IsOf
  <2>3. ExactIntent(i)'
    BY <1>2, <1>3 DEF EntrySound
  <2> QED
    BY <2>2, <2>3 DEF EntrySound, IsOf
<1>4. ASSUME NEW x, SlotOK(x, Len(commits), Landed), SlotSound(x)
      PROVE  SlotSound(x)'
  <2>1. /\ x.intent.commit # 0 => x.intent.commit \in 1..Len(commits)
        /\ x.pc = "gotCommit" /\ x.seen # 0 => x.seen \in 1..Len(commits)
    BY <1>0, <1>4 DEF SlotOK, EntryOK
  <2>2. /\ x.intent.commit # 0 => IsOf(commits'[x.intent.commit], x.intent)
        /\ x.pc = "gotCommit" /\ x.seen # 0 => IsOf(commits'[x.seen], x.intent)
    BY <1>4, <2>1 DEF SlotSound, IsOf
  <2>3. ExactIntent(x.intent) => ExactIntent(x.intent)'
    BY <1>2
  <2> QED
    BY <1>4, <2>2, <2>3 DEF SlotSound, IsOf
<1>5. \A i \in journal' : EntrySound(i)'
  BY <1>3 DEF Shape, Carried
<1>6. \A r \in Requests : SlotSound(req[r]) /\ SlotOK(req[r], Len(commits), Landed)
  BY DEF Shape, Carried
<1>7. \A r \in Requests : \A x : x = req'[r] => SlotSound(x)'
  BY <1>4, <1>6
<1> QED
  BY <1>5, <1>7 DEF Carried

\* Main moves past a version for good.
LEMMA PassedStays ==
  ASSUME Shape, NEW d, main' = Append(main, d), d \notin Landed
  PROVE  /\ \A c : Passed(c) => Passed(c)'
         /\ Landed \subseteq Landed'
<1>1. main \in Seq(1..Len(commits))
  BY DEF Shape, RemoteOK
<1>2. /\ \A n \in DOMAIN main : n \in DOMAIN main' /\ main'[n] = main[n]
      /\ main'[Len(main')] = d
  BY <1>1
<1> QED
  BY <1>2 DEF Passed, Landed, Tip

LEMMA CommitCarried ==
  ASSUME Shape, Carried, NEW r \in Requests, CreateCommit(r)
  PROVE  /\ Carried'
         /\ Len(commits') \in Nat /\ Len(commits) <= Len(commits')
         /\ \A n \in 1..Len(commits) : commits'[n] = commits[n]
         /\ ~Rollback => \A c \in 1..Len(commits') :
              c \in 1..Len(commits) \/ Exact(commits'[c].reviewed, commits'[c].parent, commits'[c].content)
<1> DEFINE i == req[r].intent
           c == [parent |-> i.base, content |-> i.content, reviewed |-> i.reviewed]
<1>1. /\ journal' = journal /\ main' = main /\ req[r].pc = "createCommit"
      /\ SlotSound(req[r]) /\ Len(commits) \in Nat /\ c \in Commit
      /\ commits \in Seq(Commit)
  BY ShapeFacts DEF CreateCommit, Carried, Shape, RemoteOK, Commit, Intent
<1>2. /\ i.commit # 0 => IsOf(commits[i.commit], i)
      /\ ExactIntent(i)
      /\ i.commit \in 0..Len(commits)
  BY <1>1, ShapeFacts DEF SlotSound, EntryOK
<1>3. \A d : Passed(d) => Passed(d)'
  BY <1>1 DEF Passed, Landed, Tip
<1>4. CASE UNCHANGED commits /\ Answer(r, "gotCommit", 0)
  <2>1. req' = [req EXCEPT ![r] = Slot("gotCommit", i, 0)]
    BY <1>4 DEF Answer
  <2>2. \A x : x = Slot("gotCommit", i, 0) => SlotSound(x)'
    BY <1>2, <1>4 DEF SlotSound, Slot, IsOf, ExactIntent, Exact
  <2>3. \A q \in Requests : \A x : x = req'[q] => x = req[q] \/ SlotSound(x)'
    BY <2>1, <2>2 DEF Shape
  <2> QED
    BY <1>1, <1>3, <1>4, <2>3, CarryGrows
<1>5. CASE commits' = Append(commits, c)
           /\ \E v \in {Len(commits) + 1, 0} : Answer(r, "gotCommit", v)
  <2>1. PICK v \in {Len(commits) + 1, 0} : req' = [req EXCEPT ![r] = Slot("gotCommit", i, v)]
    BY <1>5 DEF Answer
  <2>2. /\ Len(commits') = Len(commits) + 1
        /\ \A n \in 1..Len(commits) : commits'[n] = commits[n]
        /\ commits'[Len(commits) + 1] = c
    BY <1>1, <1>5
  <2>3. /\ c.reviewed = i.reviewed /\ c.parent = i.base /\ c.content = i.content
    OBVIOUS
  <2> HIDE DEF c
  <2>4. \A j : ExactIntent(j) => ExactIntent(j)'
    BY <1>1, <2>2 DEF ExactIntent, Exact
  <2>5. /\ i.commit # 0 => IsOf(commits'[i.commit], i)
        /\ v # 0 => IsOf(commits'[v], i)
    BY <1>1, <1>2, <2>2, <2>3 DEF IsOf
  <2>6. ASSUME NEW x, x = Slot("gotCommit", i, v) PROVE SlotSound(x)'
    <3>1. x.intent = i /\ x.seen = v /\ x.pc = "gotCommit"
      BY <2>6 DEF Slot
    <3>2. ExactIntent(x.intent)'
      BY <1>2, <2>4, <3>1
    <3>3. /\ x.intent.commit # 0 => IsOf(commits'[x.intent.commit], x.intent)
          /\ x.seen # 0 => IsOf(commits'[x.seen], x.intent)
      BY <2>5, <3>1
    <3> QED
      BY <3>1, <3>2, <3>3 DEF SlotSound, IsOf
  <2>7. \A q \in Requests : \A x : x = req'[q] => x = req[q] \/ SlotSound(x)'
    BY <2>1, <2>6 DEF Shape
  <2>8. Carried'
    BY <1>1, <1>3, <2>2, <2>7, CarryGrows
  <2>9. ~Rollback => Exact(c.reviewed, c.parent, c.content)
    BY <1>2, <2>3 DEF ExactIntent
  <2> QED
    BY <1>1, <2>2, <2>8, <2>9
<1> QED
  BY <1>4, <1>5 DEF CreateCommit

LEMMA HeadCarried ==
  ASSUME Shape, Lineage, Carried, NEW r \in Requests, UpdateHead(r)
  PROVE  /\ Carried'
         /\ Landed \subseteq Landed'
<1> DEFINE i == req[r].intent
<1>1. PICK pc, v : /\ pc \in {"headUpdated", "headRetried"}
                  /\ req' = [req EXCEPT ![r] = Slot(pc, i, v)]
                  /\ req[r].pc \in {"updateHead", "retryHead"}
  BY DEF UpdateHead, Answer
<1>2. journal' = journal /\ commits' = commits /\ Len(commits) \in Nat
  BY ShapeFacts DEF UpdateHead
<1>3. \A x : x = Slot(pc, i, v) => SlotSound(x)'
  BY <1>1, <1>2 DEF Carried, SlotSound, Slot, IsOf, ExactIntent, Exact
<1>4. (\A d : Passed(d) => Passed(d)') /\ Landed \subseteq Landed'
  <2>1. CASE main' = main
    BY <2>1 DEF Passed, Landed, Tip
  <2>2. CASE FastForward(i.commit) /\ main' = Append(main, i.commit)
    <3>1. i.commit \in 1..Len(commits)
      BY ShapeFacts DEF UpdateHead, SlotOK, Working, EntryOK
    <3>2. i.commit \notin Landed
      BY <2>2, <3>1, ChildIsNew DEF FastForward, Lineage
    <3> QED
      BY <2>2, <3>2, PassedStays
  <2> QED
    BY <2>1, <2>2 DEF UpdateHead
<1>5. \A q \in Requests : \A x : x = req'[q] => x = req[q] \/ SlotSound(x)'
  BY <1>1, <1>3 DEF Shape
<1> QED
  BY <1>2, <1>4, <1>5, CarryGrows

LEMMA PushCarried ==
  ASSUME Shape, Carried, ExternalPush
  PROVE  /\ Carried'
         /\ Landed \subseteq Landed'
         /\ Len(commits') \in Nat /\ Len(commits) <= Len(commits')
         /\ \A n \in 1..Len(commits) : commits'[n] = commits[n]
         /\ \A c \in 1..Len(commits') : c \in 1..Len(commits) \/ commits'[c].reviewed = NoDrafts
<1> DEFINE c == Len(commits) + 1
<1>1. UNCHANGED <<journal, req>> /\ main' = Append(main, c)
  BY DEF ExternalPush
<1>2. PICK content : commits' = Append(commits, [parent |-> Tip, content |-> content,
                                                 reviewed |-> NoDrafts])
  BY DEF ExternalPush
<1>3. /\ Len(commits) \in Nat /\ Len(commits') = c
      /\ \A n \in 1..Len(commits) : commits'[n] = commits[n]
      /\ commits'[c].reviewed = NoDrafts
  BY <1>2 DEF Shape, RemoteOK
<1>4. c \notin Landed
  BY <1>3 DEF Landed, Shape, RemoteOK
<1>5. (\A d : Passed(d) => Passed(d)') /\ Landed \subseteq Landed'
  BY <1>1, <1>4, PassedStays
<1>6. Carried'
  BY <1>1, <1>3, <1>5, CarryGrows
<1> QED
  BY <1>3, <1>5, <1>6

-----------------------------------------------------------------------------
(* Commits keep their description, drafts keep a base behind the running   *)
(* version.                                                                *)

LEMMA PlacedStep ==
  ASSUME Shape, Shape', Placed,
         \A n \in 1..Len(commits) : commits'[n] = commits[n],
         Len(commits) <= Len(commits'),
         ~Rollback => \A c \in 1..Len(commits') : c \in 1..Len(commits) \/
           Exact(commits'[c].reviewed, commits'[c].parent, commits'[c].content),
         deployed' \in Landed',
         ~Rollback => \A b : IsAncestor(b, deployed) => IsAncestor(b, deployed)',
         \A v \in 1..Len(baseOf) : baseOf'[v] = baseOf[v],
         \A k \in Kinds : drafts'[k] \in {0, drafts[k]} \/ baseOf'[drafts'[k]] = deployed'
  PROVE  Placed'
<1>0. Len(commits) \in Nat /\ Len(commits') \in Nat /\ DOMAIN main' = 1..Len(main') /\ Len(main') \in Nat
  BY DEF Shape, RemoteOK
<1>1. \A v, b, c : Exact(v, b, c) => Exact(v, b, c)'
  BY <1>0 DEF Exact
<1>2. ASSUME ~Rollback, NEW c \in 1..Len(commits')
      PROVE  Exact(commits[c].reviewed, commits[c].parent, commits[c].content)'
  <2>1. c \in 1..Len(commits) => Exact(commits[c].reviewed, commits[c].parent, commits[c].content)
    BY <1>2 DEF Placed
  <2>2. Exact(commits'[c].reviewed, commits'[c].parent, commits'[c].content)
    BY <1>2, <2>1
  <2>3. \A v, b, d : /\ v = commits'[c].reviewed /\ b = commits'[c].parent
                     /\ d = commits'[c].content
                     => Exact(v, b, d)'
    BY <1>1, <2>2
  <2> QED
    BY <2>3
<1>3. ASSUME ~Rollback, NEW k \in Kinds, drafts'[k] # 0
      PROVE  IsAncestor(baseOf[drafts[k]], deployed)'
  <2>1. drafts[k] # 0 => drafts[k] \in 1..Len(baseOf) /\ IsAncestor(baseOf[drafts[k]], deployed)
    BY <1>3 DEF Placed, Shape, RemoteOK
  <2>2. CASE drafts'[k] = drafts[k]
    <3>1. baseOf'[drafts'[k]] = baseOf[drafts[k]]
      BY <1>3, <2>1, <2>2
    <3>2. \A b : b = baseOf'[drafts'[k]] => IsAncestor(b, deployed)'
      BY <1>3, <2>1, <2>2, <3>1
    <3> QED
      BY <3>2
  <2>3. CASE baseOf'[drafts'[k]] = deployed'
    <3>1. PICK m \in DOMAIN main' : main'[m] = deployed'
      BY DEF Landed
    <3>2. m <= m
      BY <1>0, <3>1
    <3> QED
      BY <2>3, <3>1, <3>2 DEF IsAncestor
  <2> QED
    BY <1>3, <2>2, <2>3
<1> QED
  BY <1>2, <1>3 DEF Placed

\* Everything before a version of main is before the next one deployed.
LEMMA AncestorsChain ==
  ASSUME Shape, Chain, NEW a, NEW b, NEW c, IsAncestor(a, b), IsAncestor(b, c)
  PROVE  IsAncestor(a, c)
<1>1. PICK m, n \in DOMAIN main : m <= n /\ main[m] = a /\ main[n] = b
  BY DEF IsAncestor
<1>2. PICK p, q \in DOMAIN main : p <= q /\ main[p] = b /\ main[q] = c
  BY DEF IsAncestor
<1>3. n = p
  BY <1>1, <1>2 DEF Chain
<1>4. m \in Nat /\ n \in Nat /\ q \in Nat
  BY <1>1, <1>2 DEF Shape, RemoteOK
<1> QED
  BY <1>1, <1>2, <1>3, <1>4 DEF IsAncestor

\* Drafts only go away when a request finishes.
LEMMA LocalDrafts ==
  ASSUME NEW r \in Requests,
         \/ Local(r) \/ GitHub(r) \/ CompareStops(r) \/ FinishStops(r) \/ StartPublish(r)
         \/ \E v : StartRecovery(r, v) \/ RestartPublish(r, v)
  PROVE  /\ UNCHANGED <<baseOf, deployed>>
         /\ \A k \in Kinds : drafts'[k] \in {0, drafts[k]}
<1>1. CASE Finish(r) \/ FinishCompared(r) \/ FinishStops(r)
  <2>1. drafts' = drafts \/ \E kinds : drafts' = Cleared(req[r].intent, kinds)
    BY <1>1 DEF Finish, FinishCompared, FinishStops
  <2>2. \A k \in Kinds : drafts'[k] \in {0, drafts[k]}
    BY <2>1 DEF Cleared
  <2> QED
    BY <1>1, <2>2 DEF Finish, FinishCompared, FinishStops, remote
<1>2. CASE ~(Finish(r) \/ FinishCompared(r) \/ FinishStops(r))
  <2>1. UNCHANGED <<drafts, baseOf, deployed>>
    BY <1>2 DEF Local, GitHub, StartRecovery, RestartPublish, StartPublish, JoinIntent, Refuse,
           CreateIntent, RecordCommit, AbandonIntent, HeadNotUpdated, VerifyStops, RetryHead,
           FinishRefused, FinishCompares, GetHead, CreateCommit, UpdateHead, Verify, CompareStops, remote
  <2> QED
    BY <2>1
<1> QED
  BY <1>1, <1>2

Story == Shape /\ Lineage /\ Carried /\ Placed

LEMMA RequestStory ==
  ASSUME Story, Shape', NEW r \in Requests,
         \/ Local(r) \/ GitHub(r) \/ CompareStops(r) \/ FinishStops(r) \/ StartPublish(r)
         \/ \E v : StartRecovery(r, v) \/ RestartPublish(r, v)
  PROVE  Carried' /\ Placed'
<1>0. Shape /\ Lineage /\ Carried /\ Placed
  BY DEF Story
<1>1. /\ UNCHANGED <<baseOf, deployed>>
      /\ \A k \in Kinds : drafts'[k] \in {0, drafts[k]}
      /\ Len(commits) \in Nat
  BY <1>0, LocalDrafts DEF Shape, RemoteOK
<1>2. CASE CreateCommit(r)
  <2>1. UNCHANGED main /\ Landed' = Landed
    BY <1>2 DEF CreateCommit, Landed
  <2>2. \A b : IsAncestor(b, deployed) => IsAncestor(b, deployed)'
    BY <1>1, <2>1 DEF IsAncestor
  <2> QED
    BY <1>0, <1>1, <1>2, <2>1, <2>2, CommitCarried, PlacedStep DEF Placed
<1>3. CASE UpdateHead(r)
  <2>1. commits' = commits /\ Landed \subseteq Landed' /\ Carried'
    BY <1>0, <1>3, HeadCarried DEF UpdateHead
  <2>2. \A b : IsAncestor(b, deployed) => IsAncestor(b, deployed)'
    <3>1. \E c : main' = main \/ main' = Append(main, c)
      BY <1>3 DEF UpdateHead
    <3>2. \A b, d : IsAncestor(b, d) => IsAncestor(b, d)'
      BY <1>0, <3>1, AncestorsStay
    <3>3. \A b : \A d : d = deployed' /\ IsAncestor(b, deployed) => IsAncestor(b, d)'
      BY <1>1, <3>2
    <3> QED
      BY <3>3
  <2>3. Placed'
    BY <1>0, <1>1, <2>1, <2>2, PlacedStep DEF Placed
  <2> QED
    BY <2>1, <2>3
<1>4. CASE ~CreateCommit(r) /\ ~UpdateHead(r)
  <2>1. Carried'
    BY <1>0, <1>4, PlansCarried, LocalCarried DEF GitHub
  <2>2. UNCHANGED <<commits, main>>
    BY <1>4 DEF Local, GitHub, StartRecovery, RestartPublish, StartPublish, JoinIntent, Refuse,
           CreateIntent, RecordCommit, AbandonIntent, HeadNotUpdated, VerifyStops, RetryHead,
           FinishRefused, Finish, FinishCompares, FinishCompared, FinishStops, GetHead, Verify,
           CompareStops, remote
  <2>3. Landed' = Landed /\ \A b : IsAncestor(b, deployed) => IsAncestor(b, deployed)'
    BY <1>1, <2>2 DEF Landed, IsAncestor
  <2>4. Placed'
    BY <1>0, <1>1, <2>2, <2>3, PlacedStep DEF Placed
  <2> QED
    BY <2>1, <2>4
<1> QED
  BY <1>2, <1>3, <1>4

LEMMA PushStory ==
  ASSUME Story, Shape', ExternalPush
  PROVE  Carried' /\ Placed'
<1>0. Shape /\ Lineage /\ Carried /\ Placed
  BY DEF Story
<1>1. UNCHANGED <<drafts, deployed>> /\ \E c : main' = Append(main, c)
  BY DEF ExternalPush
<1>2. \A b : IsAncestor(b, deployed) => IsAncestor(b, deployed)'
  <2>1. \A b, d : IsAncestor(b, d) => IsAncestor(b, d)'
    BY <1>0, <1>1, AncestorsStay
  <2>2. \A b : \A d : d = deployed' /\ IsAncestor(b, deployed) => IsAncestor(b, d)'
    BY <1>1, <2>1
  <2> QED
    BY <2>2
<1>3. \A v \in 1..Len(baseOf) : baseOf'[v] = baseOf[v]
  BY <1>0 DEF ExternalPush, Shape, RemoteOK
<1>4. \A b, c : Exact(NoDrafts, b, c)
  BY DEF Exact
<1> QED
  BY <1>0, <1>1, <1>2, <1>3, <1>4, PushCarried, PlacedStep DEF Placed

LEMMA OwnerStory ==
  ASSUME Story, Shape',
         \/ \E k \in Edited : SaveDraft(k) \/ DiscardDraft(k)
         \/ Crash \/ Deploy \/ AgeIntent \/ UNCHANGED vars
  PROVE  Carried' /\ Placed'
<1>0. Shape /\ Lineage /\ Carried /\ Placed
  BY DEF Story
<1>1. UNCHANGED <<journal, commits, main>> /\ Landed' = Landed /\ Len(commits) \in Nat
  BY <1>0 DEF SaveDraft, DiscardDraft, Crash, Deploy, AgeIntent, vars, remote, Landed, Shape, RemoteOK
<1>2. /\ \A i : EntrySound(i) => EntrySound(i)'
      /\ \A x : SlotSound(x) => SlotSound(x)'
  BY <1>1 DEF EntrySound, SlotSound, IsOf, ExactIntent, Exact, Passed, Landed, Tip
<1>3. \A r \in Requests : req'[r] = req[r] \/ req'[r] = Idle
  BY DEF SaveDraft, DiscardDraft, Crash, Deploy, AgeIntent, vars
<1>4. Carried'
  <2>1. \A r \in Requests : SlotSound(req'[r])
    BY <1>0, <1>3, IdleSound DEF Carried
  <2> QED
    BY <1>0, <1>1, <1>2, <2>1 DEF Carried
<1>5. deployed' \in Landed /\ (~Rollback => deployed' = deployed \/ IsAncestor(deployed, deployed'))
  BY <1>0 DEF SaveDraft, DiscardDraft, Crash, Deploy, AgeIntent, vars, remote, Placed
<1>6. ~Rollback => \A b : IsAncestor(b, deployed) => IsAncestor(b, deployed)'
  <2>1. \A a, b, c : IsAncestor(a, b) /\ IsAncestor(b, c) => IsAncestor(a, c)
    BY <1>0, AncestorsChain DEF Lineage
  <2>2. ~Rollback => \A b : IsAncestor(b, deployed) => IsAncestor(b, deployed')
    BY <1>5, <2>1
  <2> QED
    BY <1>1, <2>2 DEF IsAncestor
<1>7. /\ \A v \in 1..Len(baseOf) : baseOf'[v] = baseOf[v]
      /\ \A k \in Kinds : drafts'[k] \in {0, drafts[k]} \/ baseOf'[drafts'[k]] = deployed'
  <2>0. /\ baseOf \in Seq(Nat) /\ deployed \in Nat /\ drafts \in [Kinds -> 0..Len(baseOf)]
    BY <1>0 DEF Shape, RemoteOK
  <2>1. ASSUME NEW k \in Edited, SaveDraft(k)
        PROVE  /\ \A v \in 1..Len(baseOf) : baseOf'[v] = baseOf[v]
               /\ \A j \in Kinds : drafts'[j] \in {0, drafts[j]} \/ baseOf'[drafts'[j]] = deployed'
    <3>1. baseOf' = Append(baseOf, deployed) /\ deployed' = deployed
          /\ drafts' = [drafts EXCEPT ![k] = Len(baseOf) + 1]
      BY <2>1 DEF SaveDraft, remote
    <3>2. /\ \A v \in 1..Len(baseOf) : baseOf'[v] = baseOf[v]
          /\ baseOf'[Len(baseOf) + 1] = deployed
      BY <2>0, <3>1
    <3>3. \A j \in Kinds : drafts'[j] = drafts[j] \/ drafts'[j] = Len(baseOf) + 1
      BY <2>0, <3>1
    <3> QED
      BY <3>1, <3>2, <3>3
  <2>2. ASSUME NEW k \in Edited, DiscardDraft(k)
        PROVE  baseOf' = baseOf /\ \A j \in Kinds : drafts'[j] \in {0, drafts[j]}
    BY <2>0, <2>2 DEF DiscardDraft
  <2>3. CASE Crash \/ Deploy \/ AgeIntent \/ UNCHANGED vars
    BY <2>3 DEF Crash, Deploy, AgeIntent, vars
  <2> QED
    BY <2>1, <2>2, <2>3
<1>8. Placed'
  BY <1>0, <1>1, <1>5, <1>6, <1>7, PlacedStep DEF Placed
<1> QED
  BY <1>4, <1>8

LEMMA StoryStarts == Init => Story
<1> SUFFICES ASSUME Init PROVE Story
  OBVIOUS
<1>1. Carried
  BY IdleSound DEF Init, Carried
<1>2. Placed
  BY DEF Init, Placed, Exact, Landed, NoDrafts
<1> QED
  BY <1>1, <1>2, ShapeStarts, LineageStarts DEF Story

LEMMA StoryKept == Story /\ [Next]_vars => Story'
<1> SUFFICES ASSUME Story, [Next]_vars PROVE Story'
  OBVIOUS
<1>1. Shape' /\ Lineage'
  BY ShapeKept, LineageKept DEF Story
<1>2. Carried' /\ Placed'
  BY <1>1, RequestStory, PushStory, OwnerStory DEF Next
<1> QED
  BY <1>1, <1>2 DEF Story

-----------------------------------------------------------------------------
(* The theorems.                                                           *)

\* A finish clears a draft only if its revision is on main.
LEMMA ClearedIsLanded ==
  ASSUME Story, NEW r \in Requests, Finish(r) \/ FinishCompared(r) \/ FinishStops(r),
         NEW k \in Kinds, drafts[k] # 0, drafts'[k] # drafts[k]
  PROVE  \E c \in Landed : commits[c].reviewed[k] = drafts[k]
<1> DEFINE i == req[r].intent
<1>0. Shape /\ Carried
  BY DEF Story
<1>1. i.commit \in Landed
  <2>1. Confirmed(r) \/ req[r].pc = "compare"
    BY DEF Finish, FinishCompared, FinishStops
  <2>2. CASE Confirmed(r)
    BY <1>0, <2>2, ConfirmedLanded
  <2>3. CASE req[r].pc = "compare"
    BY <1>0, <2>3, ShapeFacts DEF SlotOK
  <2> QED
    BY <2>1, <2>2, <2>3
<1>2. i.commit # 0
  BY <1>0, <1>1 DEF Landed, Shape, RemoteOK
<1>3. commits[i.commit].reviewed = i.reviewed
  BY <1>0, <1>2 DEF Carried, SlotSound, IsOf
<1>4. drafts[k] = i.reviewed[k]
  <2>1. drafts' = drafts \/ \E kinds : drafts' = Cleared(i, kinds)
    BY DEF Finish, FinishCompared, FinishStops
  <2> QED
    BY <2>1 DEF Cleared
<1> QED
  BY <1>1, <1>3, <1>4

\* A saved draft disappears only because the owner discarded or replaced it,
\* or because that very revision is on main (clearDrafts compares revisions).
THEOREM DraftsKept == Spec => DraftsSurvive
<1> DEFINE Survive ==
      \A k \in Kinds :
        drafts[k] # 0 /\ drafts'[k] # drafts[k] =>
          \/ \E c \in Landed : commits[c].reviewed[k] = drafts[k]
          \/ DiscardDraft(k) \/ SaveDraft(k)
<1>1. Story /\ [Next]_vars => [Survive]_vars
  <2> SUFFICES ASSUME Story, Next PROVE Survive
    OBVIOUS
  <2> SUFFICES ASSUME NEW k \in Kinds, drafts[k] # 0, drafts'[k] # drafts[k]
               PROVE  \/ \E c \in Landed : commits[c].reviewed[k] = drafts[k]
                      \/ DiscardDraft(k) \/ SaveDraft(k)
    OBVIOUS
  <2>0. drafts \in [Kinds -> 0..Len(baseOf)]
    BY DEF Story, Shape, RemoteOK
  <2>1. CASE \E r \in Requests : Finish(r) \/ FinishCompared(r) \/ FinishStops(r)
    BY <2>1, ClearedIsLanded
  <2>2. ASSUME NEW j \in Edited, SaveDraft(j) \/ DiscardDraft(j)
        PROVE  DiscardDraft(k) \/ SaveDraft(k)
    <3>1. \E v : drafts' = [drafts EXCEPT ![j] = v]
      BY <2>2 DEF SaveDraft, DiscardDraft
    <3>2. j = k
      BY <2>0, <3>1
    <3> QED
      BY <2>2, <3>2
  <2>3. \/ UNCHANGED drafts
        \/ \E r \in Requests : Finish(r) \/ FinishCompared(r) \/ FinishStops(r)
        \/ \E j \in Edited : SaveDraft(j) \/ DiscardDraft(j)
    BY DEF Next, Local, GitHub, StartRecovery, RestartPublish, StartPublish, JoinIntent, Refuse,
           CreateIntent, RecordCommit, AbandonIntent, HeadNotUpdated, VerifyStops, RetryHead,
           FinishRefused, FinishCompares, GetHead, CreateCommit, UpdateHead, Verify, CompareStops,
           Crash, ExternalPush, Deploy, AgeIntent
  <2> QED
    BY <2>1, <2>2, <2>3
<1> HIDE DEF Survive
<1>2. Spec => [][Survive]_vars
  BY <1>1, StoryStarts, StoryKept, PTL DEF Spec
<1> QED
  BY <1>2, PTL DEF DraftsSurvive, Survive

\* While no older version is redeployed, a publication replaces exactly the
\* version its drafts were saved on, by exactly the reviewed drafts, and
\* leaves the other file as it was.
THEOREM NothingOverwritten ==
  ASSUME ~Rollback
  PROVE  Spec => []NoLastWriteWins
<1>1. Story => NoLastWriteWins
  <2> SUFFICES ASSUME Story, NEW n \in DOMAIN main, commits[main[n]].reviewed # NoDrafts
               PROVE  LET c == commits[main[n]]
                      IN  /\ n > 1 /\ c.parent = main[n - 1]
                          /\ \A k \in Kinds :
                               IF c.reviewed[k] # 0
                                 THEN c.content[k] = c.reviewed[k] /\ baseOf[c.reviewed[k]] = c.parent
                                 ELSE c.content[k] = commits[c.parent].content[k]
    BY DEF NoLastWriteWins
  <2>1. Shape /\ Chain /\ Rooted /\ Placed
    BY DEF Story, Lineage
  <2>2. main[n] \in 1..Len(commits) /\ n \in Nat \ {0}
    BY <2>1 DEF Shape, RemoteOK
  <2>3. n > 1
    BY <2>1, <2>2 DEF Chain
  <2>4. commits[main[n]].parent = main[n - 1]
    BY <2>1, <2>3 DEF Chain
  <2>5. Exact(commits[main[n]].reviewed, commits[main[n]].parent, commits[main[n]].content)
    BY <2>1, <2>2 DEF Placed
  <2>6. SavedOn(commits[main[n]].reviewed, commits[main[n]].parent, baseOf)
    BY <2>1, <2>2 DEF Rooted
  <2> QED
    BY <2>3, <2>4, <2>5, <2>6 DEF Exact, SavedOn
<1>2. QED
  BY <1>1, StoryStarts, StoryKept, PTL DEF Spec

-----------------------------------------------------------------------------
(* What a retry needs.                                                     *)

\* An unfinished intent of the journal names the commit.
Recoverable(c) == \E i \in journal : i.commit = c /\ Unfinished(i)

\* A commit on its way to main, or on main while its drafts are not cleared,
\* is in the journal.  An intent has no commit while it is prepared, which is
\* why failing it, or dropping it, forgets none.
SlotRetained(x) ==
  /\ x.intent.phase = "prepared" => x.intent.commit = 0
  /\ x.pc \in Working => x.intent.commit \in Landed \/ Recoverable(x.intent.commit)

Retained ==
  /\ \A i \in journal : i.phase = "prepared" => i.commit = 0
  /\ \A r \in Requests : SlotRetained(req[r])
  /\ PublishedDraftRecoverable

Whole == Story /\ Admitted /\ Remembered /\ Retained

-----------------------------------------------------------------------------
\* An entry that is replaced by a later version of itself takes no commit
\* along, unless it becomes complete.
LEMMA ReplacedRetains ==
  ASSUME NEW i, NEW j, journal' = Replaced(i, j), NEW c, Recoverable(c),
         i.commit = c => j.commit = c /\ Unfinished(j)
  PROVE  Recoverable(c)'
BY DEF Recoverable, Replaced, Unfinished

\* A finish that completes an intent clears its drafts.
Completes(r) ==
  /\ req[r].intent.commit \in Landed
  /\ drafts' = Cleared(req[r].intent, Kinds)

LEMMA LocalRetains ==
  ASSUME Whole, NEW r \in Requests,
         \/ Local(r) \/ GitHub(r) \/ CompareStops(r) \/ FinishStops(r) \/ StartPublish(r)
         \/ \E v : StartRecovery(r, v) \/ RestartPublish(r, v),
         NEW c \in Nat \ {0}, Recoverable(c)
  PROVE  Recoverable(c)' \/ (c = req[r].intent.commit /\ Completes(r))
<1> DEFINE i == req[r].intent
<1>0. /\ Shape /\ Retained /\ PhaseOK(req[r]) /\ i \in Intent
      /\ \A j \in journal : j \in Intent
  BY ShapeFacts DEF Whole, Story, Remembered, Shape, EntryOK
<1>1. CASE UNCHANGED journal
  BY <1>1 DEF Recoverable, Unfinished
<1>2. CASE CreateIntent(r)
  BY <1>2 DEF CreateIntent, Trimmed, Recoverable, Unfinished
<1>3. CASE RecordCommit(r)
  <2>1. i \in journal /\ i.phase = "prepared" /\ \E j : journal' = Replaced(i, j)
    BY <1>0, <1>3 DEF RecordCommit, CanUpdate, PhaseOK
  <2>2. i.commit = 0
    BY <1>0, <2>1 DEF Retained
  <2> QED
    BY <2>1, <2>2, ReplacedRetains
<1>4. CASE AbandonIntent(r)
  <2>1. i.commit = 0
    BY <1>0, <1>4 DEF AbandonIntent, PhaseOK, Retained, SlotRetained
  <2> QED
    BY <1>1, <1>4, <2>1, ReplacedRetains DEF AbandonIntent
<1>5. ASSUME NEW v, RestartPublish(r, v)
      PROVE  Recoverable(c)'
  <2>1. PICK prior \in journal : Expired(prior) /\ journal' = Replaced(prior, Marked(prior, "failed"))
    BY <1>5 DEF RestartPublish
  <2>2. prior.commit = 0
    BY <1>0, <2>1 DEF Expired, Retained
  <2> QED
    BY <2>1, <2>2, ReplacedRetains
<1>6. CASE Finish(r) \/ FinishCompares(r) \/ FinishCompared(r) \/ FinishStops(r)
  <2>1. i.commit \in Landed
    BY <1>0, <1>6, ConfirmedLanded, ShapeFacts
       DEF Finish, FinishCompares, FinishCompared, FinishStops, SlotOK
  <2>2. \/ UNCHANGED journal
        \/ journal' = Replaced(i, Marked(i, "committed"))
        \/ journal' = Replaced(i, Marked(i, "complete")) /\ drafts' = Cleared(i, Kinds)
    BY <1>6 DEF Finish, FinishCompares, FinishCompared, FinishStops
  <2>3. CASE journal' = Replaced(i, Marked(i, "committed"))
    <3>1. Marked(i, "committed").commit = i.commit /\ Unfinished(Marked(i, "committed"))
      BY <1>0 DEF Marked, Intent, Unfinished
    <3> QED
      BY <2>3, <3>1, ReplacedRetains
  <2>4. CASE journal' = Replaced(i, Marked(i, "complete")) /\ drafts' = Cleared(i, Kinds)
    BY <2>1, <2>4, ReplacedRetains DEF Completes
  <2> QED
    BY <1>1, <2>2, <2>3, <2>4
<1>7. CASE ~(\/ CreateIntent(r) \/ RecordCommit(r) \/ AbandonIntent(r) \/ Finish(r) \/ FinishCompares(r)
             \/ FinishCompared(r) \/ FinishStops(r) \/ \E v : RestartPublish(r, v))
  <2>1. UNCHANGED journal
    BY <1>7 DEF Local, GitHub, StartRecovery, StartPublish, JoinIntent, Refuse, HeadNotUpdated,
           VerifyStops, RetryHead, FinishRefused, GetHead, CreateCommit, UpdateHead, Verify, CompareStops
  <2> QED
    BY <1>1, <2>1
<1> QED
  BY <1>2, <1>3, <1>4, <1>5, <1>6, <1>7
LEMMA IdleRetained == SlotRetained(Idle)
BY DEF SlotRetained, Idle, Slot, NoIntent, Working

\* The slot a request moves to, and what it writes into the journal.
LEMMA NextSlotRetained ==
  ASSUME Whole, NEW r \in Requests,
         \/ Local(r) \/ GitHub(r) \/ CompareStops(r) \/ FinishStops(r) \/ StartPublish(r)
         \/ \E v : StartRecovery(r, v) \/ RestartPublish(r, v),
         Landed \subseteq Landed'
  PROVE  /\ \E x : req' = [req EXCEPT ![r] = x] /\ SlotRetained(x)'
         /\ \A j \in journal' : j \in journal \/ (j.phase = "prepared" => j.commit = 0)
<1> DEFINE i == req[r].intent
           Goal == /\ \E x : req' = [req EXCEPT ![r] = x] /\ SlotRetained(x)'
                   /\ \A j \in journal' : j \in journal \/ (j.phase = "prepared" => j.commit = 0)
<1>0. /\ Shape /\ Retained /\ PhaseOK(req[r]) /\ SlotRetained(req[r]) /\ i \in Intent
      /\ \A j \in journal : EntryOK(j, Len(commits), Landed) /\ j \in Intent
  BY ShapeFacts DEF Whole, Story, Remembered, Shape, EntryOK, Retained
<1>1. ASSUME UNCHANGED journal, NEW x, SlotRetained(x), req' = [req EXCEPT ![r] = x]
      PROVE  Goal
  <2>1. SlotRetained(x)'
    BY <1>1 DEF SlotRetained, Recoverable, Unfinished
  <2> QED
    BY <1>1, <2>1
<1>2. SlotRetained(Idle)'
  BY DEF SlotRetained, Idle, Slot, NoIntent, Working
<1>3. \A p : /\ Marked(i, p).phase = p /\ Marked(i, p).commit = i.commit
  BY <1>0 DEF Marked, Intent
<1> SUFFICES Goal
  OBVIOUS
<1> HIDE DEF Goal
<1>4. CASE Refuse(r) \/ VerifyStops(r) \/ FinishRefused(r) \/ CompareStops(r)
  BY <1>1, <1>4, IdleRetained DEF Refuse, VerifyStops, FinishRefused, CompareStops, Done
<1>5. CASE AbandonIntent(r) \/ Finish(r) \/ FinishCompared(r) \/ FinishStops(r)
  <2>1. \A j \in journal' : j \in journal \/ \E p \in {"failed", "committed", "complete"} : j = Marked(i, p)
    BY <1>5 DEF AbandonIntent, Finish, FinishCompared, FinishStops, Replaced
  <2>2. req' = [req EXCEPT ![r] = Idle]
    BY <1>5 DEF AbandonIntent, Finish, FinishCompared, FinishStops, Done
  <2> QED
    BY <1>2, <1>3, <2>1, <2>2 DEF Goal
<1>6. CASE JoinIntent(r) \/ \E v : StartRecovery(r, v)
  <2>1. journal' = journal
    BY <1>6 DEF JoinIntent, StartRecovery
  <2>2. Done(r) \/ \E j \in journal : Goto(r, "verify", j) /\ j.phase # "failed" /\ j.commit # 0
    BY <1>6 DEF JoinIntent, StartRecovery, SameKeyIntents, Reconcile, Found, Matching
  <2>3. ASSUME NEW j \in journal, j.phase # "failed" PROVE SlotRetained(Slot("verify", j, 0))
    BY <1>0, <2>3 DEF EntryOK, SlotRetained, Slot, Retained, Recoverable, Unfinished
  <2> QED
    BY <1>1, <2>1, <2>2, <2>3, IdleRetained DEF Done, Goto
<1>7. CASE StartPublish(r)
  <2>1. /\ journal' = journal
        /\ \E base : req' = [req EXCEPT ![r] = Slot("getHead", Plan(drafts, base), 0)]
    BY <1>7 DEF StartPublish, Goto
  <2>2. \A base : SlotRetained(Slot("getHead", Plan(drafts, base), 0))
    BY DEF SlotRetained, Slot, Plan, Working
  <2> QED
    BY <1>1, <2>1, <2>2
<1>8. ASSUME NEW v, RestartPublish(r, v)
      PROVE  Goal
  <2>1. PICK prior \in journal :
          /\ journal' = Replaced(prior, Marked(prior, "failed"))
          /\ IF v = drafts THEN Goto(r, "getHead", Plan(v, prior.base)) ELSE UNCHANGED req
    BY <1>8 DEF RestartPublish
  <2>2. \A j \in journal' : j \in journal \/ j.phase # "prepared"
    BY <1>0, <2>1 DEF Replaced, Marked, Intent
  <2>3. UNCHANGED main
    BY <1>8 DEF RestartPublish, remote
  <2>4. CASE v = drafts
    <3>1. \A x : x = Slot("getHead", Plan(v, prior.base), 0) => SlotRetained(x)'
      BY DEF SlotRetained, Slot, Plan, Working
    <3> QED
      BY <2>1, <2>2, <2>4, <3>1 DEF Goal, Goto
  <2>5. CASE v # drafts
    <3>1. req' = [req EXCEPT ![r] = req[r]]
      BY <1>0, <2>1, <2>5 DEF Shape
    <3>2. SlotRetained(req[r]) /\ \A c \in Nat \ {0} : Recoverable(c) => Recoverable(c)' \/ c \in Landed
      BY <1>0, <1>8, LocalRetains DEF Completes
    <3>3. req[r].pc = "idle"
      BY <1>8 DEF RestartPublish
    <3>4. \A x : x = req[r] => SlotRetained(x)'
      BY <3>2, <3>3 DEF SlotRetained, Working
    <3> QED
      BY <2>2, <3>1, <3>4 DEF Goal
  <2> QED
    BY <2>4, <2>5
<1>9. CASE CreateIntent(r)
  <2> DEFINE k == [Keyed(r) EXCEPT !.id = intents + 1]
  <2>1. /\ journal' = Trimmed \cup {k} /\ Trimmed \subseteq journal
        /\ req' = [req EXCEPT ![r] = Slot("createCommit", k, 0)]
        /\ req[r].pc = "gotHead"
    BY <1>9 DEF CreateIntent, Goto, BaseIsHead, AnyHead, Trimmed
  <2>2. k.commit = 0
    BY <1>0, <2>1 DEF Keyed, Intent, PhaseOK, SlotRetained
  <2> HIDE DEF k
  <2>3. \A x : x = Slot("createCommit", k, 0) => SlotRetained(x)'
    BY <2>2 DEF SlotRetained, Slot, Working
  <2> QED
    BY <2>1, <2>2, <2>3 DEF Goal
<1>10. CASE RecordCommit(r)
  <2> DEFINE k == [i EXCEPT !.phase = "ref-pending", !.commit = req[r].seen]
  <2>1. journal' = Replaced(i, k) /\ req' = [req EXCEPT ![r] = Slot("updateHead", k, 0)]
    BY <1>10 DEF RecordCommit, Goto
  <2>2. k.phase = "ref-pending" /\ k \in journal'
    BY <1>0, <2>1 DEF Intent, Replaced
  <2> HIDE DEF k
  <2>3. \A x : x = Slot("updateHead", k, 0) => SlotRetained(x)'
    BY <2>2 DEF SlotRetained, Slot, Recoverable, Unfinished
  <2>4. \A j \in journal' : j \in journal \/ j = k
    BY <2>1 DEF Replaced
  <2> QED
    BY <2>1, <2>2, <2>3, <2>4 DEF Goal
<1>11. CASE GitHub(r) \/ HeadNotUpdated(r) \/ RetryHead(r)
  <2>1. journal' = journal
    BY <1>11 DEF GitHub, GetHead, CreateCommit, UpdateHead, Verify, HeadNotUpdated, RetryHead
  <2> DEFINE Moves(pcs) == \E v : \E pc \in pcs : req' = [req EXCEPT ![r] = Slot(pc, i, v)]
  <2>2. \/ Done(r)
        \/ \E pc, v : /\ req' = [req EXCEPT ![r] = Slot(pc, i, v)]
                      /\ pc \in Working => req[r].pc \in Working
    <3>1. CASE GetHead(r) \/ CreateCommit(r)
      <4>1. Moves({"gotHead", "gotCommit"})
        BY <3>1 DEF GetHead, CreateCommit, Answer
      <4> QED
        BY <4>1 DEF Working
    <3>2. CASE UpdateHead(r) \/ Verify(r) \/ RetryHead(r) \/ HeadNotUpdated(r)
      <4>1. req[r].pc \in Working
        BY <3>2 DEF UpdateHead, Verify, RetryHead, HeadNotUpdated, Working
      <4>2. Done(r) \/ Moves(Working)
        BY <3>2 DEF UpdateHead, Verify, RetryHead, HeadNotUpdated, Answer, Goto, Working
      <4> QED
        BY <4>1, <4>2
    <3> QED
      BY <1>11, <3>1, <3>2 DEF GitHub
  <2>3. \A pc, v : (pc \in Working => req[r].pc \in Working) => SlotRetained(Slot(pc, i, v))
    BY <1>0 DEF SlotRetained, Slot
  <2> QED
    BY <1>1, <2>1, <2>2, <2>3, IdleRetained DEF Done
<1>12. CASE FinishCompares(r)
  <2> DEFINE k == Marked(i, "committed")
             x == [Slot("compare", k, 0) EXCEPT !.prev = receipt]
  <2>1. journal' = Replaced(i, k) /\ req' = [req EXCEPT ![r] = x]
    BY <1>12 DEF FinishCompares
  <2>2. x.intent = k /\ k.commit \in Landed' /\ k.phase = "committed"
    BY <1>0, <1>3, <1>12, ConfirmedLanded DEF Slot, FinishCompares
  <2> HIDE DEF x, k
  <2>3. \A y : y = x => SlotRetained(y)'
    BY <2>2 DEF SlotRetained
  <2>4. \A j \in journal' : j \in journal \/ j = k
    BY <2>1 DEF Replaced
  <2> QED
    BY <2>1, <2>2, <2>3, <2>4 DEF Goal
<1> QED
  BY <1>4, <1>5, <1>6, <1>7, <1>8, <1>9, <1>10, <1>11, <1>12 DEF Local
\* The slots and the entries of the journal after a step of a request.
LEMMA SlotsRetained ==
  ASSUME Whole, NEW r \in Requests,
         \/ Local(r) \/ GitHub(r) \/ CompareStops(r) \/ FinishStops(r) \/ StartPublish(r)
         \/ \E v : StartRecovery(r, v) \/ RestartPublish(r, v),
         Landed \subseteq Landed'
  PROVE  /\ \A j \in journal' : j.phase = "prepared" => j.commit = 0
         /\ \A q \in Requests : SlotRetained(req[q])'
<1>0. Retained /\ Shape
  BY DEF Whole, Story
<1>1. PICK x : req' = [req EXCEPT ![r] = x] /\ SlotRetained(x)'
  BY NextSlotRetained
<1>2. \A c \in Nat \ {0} : Recoverable(c) => Recoverable(c)' \/ c \in Landed'
  BY LocalRetains DEF Completes
<1>3. ASSUME NEW y, SlotOK(y, Len(commits), Landed), SlotRetained(y) PROVE SlotRetained(y)'
  <2>1. y.pc \in Working => y.intent.commit \in Nat \ {0}
    BY <1>3, <1>0 DEF SlotOK, EntryOK, Shape, RemoteOK
  <2> QED
    BY <1>2, <1>3, <2>1 DEF SlotRetained
<1>4. \A q \in Requests : req'[q] = req[q] \/ req'[q] = x
  BY <1>0, <1>1 DEF Shape
<1>5. \A q \in Requests : SlotRetained(req[q]) /\ SlotOK(req[q], Len(commits), Landed)
  BY <1>0 DEF Shape, Retained
<1>6. \A q \in Requests : \A y : y = req'[q] => SlotRetained(y)'
  BY <1>1, <1>3, <1>4, <1>5
<1>7. \A j \in journal' : j.phase = "prepared" => j.commit = 0
  BY <1>0, NextSlotRetained DEF Retained
<1> QED
  BY <1>6, <1>7

\* A draft on main stays recoverable while it is on the screen.
LEMMA RequestRetains ==
  ASSUME Whole, Shape', NEW r \in Requests,
         \/ Local(r) \/ GitHub(r) \/ CompareStops(r) \/ FinishStops(r) \/ StartPublish(r)
         \/ \E v : StartRecovery(r, v) \/ RestartPublish(r, v)
  PROVE  Retained'
<1> DEFINE i == req[r].intent
<1>0. Shape /\ Lineage /\ Carried /\ Retained
  BY DEF Whole, Story
<1>1. \A n \in 1..Len(commits) : commits'[n] = commits[n]
  <2>1. CASE CreateCommit(r)
    BY <1>0, <2>1, CommitCarried
  <2>2. CASE ~CreateCommit(r)
    <3>1. commits' = commits
      BY <2>2 DEF Local, GitHub, StartRecovery, RestartPublish, StartPublish, JoinIntent, Refuse,
             CreateIntent, RecordCommit, AbandonIntent, HeadNotUpdated, VerifyStops, RetryHead,
             FinishRefused, Finish, FinishCompares, FinishCompared, FinishStops, GetHead, UpdateHead,
             Verify, CompareStops, remote
    <3> QED
      BY <3>1
  <2> QED
    BY <2>1, <2>2
<1>2. \/ Landed' = Landed
      \/ UpdateHead(r) /\ Landed \subseteq Landed' /\ Landed' \subseteq Landed \cup {i.commit}
  <2>1. CASE UpdateHead(r)
    <3>1. Landed \subseteq Landed'
      BY <1>0, <2>1, HeadCarried
    <3>2. main \in Seq(1..Len(commits)) /\ (main' = main \/ main' = Append(main, i.commit))
      BY <1>0, <2>1 DEF UpdateHead, Shape, RemoteOK
    <3>3. \A n \in DOMAIN main' : (n \in DOMAIN main /\ main'[n] = main[n]) \/ main'[n] = i.commit
      BY <3>2
    <3> QED
      BY <2>1, <3>1, <3>3 DEF Landed
  <2>2. CASE ~UpdateHead(r)
    <3>1. main' = main
      BY <2>2 DEF Local, GitHub, StartRecovery, RestartPublish, StartPublish, JoinIntent, Refuse,
             CreateIntent, RecordCommit, AbandonIntent, HeadNotUpdated, VerifyStops, RetryHead,
             FinishRefused, Finish, FinishCompares, FinishCompared, FinishStops, GetHead, CreateCommit,
             Verify, CompareStops, remote
    <3> QED
      BY <3>1 DEF Landed
  <2> QED
    BY <2>1, <2>2
<1>3. ASSUME NEW c \in Landed', NEW k \in Kinds, drafts'[k] # 0, drafts'[k] = commits'[c].reviewed[k]
      PROVE  Recoverable(c)'
  <2>1. drafts'[k] = drafts[k]
    BY <1>3, LocalDrafts
  <2>2. CASE c \in Landed
    <3>1. c \in 1..Len(commits) /\ c \in Nat \ {0}
      BY <1>0, <2>2 DEF Landed, Shape, RemoteOK
    <3>2. Recoverable(c)
      BY <1>0, <1>1, <1>3, <2>1, <2>2, <3>1 DEF Retained, PublishedDraftRecoverable, Recoverable
    <3>3. CASE c = i.commit /\ Completes(r)
      <4>1. commits[c].reviewed = i.reviewed
        BY <1>0, <3>1, <3>3 DEF Carried, SlotSound, IsOf
      <4> QED
        BY <1>1, <1>3, <2>1, <3>1, <3>3, <4>1 DEF Completes, Cleared
    <3> QED
      BY <3>1, <3>2, <3>3, LocalRetains
  <2>3. CASE c \notin Landed
    <3>1. UpdateHead(r) /\ c = i.commit
      BY <1>2, <1>3, <2>3
    <3>2. Recoverable(c)
      BY <1>0, <2>3, <3>1 DEF Retained, SlotRetained, UpdateHead, Working
    <3> QED
      BY <3>1, <3>2 DEF UpdateHead, Recoverable, Unfinished
  <2> QED
    BY <2>2, <2>3
<1>4. PublishedDraftRecoverable'
  BY <1>3 DEF PublishedDraftRecoverable, Recoverable
<1>5. /\ \A j \in journal' : j.phase = "prepared" => j.commit = 0
      /\ \A q \in Requests : SlotRetained(req[q])'
  BY <1>2, SlotsRetained
<1> QED
  BY <1>4, <1>5 DEF Retained

\* A push by someone else, and the owner's edits, which make new revisions.
LEMMA OtherRetains ==
  ASSUME Whole, \/ \E k \in Edited : SaveDraft(k) \/ DiscardDraft(k)
                \/ Crash \/ ExternalPush \/ Deploy \/ AgeIntent \/ UNCHANGED vars
  PROVE  Retained'
<1>0. Shape /\ Lineage /\ Carried /\ Retained
  BY DEF Whole, Story
<1>1. journal' = journal /\ \A r \in Requests : req'[r] \in {req[r], Idle}
  BY DEF SaveDraft, DiscardDraft, Crash, ExternalPush, Deploy, AgeIntent, vars
<1>2. /\ Landed \subseteq Landed'
      /\ \A n \in 1..Len(commits) : commits'[n] = commits[n]
      /\ \A c \in Landed' : c \in Landed \/ commits'[c].reviewed = NoDrafts
  <2>1. CASE ExternalPush
    <3>1. main' = Append(main, Len(commits) + 1) /\ main \in Seq(1..Len(commits)) /\ Len(commits) \in Nat
      BY <1>0, <2>1 DEF ExternalPush, Shape, RemoteOK
    <3>2. \A n \in DOMAIN main' : (n \in DOMAIN main /\ main'[n] = main[n]) \/ main'[n] = Len(commits) + 1
      BY <3>1
    <3>3. \A c \in Landed' : c \in Landed \/ c = Len(commits) + 1
      BY <3>2 DEF Landed
    <3>4. Len(commits) + 1 \in 1..Len(commits') /\ Len(commits) + 1 \notin 1..Len(commits)
      <4>1. PICK x : commits' = Append(commits, x)
        BY <2>1 DEF ExternalPush
      <4> QED
        BY <1>0, <4>1, <3>1 DEF Shape, RemoteOK
    <3> QED
      BY <1>0, <2>1, <3>3, <3>4, PushCarried
  <2>2. CASE ~ExternalPush
    <3>1. UNCHANGED <<commits, main>>
      BY <2>2 DEF SaveDraft, DiscardDraft, Crash, Deploy, AgeIntent, vars, remote
    <3> QED
      BY <3>1 DEF Landed
  <2> QED
    BY <2>1, <2>2
<1>3. \A x : SlotRetained(x) => SlotRetained(x)'
  BY <1>1, <1>2 DEF SlotRetained, Recoverable, Unfinished
<1>4. \A r \in Requests : \A x : x = req'[r] => SlotRetained(x)'
  BY <1>0, <1>1, <1>3, IdleRetained DEF Retained
<1>5. ASSUME NEW c \in Landed', NEW k \in Kinds, drafts'[k] # 0, drafts'[k] = commits'[c].reviewed[k]
      PROVE  Recoverable(c)'
  <2>1. c \in Landed /\ c \in 1..Len(commits)
    <3>1. NoDrafts[k] = 0
      BY DEF NoDrafts
    <3>2. c \in Landed
      BY <1>2, <1>5, <3>1
    <3> QED
      BY <1>0, <3>2 DEF Landed, Shape, RemoteOK
  <2>2. drafts'[k] \in 1..Len(baseOf)
    BY <1>0, <1>2, <1>5, <2>1 DEF Lineage, Rooted, SavedOn
  <2>3. drafts'[k] = drafts[k]
    <3>1. ASSUME NEW j \in Edited, SaveDraft(j) \/ DiscardDraft(j)
          PROVE  drafts'[k] = drafts[k]
      <4>1. drafts' = [drafts EXCEPT ![j] = 0] \/ drafts' = [drafts EXCEPT ![j] = Len(baseOf) + 1]
        BY <3>1 DEF SaveDraft, DiscardDraft
      <4>2. drafts \in [Kinds -> 0..Len(baseOf)] /\ Len(baseOf) \in Nat
        BY <1>0 DEF Shape, RemoteOK
      <4> QED
        BY <1>5, <2>2, <4>1, <4>2
    <3>2. CASE Crash \/ ExternalPush \/ Deploy \/ AgeIntent \/ UNCHANGED vars
      BY <3>2 DEF Crash, ExternalPush, Deploy, AgeIntent, vars
    <3> QED
      BY <3>1, <3>2
  <2>4. Recoverable(c)
    BY <1>0, <1>2, <1>5, <2>1, <2>3 DEF Retained, PublishedDraftRecoverable, Recoverable
  <2> QED
    BY <1>1, <2>4 DEF Recoverable, Unfinished
<1>6. PublishedDraftRecoverable'
  BY <1>5 DEF PublishedDraftRecoverable, Recoverable
<1> QED
  BY <1>0, <1>1, <1>4, <1>6 DEF Retained

LEMMA WholeStarts == Init => Whole
<1> SUFFICES ASSUME Init PROVE Whole
  OBVIOUS
<1>1. Retained
  BY IdleRetained DEF Init, Retained, PublishedDraftRecoverable, NoDrafts
<1> QED
  BY <1>1, StoryStarts, JournalStarts DEF Whole

LEMMA WholeKept == Whole /\ [Next]_vars => Whole'
<1> SUFFICES ASSUME Whole, [Next]_vars PROVE Whole'
  OBVIOUS
<1>1. Story' /\ Admitted' /\ Remembered' /\ Shape'
  BY StoryKept, JournalStep, ShapeKept DEF Whole, Story
<1>2. Retained'
  BY <1>1, RequestRetains, OtherRetains DEF Next
<1> QED
  BY <1>1, <1>2 DEF Whole

\* While a draft that is already on main is still on the owner's screen, the
\* journal holds the unfinished intent that a retry needs: it is written
\* before the branch is touched, never dropped from a full journal, and
\* completed only after the drafts are cleared.
THEOREM PublishedRecoverable == Spec => []PublishedDraftRecoverable
<1>1. Whole => PublishedDraftRecoverable
  BY DEF Whole, Retained
<1> QED
  BY <1>1, WholeStarts, WholeKept, PTL DEF Spec

-----------------------------------------------------------------------------
(* The service publication is to its callers, step by step.  Moving the    *)
(* branch is the landing: Story says that the commit is new, right after   *)
(* its base and what was reviewed; Reviewing, that something was.  What    *)
(* finishes a request is an acknowledgement of a commit of main, refusals  *)
(* are reported failures; seen from outside, the rest is no step at all.   *)

\* Every intent, in the journal or in a request, reviews some draft.
Reviewing ==
  /\ \A i \in journal : i.reviewed # NoDrafts
  /\ \A r \in Requests : req[r].pc # "idle" => req[r].intent.reviewed # NoDrafts

\* The versions are within their bound.
Counted == Len(commits) <= MaxCommits

LEMMA ReviewingLocal ==
  ASSUME Shape, Reviewing, NEW r \in Requests, ReviewStep(r)
  PROVE  Reviewing'
<1>1. PICK x : Reviews(r, x)
  BY DEF ReviewStep
<1>2. x = Idle \/ x.intent.reviewed # NoDrafts
  BY <1>1 DEF Reviews, Reviewing, SameReview
<1>3. \A q \in Requests : req'[q].pc # "idle" => req'[q].intent.reviewed # NoDrafts
  BY <1>1, <1>2 DEF Reviews, Reviewing, Shape, Idle, Slot
<1>4. \A i \in journal' : i.reviewed # NoDrafts
  BY <1>1 DEF Reviews, Reviewing, SameReview
<1> QED
  BY <1>3, <1>4 DEF Reviewing

\* A publication starts with a draft, or from an intent that had one.
LEMMA ReviewingStarts ==
  ASSUME Shape, Reviewing, NEW r \in Requests, NEW v,
         StartPublish(r) \/ RestartPublish(r, v)
  PROVE  Reviewing'
<1>1. CASE StartPublish(r)
  <2>1. PICK base : Bases(drafts) = {base} /\ Goto(r, "getHead", Plan(drafts, base))
    BY <1>1 DEF StartPublish
  <2>2. drafts # NoDrafts
    <3>1. PICK k \in Kinds : drafts[k] # 0
      BY <2>1 DEF Bases
    <3> QED
      BY <3>1 DEF NoDrafts
  <2>3. Slot("getHead", Plan(drafts, base), 0).intent.reviewed = drafts /\ journal' = journal
    BY <1>1 DEF Slot, Plan, StartPublish
  <2> QED
    BY <2>1, <2>2, <2>3 DEF Goto, Reviewing, Shape
<1>2. CASE RestartPublish(r, v)
  <2>1. PICK prior \in journal :
          /\ Found(prior, v)
          /\ journal' = Replaced(prior, Marked(prior, "failed"))
          /\ IF v = drafts THEN Goto(r, "getHead", Plan(v, prior.base)) ELSE UNCHANGED req
    BY <1>2 DEF RestartPublish
  <2>2. prior.reviewed = v /\ prior \in Intent
    BY <2>1 DEF Found, Matching, Shape, EntryOK
  <2>3. v # NoDrafts /\ Marked(prior, "failed").reviewed = v
    BY <2>2 DEF Reviewing, Marked, Intent
  <2>4. \A i \in journal' : i.reviewed # NoDrafts
    BY <2>1, <2>3 DEF Replaced, Reviewing
  <2>5. Slot("getHead", Plan(v, prior.base), 0).intent.reviewed = v
    BY DEF Slot, Plan
  <2>6. \A q \in Requests : req'[q].pc # "idle" => req'[q].intent.reviewed # NoDrafts
    BY <2>1, <2>3, <2>5 DEF Goto, Reviewing, Shape
  <2> QED
    BY <2>4, <2>6 DEF Reviewing
<1> QED
  BY <1>1, <1>2

LEMMA ReviewingKept == Shape /\ Reviewing /\ [Next]_vars => Reviewing'
<1> SUFFICES ASSUME Shape, Reviewing, [Next]_vars PROVE Reviewing'
  OBVIOUS
<1>1. ASSUME NEW r \in Requests,
             StartPublish(r) \/ \E v \in Reviewable : RestartPublish(r, v)
      PROVE  Reviewing'
  BY <1>1, ReviewingStarts
<1>2. ASSUME NEW r \in Requests,
             \/ Local(r) \/ GetHead(r) \/ Verify(r) \/ CompareStops(r) \/ FinishStops(r)
             \/ \E v \in Reviewable : StartRecovery(r, v)
      PROVE  Reviewing'
  BY <1>2, LocalReviews, ReviewingLocal
<1>3. ASSUME NEW r \in Requests, CreateCommit(r) \/ UpdateHead(r) PROVE Reviewing'
  <2>1. journal' = journal /\ req[r].pc # "idle"
    BY <1>3 DEF CreateCommit, UpdateHead
  <2>2. PICK pc, v : req' = [req EXCEPT ![r] = Slot(pc, req[r].intent, v)]
    BY <1>3 DEF CreateCommit, UpdateHead, Answer
  <2>3. Slot(pc, req[r].intent, v).intent = req[r].intent
    BY DEF Slot
  <2> QED
    BY <2>1, <2>2, <2>3 DEF Reviewing, Shape
<1>4. CASE Crash
  BY <1>4 DEF Crash, Reviewing, Idle, Slot
<1>5. CASE \/ ExternalPush \/ Deploy \/ AgeIntent \/ UNCHANGED vars
           \/ \E k \in Edited : SaveDraft(k) \/ DiscardDraft(k)
  <2>1. UNCHANGED <<journal, req>>
    BY <1>5 DEF ExternalPush, Deploy, AgeIntent, vars, SaveDraft, DiscardDraft
  <2> QED
    BY <2>1 DEF Reviewing
<1> QED
  BY <1>1, <1>2, <1>3, <1>4, <1>5 DEF Next, GitHub

LEMMA CountedKept == Shape /\ Counted /\ [Next]_vars => Counted'
<1> SUFFICES ASSUME Shape, Counted, [Next]_vars PROVE Counted'
  OBVIOUS
<1>1. /\ commits \in Seq(Commit) /\ Len(commits) \in Nat /\ MaxCommits \in Nat
  BY PublicationConstants DEF Shape, RemoteOK
<1>2. ASSUME Len(commits) < MaxCommits, NEW c, commits' = Append(commits, c) PROVE Counted'
  BY <1>1, <1>2 DEF Counted
<1>3. ASSUME NEW r \in Requests, CreateCommit(r) PROVE Counted'
  BY <1>2, <1>3 DEF CreateCommit, Counted
<1>4. CASE ExternalPush
  <2>1. Len(commits) < MaxCommits
    BY <1>1, <1>4 DEF ExternalPush
  <2> QED
    BY <1>2, <1>4, <2>1 DEF ExternalPush
<1>5. CASE UNCHANGED commits
  BY <1>5 DEF Counted
<1>6. \/ UNCHANGED commits \/ ExternalPush \/ \E r \in Requests : CreateCommit(r)
  BY DEF Next, Local, GitHub, SaveDraft, DiscardDraft, StartRecovery, RestartPublish, StartPublish,
         JoinIntent, Refuse, CreateIntent, RecordCommit, AbandonIntent, HeadNotUpdated, VerifyStops, RetryHead,
         FinishRefused, Finish, FinishCompares, FinishCompared, GetHead, UpdateHead, Verify, CompareStops,
         FinishStops, Crash, Deploy, AgeIntent, remote, vars
<1> QED
  BY <1>3, <1>4, <1>5, <1>6

Served == Story /\ Reviewing /\ Counted

LEMMA ServedStarts == Init => Served
<1> SUFFICES ASSUME Init PROVE Served
  OBVIOUS
<1>1. Reviewing
  BY DEF Init, Reviewing, Idle, Slot
<1>2. Counted
  <2>1. Len(commits) = 1
    BY DEF Init
  <2> QED
    BY <2>1, PublicationConstants DEF Counted
<1> QED
  BY <1>1, <1>2, StoryStarts DEF Served

LEMMA ServedKept == Served /\ [Next]_vars => Served'
BY StoryKept, ReviewingKept, CountedKept DEF Served, Story

-----------------------------------------------------------------------------
(* The abstract service, step by step.                                     *)

-----------------------------------------------------------------------------
(* What a retry finds.                                                     *)

\* The drafts that were reviewed determine the version they were saved on, and
\* with it, while the running version only moves forward, all that is published.
LEMMA ReviewDetermines ==
  ASSUME Story, Reviewing, ~Rollback, NEW i \in journal, NEW j \in journal, i.reviewed = j.reviewed
  PROVE  SameKey(i, j)
<1>0. i \in Intent /\ j \in Intent
  BY DEF Story, Shape, EntryOK
<1>1. PICK k \in Kinds : i.reviewed[k] # 0
  <2>1. i.reviewed # NoDrafts /\ i.reviewed \in [Kinds -> Nat]
    BY <1>0 DEF Reviewing, Intent, Revisions
  <2> QED
    BY <2>1 DEF NoDrafts
<1>2. SavedOn(i.reviewed, i.base, baseOf) /\ SavedOn(j.reviewed, j.base, baseOf)
  BY DEF Story, Lineage, Based
<1>3. i.base = j.base
  BY <1>1, <1>2 DEF SavedOn
<1>4. Exact(i.reviewed, i.base, i.content) /\ Exact(j.reviewed, j.base, j.content)
  BY DEF Story, Carried, EntrySound, ExactIntent
<1>5. \A l \in Kinds : i.content[l] = j.content[l]
  BY <1>3, <1>4 DEF Exact, Reviewing
<1>6. i.content = j.content
  <2>1. i.content \in [Kinds -> Nat] /\ j.content \in [Kinds -> Nat]
    BY <1>0 DEF Intent, Revisions
  <2> QED
    BY <1>5, <2>1
<1> QED
  BY <1>3, <1>6 DEF SameKey

LEMMA RetriesFind == Whole /\ Reviewing => RetryFinds
<1> SUFFICES ASSUME Whole, Reviewing, ~Rollback, NEW i \in journal, Unfinished(i)
             PROVE  /\ Found(i, i.reviewed)
                    /\ i.commit \in Landed => i.commit # 0 /\ ~Expired(i)
  BY DEF RetryFinds
<1>0. Story /\ Shape /\ i \in Intent
  BY DEF Whole, Story, Shape, EntryOK
<1>1. i \in Matching(i.reviewed)
  BY DEF Matching, Unfinished
<1>2. ASSUME NEW j \in Matching(i.reviewed) PROVE j.id <= i.id
  <2>1. j \in journal /\ j.phase # "failed" /\ i.phase # "failed" /\ i.reviewed = j.reviewed
    BY <1>1 DEF Matching
  <2>2. SameKey(i, j)
    BY <1>0, <2>1, ReviewDetermines
  <2>3. i = j
    BY <2>1, <2>2 DEF Whole, Admitted, OneIntentPerKey
  <2> QED
    BY <1>0, <2>3 DEF Intent
<1>3. ASSUME i.commit \in Landed PROVE i.commit # 0 /\ ~Expired(i)
  <2>1. i.commit # 0
    <3>1. Landed \subseteq 1..Len(commits)
      BY <1>0 DEF Shape, RemoteOK, Landed
    <3> QED
      BY <1>3, <3>1
  <2> QED
    BY <2>1 DEF Whole, Retained, Expired
<1> QED
  BY <1>1, <1>2, <1>3 DEF Found

-----------------------------------------------------------------------------
(* How long a request lasts.                                               *)

Nearer(r) == AwaitsLeft[req'[r].pc] < AwaitsLeft[req[r].pc]

LEMMA AwaitsOf ==
  \A pc \in Awaits \cup {"idle"} : AwaitsLeft[pc] \in 0..11 /\ (pc # "idle" => AwaitsLeft[pc] > 0)
BY DEF Awaits, AwaitsLeft

LEMMA AwaitsOrder ==
  /\ AwaitsLeft["idle"] = 0 /\ AwaitsLeft["compare"] = 1 /\ AwaitsLeft["headRetried"] = 2
  /\ AwaitsLeft["retryHead"] = 3 /\ AwaitsLeft["verified"] = 4 /\ AwaitsLeft["verify"] = 5
  /\ AwaitsLeft["headUpdated"] = 6 /\ AwaitsLeft["updateHead"] = 7
  /\ AwaitsLeft["gotCommit"] = 8 /\ AwaitsLeft["createCommit"] = 9
  /\ AwaitsLeft["gotHead"] = 10 /\ AwaitsLeft["getHead"] = 11
BY DEF AwaitsLeft

\* A step that moves one request to a later stage.
Moves(r, from, to) ==
  \E x : /\ req' = [req EXCEPT ![r] = x]
         /\ req[r].pc \in from /\ x.pc \in to

LEMMA MovesNearer ==
  ASSUME Shape, NEW r \in Requests, NEW from, NEW to, Moves(r, from, to),
         \A a \in from, b \in to : AwaitsLeft[b] < AwaitsLeft[a]
  PROVE  \A q \in Requests : req[q].pc # "idle" /\ req'[q] # req[q] => Nearer(q)
<1>1. PICK x : req' = [req EXCEPT ![r] = x] /\ req[r].pc \in from /\ x.pc \in to
  BY DEF Moves
<1>2. AwaitsLeft[x.pc] < AwaitsLeft[req[r].pc]
  BY <1>1
<1> QED
  BY <1>1, <1>2 DEF Shape, Nearer

LEMMA SlotMoves ==
  ASSUME NEW r \in Requests, NEW pc, NEW i, NEW v, req' = [req EXCEPT ![r] = Slot(pc, i, v)],
         NEW from, req[r].pc \in from, NEW to, pc \in to
  PROVE  Moves(r, from, to)
<1>1. Slot(pc, i, v).pc = pc
  BY DEF Slot
<1> QED
  BY <1>1 DEF Moves

LEMMA LocalNearer ==
  ASSUME Shape, NEW r \in Requests, Local(r)
  PROVE  \A q \in Requests : req[q].pc # "idle" /\ req'[q] # req[q] => Nearer(q)
<1>1. CASE JoinIntent(r)
  <2>1. Moves(r, {"gotHead"}, {"idle", "verify"})
    BY <1>1, SlotMoves DEF JoinIntent, BaseIsHead, AnyHead, Reconcile, Done, Goto, Idle
  <2> QED
    BY <2>1, MovesNearer, AwaitsOrder
<1>2. CASE Refuse(r)
  <2>1. Moves(r, {"gotHead"}, {"idle"})
    BY <1>2, SlotMoves DEF Refuse, HeadUnread, BaseMoved, IntentRefused, BaseIsHead, AnyHead, Done, Idle
  <2> QED
    BY <2>1, MovesNearer, AwaitsOrder
<1>3. CASE CreateIntent(r)
  <2>1. Moves(r, {"gotHead"}, {"createCommit"})
    BY <1>3, SlotMoves DEF CreateIntent, BaseIsHead, AnyHead, Goto
  <2> QED
    BY <2>1, MovesNearer, AwaitsOrder
<1>4. CASE RecordCommit(r)
  <2>1. Moves(r, {"gotCommit"}, {"updateHead"})
    BY <1>4, SlotMoves DEF RecordCommit, Goto
  <2> QED
    BY <2>1, MovesNearer, AwaitsOrder
<1>5. CASE AbandonIntent(r)
  <2>1. Moves(r, {"gotCommit"}, {"idle"})
    BY <1>5, SlotMoves DEF AbandonIntent, Done, Idle
  <2> QED
    BY <2>1, MovesNearer, AwaitsOrder
<1>6. CASE VerifyStops(r)
  <2>1. Moves(r, {"verified"}, {"idle"})
    BY <1>6, SlotMoves DEF VerifyStops, Done, Idle
  <2> QED
    BY <2>1, MovesNearer, AwaitsOrder
<1>7. CASE RetryHead(r)
  <2>1. Moves(r, {"verified"}, {"retryHead"})
    BY <1>7, SlotMoves DEF RetryHead, Goto
  <2> QED
    BY <2>1, MovesNearer, AwaitsOrder
<1>8. CASE FinishRefused(r) \/ Finish(r) \/ FinishCompares(r)
  <2>1. Moves(r, {"headUpdated", "headRetried", "verified"}, {"idle", "compare"})
    <3>1. CASE FinishCompares(r)
      <4> DEFINE x == [Slot("compare", Marked(req[r].intent, "committed"), 0) EXCEPT !.prev = receipt]
      <4>1. x.pc = "compare" /\ req' = [req EXCEPT ![r] = x]
        BY <3>1 DEF FinishCompares, Slot
      <4>2. req[r].pc \in {"headUpdated", "headRetried", "verified"}
        BY <3>1 DEF FinishCompares, Confirmed
      <4> HIDE DEF x
      <4> QED
        BY <4>1, <4>2 DEF Moves
    <3>2. CASE FinishRefused(r) \/ Finish(r)
      BY <3>2, SlotMoves DEF FinishRefused, Finish, Confirmed, Done, Idle
    <3> QED
      BY <1>8, <3>1, <3>2
  <2> QED
    BY <2>1, MovesNearer, AwaitsOrder
<1>9. CASE FinishCompared(r)
  <2>1. Moves(r, {"compare"}, {"idle"})
    BY <1>9, SlotMoves DEF FinishCompared, Done, Idle
  <2> QED
    BY <2>1, MovesNearer, AwaitsOrder
<1>10. CASE HeadNotUpdated(r)
  <2>1. Moves(r, {"headUpdated"}, {"verify"}) \/ Moves(r, {"headRetried"}, {"idle"})
    BY <1>10, SlotMoves DEF HeadNotUpdated, Goto, Done, Idle
  <2>2. CASE Moves(r, {"headUpdated"}, {"verify"})
    BY <2>2, MovesNearer, AwaitsOrder
  <2>3. CASE Moves(r, {"headRetried"}, {"idle"})
    BY <2>3, MovesNearer, AwaitsOrder
  <2> QED
    BY <2>1, <2>2, <2>3
<1> QED
  BY <1>1, <1>2, <1>3, <1>4, <1>5, <1>6, <1>7, <1>8, <1>9, <1>10 DEF Local

LEMMA GitHubNearer ==
  ASSUME Shape, NEW r \in Requests, GitHub(r)
  PROVE  \A q \in Requests : req[q].pc # "idle" /\ req'[q] # req[q] => Nearer(q)
<1>1. CASE GetHead(r)
  <2>1. Moves(r, {"getHead"}, {"gotHead"})
    BY <1>1, SlotMoves DEF GetHead, Answer
  <2> QED
    BY <2>1, MovesNearer, AwaitsOrder
<1>2. CASE CreateCommit(r)
  <2>1. Moves(r, {"createCommit"}, {"gotCommit"})
    BY <1>2, SlotMoves DEF CreateCommit, Answer
  <2> QED
    BY <2>1, MovesNearer, AwaitsOrder
<1>3. CASE Verify(r)
  <2>1. Moves(r, {"verify"}, {"verified"})
    BY <1>3, SlotMoves DEF Verify, Answer
  <2> QED
    BY <2>1, MovesNearer, AwaitsOrder
<1>4. CASE UpdateHead(r)
  <2>1. Moves(r, {"updateHead"}, {"headUpdated"}) \/ Moves(r, {"retryHead"}, {"headRetried"})
    BY <1>4, SlotMoves DEF UpdateHead, Answer
  <2>2. CASE Moves(r, {"updateHead"}, {"headUpdated"})
    BY <2>2, MovesNearer, AwaitsOrder
  <2>3. CASE Moves(r, {"retryHead"}, {"headRetried"})
    BY <2>3, MovesNearer, AwaitsOrder
  <2> QED
    BY <2>1, <2>2, <2>3
<1> QED
  BY <1>1, <1>2, <1>3, <1>4 DEF GitHub

LEMMA StartsIdle ==
  ASSUME Shape, NEW r \in Requests,
         StartPublish(r) \/ \E v : StartRecovery(r, v) \/ RestartPublish(r, v)
  PROVE  \A q \in Requests : req[q].pc # "idle" => req'[q] = req[q]
<1>1. req[r].pc = "idle" /\ \E x : req' = [req EXCEPT ![r] = x]
  BY DEF StartPublish, StartRecovery, RestartPublish, Goto, Shape
<1> QED
  BY <1>1 DEF Shape

\* The end of a request, by a failed write, a failed comparison or a crash.
LEMMA EndsNearer ==
  ASSUME Shape, NEW q \in Requests, req[q].pc # "idle", req'[q] = Idle
  PROVE  Nearer(q)
<1>1. req[q].pc \in Awaits \cup {"idle"}
  BY DEF Shape, Request
<1>2. req'[q].pc = "idle" /\ AwaitsLeft["idle"] = 0
  BY DEF Idle, Slot, AwaitsLeft
<1> QED
  BY <1>1, <1>2, AwaitsOf DEF Nearer

LEMMA RequestsNearer ==
  ASSUME Shape, [Next]_vars
  PROVE  \A q \in Requests : req[q].pc # "idle" /\ req'[q] # req[q] => Nearer(q)
<1>1. ASSUME NEW r \in Requests, CompareStops(r) \/ FinishStops(r)
      PROVE  \A q \in Requests : req[q].pc # "idle" /\ req'[q] # req[q] => Nearer(q)
  <2>1. req' = [req EXCEPT ![r] = Idle]
    BY <1>1 DEF CompareStops, FinishStops, Done
  <2>2. \A q \in Requests : req'[q] \in {Idle, req[q]}
    BY <2>1 DEF Shape
  <2> QED
    BY <2>2, EndsNearer
<1>2. CASE Crash
  <2>1. \A q \in Requests : req'[q] = Idle
    BY <1>2 DEF Crash
  <2> QED
    BY <2>1, EndsNearer
<1>3. CASE \/ \E k \in Edited : SaveDraft(k) \/ DiscardDraft(k)
           \/ ExternalPush \/ Deploy \/ AgeIntent \/ UNCHANGED vars
  BY <1>3 DEF SaveDraft, DiscardDraft, ExternalPush, Deploy, AgeIntent, vars
<1> QED
  BY <1>1, <1>2, <1>3, LocalNearer, GitHubNearer, StartsIdle DEF Next

\* Every request ends: whatever the answers and the others' steps, each of its
\* own steps leaves it fewer of eleven awaits (publish, reconcileIntent,
\* finishCommitted), for any number of requests, intents and commits.
THEOREM RequestsAreBounded == Spec => RequestsEnd
<1> DEFINE Step == \A r \in Requests :
                     req[r].pc # "idle" /\ req'[r] # req[r] =>
                       AwaitsLeft[req'[r].pc] < AwaitsLeft[req[r].pc]
<1>1. Shape /\ [Next]_vars => Step
  BY RequestsNearer DEF Nearer
<1> HIDE DEF Step
<1>2. Shape /\ [Next]_vars => [Step]_vars
  BY <1>1
<1>3. Spec => [][Step]_vars
  BY <1>2, ShapeStarts, ShapeKept, PTL DEF Spec
<1> QED
  BY <1>3, PTL DEF RequestsEnd, Step

\* Requests for one review on one base share one intent, the journal never
\* holds more intents, or unfinished ones, than it admits, and while no older
\* version is redeployed a retry finds the unfinished publication it is for
\* (createPublicationIntent, updatePublicationIntent, findPublicationIntent),
\* for any limits.
THEOREM JournalAdmits == Spec => []JournalSound
<1>1. Init => Whole /\ Reviewing
  BY WholeStarts, ServedStarts DEF Served
<1>2. Whole /\ Reviewing /\ [Next]_vars => (Whole /\ Reviewing)'
  BY WholeKept, ReviewingKept DEF Whole, Story
<1>3. Whole /\ Reviewing => JournalSound
  BY RetriesFind DEF Whole, Admitted, JournalSound
<1> QED
  BY <1>1, <1>2, <1>3, PTL DEF Spec


\* What the mapping shows of main.
LEMMA Outside ==
  ASSUME Shape
  PROVE  /\ DOMAIN History = DOMAIN main /\ Len(History) = Len(main)
         /\ \A n \in DOMAIN main : /\ History[n].version = main[n]
                                   /\ History[n].reviewed = commits[main[n]].reviewed
                                   /\ History[n].content = commits[main[n]].content
         /\ Service!Newest.version = Tip
         /\ Service!Newest.content = commits[Tip].content
         /\ Service!Nothing = NoDrafts
<1>1. /\ DOMAIN main = 1..Len(main) /\ Len(main) \in Nat /\ Len(main) \in DOMAIN main
  BY DEF Shape, RemoteOK
<1>2. DOMAIN History = 1..Len(main) /\ Len(History) = Len(main)
  BY <1>1 DEF History
<1>3. \A n \in DOMAIN main : /\ History[n].version = main[n]
                             /\ History[n].reviewed = commits[main[n]].reviewed
                             /\ History[n].content = commits[main[n]].content
  BY DEF History
<1>4. Service!Newest.version = Tip /\ Service!Newest.content = commits[Tip].content
  BY <1>1, <1>2, <1>3 DEF Service!Newest, Tip
<1>5. Service!Nothing = NoDrafts
  BY DEF Service!Nothing, NoDrafts
<1> QED
  BY <1>1, <1>2, <1>3, <1>4, <1>5

LEMMA FollowsIsAncestor ==
  ASSUME Shape, NEW v, NEW w
  PROVE  Service!Follows(v, w) <=> IsAncestor(v, w)
BY Outside DEF Service!Follows, IsAncestor

\* Nothing changes outside while main is as it was.
LEMMA HistoryStays ==
  ASSUME Shape, main' = main, \A c \in 1..Len(commits) : commits'[c] = commits[c]
  PROVE  History' = History
<1>1. \A n \in DOMAIN main : main[n] \in 1..Len(commits)
  BY DEF Shape, RemoteOK
<1> QED
  BY <1>1 DEF History

\* A commit that is appended to main is seen as an entry.
LEMMA HistoryGrows ==
  ASSUME Shape, NEW c, main' = Append(main, c), c \notin Landed,
         \A d \in 1..Len(commits) : commits'[d] = commits[d]
  PROVE  /\ History' = Append(History, Service!Entry(c, commits'[c].reviewed, commits'[c].content))
         /\ Service!Fresh(c)
<1> DEFINE e == Service!Entry(c, commits'[c].reviewed, commits'[c].content)
<1>1. /\ Len(main) \in Nat /\ DOMAIN main = 1..Len(main)
      /\ \A n \in DOMAIN main : main[n] \in 1..Len(commits) /\ main[n] # c
  BY DEF Shape, RemoteOK, Landed
<1>2. /\ Len(main') = Len(main) + 1 /\ DOMAIN main' = 1..(Len(main) + 1)
      /\ \A n \in 1..Len(main) : main'[n] = main[n]
      /\ main'[Len(main) + 1] = c
  BY <1>1 DEF Shape, RemoteOK
<1>3. History \in Seq({History[n] : n \in DOMAIN main})
  BY <1>1 DEF History
<1>4. /\ DOMAIN Append(History, e) = 1..(Len(main) + 1)
      /\ \A n \in 1..Len(main) : Append(History, e)[n] = History[n]
      /\ Append(History, e)[Len(main) + 1] = e
  BY <1>1, <1>3, Outside
<1>5. \A n \in 1..(Len(main) + 1) : History'[n] = Append(History, e)[n]
  <2> SUFFICES ASSUME NEW n \in 1..(Len(main) + 1) PROVE History'[n] = Append(History, e)[n]
    OBVIOUS
  <2>1. History'[n] = [version |-> main'[n], reviewed |-> commits'[main'[n]].reviewed,
                       content |-> commits'[main'[n]].content]
    BY <1>2 DEF History
  <2>2. CASE n \in 1..Len(main)
    BY <1>1, <1>2, <1>4, <2>1, <2>2 DEF History
  <2>3. CASE n = Len(main) + 1
    BY <1>2, <1>4, <2>1, <2>3 DEF Service!Entry
  <2>4. Len(main) \in Nat
    BY <1>1
  <2>5. n \in 1..Len(main) \/ n = Len(main) + 1
    BY <2>4
  <2> QED
    BY <2>2, <2>3, <2>5
<1>6. History' = [n \in 1..(Len(main) + 1) |-> History'[n]]
  BY <1>2 DEF History
<1>7. Append(History, e) = [n \in 1..(Len(main) + 1) |-> Append(History, e)[n]]
  BY <1>1, <1>3, <1>4
<1>8. History' = Append(History, e)
  BY <1>5, <1>6, <1>7
<1>9. Service!Fresh(c)
  BY <1>1, Outside DEF Service!Fresh
<1> QED
  BY <1>8, <1>9

\* A step that leaves all this alone is not seen.
LEMMA Unseen ==
  ASSUME Shape, UNCHANGED <<drafts, baseOf, receipt, main, deployed>>,
         \A c \in 1..Len(commits) : commits'[c] = commits[c]
  PROVE  UNCHANGED Service!serviceVars
<1>1. History' = History
  BY HistoryStays
<1>2. Recorded' = Recorded
  BY DEF Recorded
<1> QED
  BY <1>1, <1>2 DEF Service!serviceVars

\* The review of a commit that follows the tip is not on main yet.
LEMMA ReviewIsNew ==
  ASSUME Shape, Lineage, NEW c \in 1..Len(commits), commits[c].parent = Tip,
         commits[c].reviewed # NoDrafts, NEW n \in DOMAIN main
  PROVE  commits[main[n]].reviewed # commits[c].reviewed
<1> SUFFICES ASSUME commits[main[n]].reviewed = commits[c].reviewed PROVE FALSE
  OBVIOUS
<1>1. /\ main[n] \in 1..Len(commits) /\ n \in 1..Len(main) /\ DOMAIN main = 1..Len(main)
      /\ Len(main) \in Nat
  BY DEF Shape, RemoteOK
<1>2. n > 1 /\ n - 1 \in 1..Len(main)
  <2>1. n # 1
    BY DEF Lineage, Chain
  <2> QED
    BY <1>1, <2>1
<1>3. PICK k \in Kinds : commits[c].reviewed[k] # 0
  <2>1. commits[c] \in Commit
    BY DEF Shape, RemoteOK
  <2>2. commits[c].reviewed \in [Kinds -> Nat]
    BY <2>1 DEF Commit, Revisions
  <2> QED
    BY <2>2 DEF NoDrafts
<1>4. commits[main[n]].parent = commits[c].parent
  BY <1>1, <1>3 DEF Lineage, Rooted, SavedOn
<1>5. main[n - 1] = main[Len(main)]
  BY <1>1, <1>2, <1>4 DEF Lineage, Chain, Tip
<1>6. n - 1 = Len(main)
  BY <1>1, <1>2, <1>5 DEF Lineage, Chain
<1> QED
  BY <1>1, <1>6

\* The revisions of a review are in range.
LEMMA RevisionsInRange ==
  ASSUME NEW n \in Nat, NEW f \in [Kinds -> Nat], \A k \in Kinds : f[k] # 0 => f[k] \in 1..n
  PROVE  f \in [Kinds -> 0..n]
<1>1. \A k \in Kinds : f[k] \in 0..n
  OBVIOUS
<1> QED
  BY <1>1

\* A branch update that takes effect lands one review, whole.
LEMMA HeadServes ==
  ASSUME Served, ~Rollback, NEW r \in Requests, UpdateHead(r)
  PROVE  [Service!ServiceNext]_Service!serviceVars
<1> DEFINE c == req[r].intent.commit
<1>0. Shape /\ Lineage /\ Carried /\ Placed /\ Reviewing /\ Counted
  BY DEF Served, Story
<1>1. UNCHANGED <<drafts, baseOf, receipt, commits, deployed>>
  BY DEF UpdateHead
<1>2. CASE main' = main
  BY <1>0, <1>1, <1>2, Unseen
<1>3. CASE FastForward(c) /\ main' = Append(main, c)
  <2>1. c \in 1..Len(commits) /\ commits[c].parent = Tip /\ c # 0 /\ req[r].pc # "idle"
    BY <1>0, <1>3, ShapeFacts DEF UpdateHead, SlotOK, Working, EntryOK, FastForward
  <2> DEFINE v == commits[c].reviewed
  <2>2. c \notin Landed
    BY <1>0, <2>1, ChildIsNew DEF Lineage
  <2>3. v # NoDrafts
    BY <1>0, <2>1 DEF Carried, SlotSound, IsOf, Reviewing
  <2>4. v \in [Kinds -> Nat] /\ commits[c].content \in [Kinds -> Nat]
    <3>1. commits[c] \in Commit
      BY <1>0, <2>1 DEF Shape, RemoteOK
    <3> QED
      BY <3>1 DEF Commit, Revisions
  <2>5. \A k \in Kinds : v[k] # 0 => v[k] \in 1..Len(baseOf) /\ baseOf[v[k]] = Tip
    BY <1>0, <2>1 DEF Lineage, Rooted, SavedOn
  <2>6. \A k \in Kinds : commits[c].content[k] = IF v[k] # 0 THEN v[k] ELSE commits[Tip].content[k]
    BY <1>0, <2>1, <2>3 DEF Placed, Exact
  <2>7. v \in [Kinds -> 0..Len(baseOf)]
    <3>1. Len(baseOf) \in Nat
      BY <1>0 DEF Shape, RemoteOK
    <3>2. \A k \in Kinds : v[k] # 0 => v[k] \in 1..Len(baseOf)
      BY <2>5
    <3> HIDE DEF v
    <3> QED
      BY <2>4, <3>1, <3>2, RevisionsInRange
  <2>8. Service!Over(v) = commits[c].content
    <3>1. Service!Over(v) = [k \in Kinds |-> IF v[k] # 0 THEN v[k] ELSE commits[Tip].content[k]]
      BY <1>0, Outside DEF Service!Over
    <3>2. commits[c].content = [k \in Kinds |-> commits[c].content[k]]
      BY <2>4
    <3> QED
      BY <2>6, <3>1, <3>2
  <2>9. /\ History' = Append(History, Service!Entry(c, v, Service!Over(v)))
        /\ Service!Fresh(c)
    BY <1>0, <1>1, <1>3, <2>2, <2>8, HistoryGrows
  <2>10. \A n \in DOMAIN History : History[n].reviewed # v
    BY <1>0, <2>1, <2>3, ReviewIsNew, Outside
  <2>11. Recorded' = Recorded
    BY <1>1 DEF Recorded
  <2>12. Service!ServiceLand(c, v)
    BY <1>0, <1>1, <2>3, <2>5, <2>9, <2>10, <2>11, Outside DEF Service!ServiceLand
  <2>13. c \in 1..MaxCommits
    <3>1. Len(commits) \in Nat /\ MaxCommits \in Nat
      BY <1>0, PublicationConstants DEF Shape, RemoteOK
    <3> QED
      BY <1>0, <2>1, <3>1 DEF Counted
  <2> QED
    BY <2>7, <2>12, <2>13 DEF Service!ServiceNext
<1> QED
  BY <1>2, <1>3 DEF UpdateHead

\* A finish, however far it gets, acknowledges a publication that landed.
LEMMA FinishServes ==
  ASSUME Served, NEW r \in Requests, Finish(r) \/ FinishCompared(r) \/ FinishStops(r)
  PROVE  Service!ServiceNext
<1> DEFINE i == req[r].intent
           cleared == {k \in Kinds : drafts'[k] # drafts[k]}
<1>0. Shape /\ Carried /\ Reviewing
  BY DEF Served, Story
<1>1. UNCHANGED <<baseOf, commits, main, deployed>>
  BY DEF Finish, FinishCompared, FinishStops, remote
<1>2. i.commit \in Landed /\ req[r].pc # "idle"
  <2>1. CASE Confirmed(r)
    BY <1>0, <2>1, ConfirmedLanded DEF Confirmed
  <2>2. CASE req[r].pc = "compare"
    BY <1>0, <2>2, ShapeFacts DEF SlotOK
  <2> QED
    BY <2>1, <2>2 DEF Finish, FinishCompared, FinishStops
<1>3. i.commit # 0 /\ commits[i.commit].reviewed = i.reviewed /\ i.reviewed # NoDrafts
  <2>1. i.commit # 0
    BY <1>0, <1>2 DEF Landed, Shape, RemoteOK
  <2> QED
    BY <1>0, <1>2, <2>1 DEF Carried, SlotSound, IsOf, Reviewing
<1>4. PICK n \in DOMAIN main : main[n] = i.commit
  BY <1>2 DEF Landed
<1>5. History' = History
  BY <1>0, <1>1, HistoryStays
<1>6. drafts \in [Kinds -> 0..Len(baseOf)]
  BY <1>0, ShapeFacts
<1>7. /\ \A k \in cleared : drafts[k] = i.reviewed[k]
      /\ drafts' = [k \in Kinds |-> IF k \in cleared THEN 0 ELSE drafts[k]]
  <2>1. drafts' = drafts \/ \E kinds : drafts' = Cleared(i, kinds)
    BY DEF Finish, FinishCompared, FinishStops
  <2>2. CASE drafts' = drafts
    BY <1>6, <2>2
  <2>3. ASSUME NEW kinds, drafts' = Cleared(i, kinds)
        PROVE  /\ \A k \in cleared : drafts[k] = i.reviewed[k]
               /\ drafts' = [k \in Kinds |-> IF k \in cleared THEN 0 ELSE drafts[k]]
    BY <1>6, <2>3 DEF Cleared
  <2> QED
    BY <2>1, <2>2, <2>3
<1>8. \/ Recorded' = Recorded
      \/ /\ Recorded # 0 => Service!Follows(Recorded, i.commit)
         /\ Recorded' = i.commit
  <2>1. CASE receipt' = receipt
    BY <2>1 DEF Recorded
  <2>2. CASE receipt' = Published(i.commit)
    <3>1. Recorded' = i.commit /\ receipt'.kind = "published" /\ receipt'.commit = i.commit
      BY <2>2 DEF Recorded, Published
    <3>2. ASSUME Recorded # 0 PROVE Service!Follows(Recorded, i.commit)
      <4>1. receipt.kind = "published" /\ Recorded = receipt.commit
        BY <3>2 DEF Recorded
      <4>2. IsAncestor(receipt.commit, i.commit)
        BY <1>0, <3>1, <4>1, FinishAdvances
      <4> QED
        BY <1>0, <4>1, <4>2, FollowsIsAncestor
    <3> QED
      BY <3>1, <3>2
  <2> QED
    BY <2>1, <2>2 DEF Finish, FinishCompared, FinishStops
<1> HIDE DEF cleared
<1>9. Service!ServiceAcknowledge(n, cleared)
  <2>1. /\ History[n].reviewed = i.reviewed /\ History[n].version = i.commit
        /\ Service!Nothing = NoDrafts
    BY <1>0, <1>3, <1>4, Outside
  <2> QED
    BY <1>1, <1>3, <1>5, <1>7, <1>8, <2>1 DEF Service!ServiceAcknowledge
<1>10. n \in DOMAIN History /\ cleared \in SUBSET Kinds
  BY <1>0, Outside DEF cleared
<1> QED
  BY <1>9, <1>10 DEF Service!ServiceNext

LEMMA PushServes ==
  ASSUME Served, ExternalPush
  PROVE  Service!ServiceNext
<1> DEFINE c == Len(commits) + 1
<1>0. Shape /\ Counted
  BY DEF Served, Story
<1>1. /\ UNCHANGED <<drafts, receipt, deployed>> /\ main' = Append(main, c)
      /\ c <= MaxCommits
  BY DEF ExternalPush
<1>2. PICK content :
        /\ \/ content = commits[Tip].content
           \/ \E k \in Kinds : content = [commits[Tip].content EXCEPT ![k] = Len(baseOf) + 1]
        /\ commits' = Append(commits, [parent |-> Tip, content |-> content, reviewed |-> NoDrafts])
        /\ baseOf' = IF content = commits[Tip].content THEN baseOf ELSE Append(baseOf, 0)
  BY DEF ExternalPush
<1>3. /\ Len(commits) \in Nat /\ MaxCommits \in Nat
      /\ \A d \in 1..Len(commits) : commits'[d] = commits[d]
      /\ commits'[c].content = content /\ commits'[c].reviewed = NoDrafts
  BY <1>0, <1>2, PublicationConstants DEF Shape, RemoteOK
<1>4. c \notin Landed /\ c \in 1..MaxCommits
  BY <1>0, <1>1, <1>3 DEF Landed, Shape, RemoteOK
<1> HIDE DEF c
<1>5. /\ History' = Append(History, Service!Entry(c, NoDrafts, content))
      /\ Service!Fresh(c)
  BY <1>0, <1>1, <1>3, <1>4, HistoryGrows
<1>6. Recorded' = Recorded
  BY <1>1 DEF Recorded
<1>7. Service!Nothing = NoDrafts /\ Service!Newest.content = commits[Tip].content
  BY <1>0, Outside
<1>8. \/ /\ History' = Append(History, Service!Entry(c, Service!Nothing, Service!Newest.content))
         /\ UNCHANGED baseOf
      \/ /\ \E k \in Kinds :
              History' = Append(History, Service!Entry(c, Service!Nothing,
                                   [Service!Newest.content EXCEPT ![k] = Len(baseOf) + 1]))
         /\ baseOf' = Append(baseOf, 0)
  <2>1. CASE content = commits[Tip].content
    BY <1>2, <1>5, <1>7, <2>1
  <2>2. CASE content # commits[Tip].content
    <3>1. PICK k \in Kinds : content = [commits[Tip].content EXCEPT ![k] = Len(baseOf) + 1]
      BY <1>2, <2>2
    <3>2. History' = Append(History, Service!Entry(c, Service!Nothing,
                                   [Service!Newest.content EXCEPT ![k] = Len(baseOf) + 1]))
      BY <1>5, <1>7, <3>1
    <3> QED
      BY <1>2, <2>2, <3>2
  <2> QED
    BY <2>1, <2>2
<1>9. Service!ServicePush(c)
  BY <1>1, <1>5, <1>6, <1>8 DEF Service!ServicePush
<1> QED
  BY <1>4, <1>9 DEF Service!ServiceNext

\* The steps of the owner, of a deployment, and of a request that fails.
LEMMA OthersServe ==
  ASSUME Served, ~Rollback,
         \/ \E k \in Edited : SaveDraft(k) \/ DiscardDraft(k)
         \/ Deploy
         \/ \E r \in Requests : Refuse(r) \/ AbandonIntent(r)
  PROVE  [Service!ServiceNext]_Service!serviceVars
<1>0. Shape /\ Counted
  BY DEF Served, Story
<1>1. History' = History
  BY <1>0, HistoryStays DEF SaveDraft, DiscardDraft, Deploy, Refuse, AbandonIntent, remote
<1>2. ASSUME NEW k \in Edited, SaveDraft(k) PROVE Service!ServiceNext
  <2>1. Service!ServiceSave(k)
    BY <1>1, <1>2 DEF SaveDraft, remote, Recorded, Service!ServiceSave
  <2> QED
    BY <2>1 DEF Service!ServiceNext
<1>3. ASSUME NEW k \in Edited, DiscardDraft(k) PROVE Service!ServiceNext
  <2>1. Service!ServiceDiscard(k)
    BY <1>1, <1>3 DEF DiscardDraft, remote, Recorded, Service!ServiceDiscard
  <2> QED
    BY <2>1 DEF Service!ServiceNext
<1>4. CASE Deploy
  <2>1. PICK c \in Landed : IsAncestor(deployed, c) /\ deployed' = c
    BY <1>4 DEF Deploy
  <2>2. c \in 1..MaxCommits
    <3>1. c \in 1..Len(commits) /\ Len(commits) \in Nat /\ MaxCommits \in Nat
      BY <1>0, <2>1, PublicationConstants DEF Landed, Shape, RemoteOK
    <3> QED
      BY <1>0, <3>1 DEF Counted
  <2>3. Service!ServiceDeploy(c)
    BY <1>0, <1>1, <1>4, <2>1, FollowsIsAncestor DEF Deploy, Recorded, Service!ServiceDeploy
  <2> QED
    BY <2>2, <2>3 DEF Service!ServiceNext
<1>5. ASSUME NEW r \in Requests, Refuse(r) \/ AbandonIntent(r)
      PROVE  [Service!ServiceNext]_Service!serviceVars
  <2>1. UNCHANGED <<drafts, baseOf, commits, main, deployed>>
    BY <1>5 DEF Refuse, AbandonIntent, remote
  <2>2. receipt' = receipt \/ receipt' \in {Refused("conflict"), Refused("failed")}
    BY <1>5 DEF Refuse, AbandonIntent, WriteReceipt
  <2>3. CASE receipt' = receipt
    BY <1>0, <2>1, <2>3, Unseen
  <2>4. CASE receipt' \in {Refused("conflict"), Refused("failed")}
    <3>1. Recorded' = 0
      BY <2>4 DEF Recorded, Refused
    <3> QED
      BY <1>1, <2>1, <3>1 DEF Service!ServiceReportsFailure, Service!ServiceNext
  <2> QED
    BY <2>2, <2>3, <2>4
<1> QED
  BY <1>2, <1>3, <1>4, <1>5

LEMMA NextServes ==
  ASSUME Served, ~Rollback, [Next]_vars
  PROVE  [Service!ServiceNext]_Service!serviceVars
<1>0. Shape
  BY DEF Served, Story
<1>1. ASSUME NEW r \in Requests, UpdateHead(r) PROVE [Service!ServiceNext]_Service!serviceVars
  BY <1>1, HeadServes
<1>2. ASSUME NEW r \in Requests, Finish(r) \/ FinishCompared(r) \/ FinishStops(r)
      PROVE  Service!ServiceNext
  BY <1>2, FinishServes
<1>3. CASE ExternalPush
  BY <1>3, PushServes
<1>4. CASE \/ \E k \in Edited : SaveDraft(k) \/ DiscardDraft(k)
           \/ Deploy
           \/ \E r \in Requests : Refuse(r) \/ AbandonIntent(r)
  BY <1>4, OthersServe
<1>5. ASSUME NEW r \in Requests, CreateCommit(r) PROVE UNCHANGED Service!serviceVars
  <2>1. UNCHANGED <<drafts, baseOf, receipt, main, deployed>>
    BY <1>5 DEF CreateCommit
  <2>2. \A c \in 1..Len(commits) : commits'[c] = commits[c]
    BY <1>0, <1>5 DEF CreateCommit, Shape, RemoteOK
  <2> QED
    BY <1>0, <2>1, <2>2, Unseen
<1>6. CASE UNCHANGED <<drafts, baseOf, receipt, commits, main, deployed>>
  BY <1>0, <1>6, Unseen
<1>7. \/ UNCHANGED <<drafts, baseOf, receipt, commits, main, deployed>>
      \/ \E r \in Requests :
           UpdateHead(r) \/ Finish(r) \/ FinishCompared(r) \/ FinishStops(r) \/ Refuse(r)
             \/ AbandonIntent(r) \/ CreateCommit(r)
      \/ \E k \in Edited : SaveDraft(k) \/ DiscardDraft(k)
      \/ ExternalPush \/ Deploy
  BY DEF Next, Local, GitHub, StartRecovery, RestartPublish, StartPublish, JoinIntent, CreateIntent,
         RecordCommit, HeadNotUpdated, VerifyStops, RetryHead, FinishRefused, FinishCompares, GetHead,
         Verify, CompareStops, Crash, AgeIntent, remote, vars
<1> QED
  BY <1>1, <1>2, <1>3, <1>4, <1>5, <1>6, <1>7

LEMMA InitServes == Init => Service!ServiceInit
<1> SUFFICES ASSUME Init PROVE Service!ServiceInit
  OBVIOUS
<1>1. Service!Nothing = NoDrafts
  BY DEF Service!Nothing, NoDrafts
<1>2. History = <<Service!Entry(1, NoDrafts, NoDrafts)>>
  <2>1. DOMAIN main = 1..1 /\ main[1] = 1 /\ commits[1].reviewed = NoDrafts /\ commits[1].content = NoDrafts
    BY DEF Init
  <2>2. History = [n \in 1..1 |-> Service!Entry(1, NoDrafts, NoDrafts)]
    BY <2>1 DEF History, Service!Entry
  <2> QED
    BY <2>2
<1>3. Recorded = 0
  BY DEF Init, Recorded, NoReceipt
<1> QED
  BY <1>1, <1>2, <1>3 DEF Init, Service!ServiceInit

\* While no older version is redeployed, publication is the service that its
\* callers rely on (publishDrafts and finishCommitted, whatever happens to a
\* request between two awaits): one review lands at one instant, once, whole,
\* on the version it was made for, and what is acknowledged has landed.
THEOREM PublicationServes ==
  ASSUME ~Rollback
  PROVE  Spec => KeepsPublicationService
<1>1. Init => Service!ServiceInit
  BY InitServes
<1>2. Served /\ [Next]_vars => [Service!ServiceNext]_Service!serviceVars
  BY NextServes
<1> QED
  BY <1>1, <1>2, ServedStarts, ServedKept, PTL
     DEF Spec, KeepsPublicationService, Service!ServiceSpec

------------------------------------------------------------------------------
(* The catalogue and its addresses, for any projects and names.  A draft   *)
(* that was saved on the version served keeps its links (WordsSound); one  *)
(* that is published without having been carried over was written on the   *)
(* head, which is then what is served (VersionsSound).                     *)

ProjectRecords == [id : Ids, slug : Names, aliases : SUBSET Names, binds : SUBSET Services]
WordsSound(w) ==
  /\ w.projects \subseteq ProjectRecords /\ ParseProjects(w.projects)
  /\ w.from \in Nat /\ w.base \in Nat /\ w.from <= w.base /\ w.base <= running.version
  /\ ~rebased /\ w.from = running.version => LinksResolve(w.projects)
VersionsSound ==
  /\ head.version \in Nat /\ running.version \in Nat /\ running.version <= head.version
  /\ running.version = head.version => running = head
  /\ head.projects \subseteq ProjectRecords /\ running.projects \subseteq ProjectRecords
  /\ ParseProjects(head.projects) /\ ParseProjects(running.projects)
CatalogueInv ==
  /\ VersionsSound
  /\ words # NoDraft => WordsSound(words)
  /\ ~rebased => LinksResolve(running.projects) /\ LinksResolve(head.projects)

-----------------------------------------------------------------------------
(* Addresses in a catalogue that is parsed.                                *)

LEMMA OneOwner ==
  ASSUME NEW projects, ParseProjects(projects), NEW p \in projects, NEW slug \in Identifiers(p)
  PROVE  Resolves(slug, projects) = {p.id}
<1>1. \A q \in projects : slug \in Identifiers(q) => q = p
  BY DEF ParseProjects
<1>2. {q \in projects : slug \in Identifiers(q)} = {p}
  BY <1>1
<1> QED
  BY <1>2 DEF Resolves

\* A project that keeps what it answered to keeps every link.
LEMMA ReplacingKeepsLinks ==
  ASSUME NEW projects, NEW p \in projects, NEW candidate,
         candidate.id = p.id, Identifiers(p) \subseteq Identifiers(candidate),
         ParseProjects((projects \ {p}) \cup {candidate}), LinksResolve(projects)
  PROVE  LinksResolve((projects \ {p}) \cup {candidate})
<1> SUFFICES ASSUME NEW l \in links
             PROVE  Resolves(l[1], (projects \ {p}) \cup {candidate}) = {l[2]}
  BY DEF LinksResolve
<1>1. Resolves(l[1], projects) = {l[2]}
  BY DEF LinksResolve
<1>2. PICK q \in projects : l[1] \in Identifiers(q) /\ q.id = l[2]
  BY <1>1 DEF Resolves
<1>3. PICK r \in (projects \ {p}) \cup {candidate} : l[1] \in Identifiers(r) /\ r.id = l[2]
  BY <1>2
<1> QED
  BY <1>3, OneOwner

LEMMA AddingKeepsLinks ==
  ASSUME NEW projects, NEW candidate, ParseProjects(projects \cup {candidate}),
         LinksResolve(projects)
  PROVE  LinksResolve(projects \cup {candidate})
<1> SUFFICES ASSUME NEW l \in links
             PROVE  Resolves(l[1], projects \cup {candidate}) = {l[2]}
  BY DEF LinksResolve
<1>1. Resolves(l[1], projects) = {l[2]}
  BY DEF LinksResolve
<1>2. PICK q \in projects \cup {candidate} : l[1] \in Identifiers(q) /\ q.id = l[2]
  BY <1>1 DEF Resolves
<1> QED
  BY <1>2, OneOwner

Renamed(p, slug, binds) ==
  PreserveAliases([p EXCEPT !.slug = slug, !.binds = binds], p.slug)

\* A rename keeps the former address as an alias, and the aliases before it.
LEMMA RenameKeepsAddresses ==
  ASSUME NEW p \in ProjectRecords, NEW slug \in Names, NEW binds \in SUBSET Services,
         NEW candidate, candidate = Renamed(p, slug, binds)
  PROVE  /\ candidate \in ProjectRecords /\ candidate.id = p.id
         /\ Identifiers(p) \subseteq Identifiers(candidate)
<1>1. p.slug # NoDraft
  BY CatalogueConstants DEF ProjectRecords
<1>2. PICK e : e = [p EXCEPT !.slug = slug, !.binds = binds]
  OBVIOUS
<1>3. /\ e \in ProjectRecords /\ e.id = p.id /\ e.slug = slug /\ e.aliases = p.aliases
  BY <1>2 DEF ProjectRecords
<1>4. CASE p.slug = slug
  <2>1. candidate = e
    BY <1>2, <1>3, <1>4 DEF Renamed, PreserveAliases
  <2> QED
    BY <1>3, <1>4, <2>1 DEF Identifiers
<1>5. CASE p.slug # slug
  <2>1. candidate = [e EXCEPT !.aliases = (@ \ {slug}) \cup {p.slug}]
    BY <1>1, <1>2, <1>3, <1>5 DEF Renamed, PreserveAliases
  <2>2. (e.aliases \ {slug}) \cup {p.slug} \in SUBSET Names
    BY <1>3 DEF ProjectRecords
  <2>3. candidate \in ProjectRecords
    BY <1>3, <2>1, <2>2 DEF ProjectRecords
  <2>4. /\ candidate.id = e.id /\ candidate.slug = slug
        /\ candidate.aliases = (e.aliases \ {slug}) \cup {p.slug}
    BY <1>3, <2>1 DEF ProjectRecords
  <2> QED
    BY <1>3, <2>3, <2>4 DEF Identifiers
<1> QED
  BY <1>4, <1>5

-----------------------------------------------------------------------------
(* The steps.                                                              *)

LEMMA CatalogueInvInit == CatInit => CatalogueInv
<1> SUFFICES ASSUME CatInit PROVE CatalogueInv
  OBVIOUS
<1>1. PICK id \in Ids, slug \in Names, binds \in SUBSET Services :
        head = [version |-> 1, windows |-> {},
                projects |-> {Project(id, slug, {}, binds)}]
  BY DEF CatInit
<1>2. PICK p : p = Project(id, slug, {}, binds)
  OBVIOUS
<1>3. p \in ProjectRecords /\ p.slug = slug /\ p.id = id /\ p.aliases = {}
  BY <1>2 DEF Project, ProjectRecords
<1>4. head.version = 1 /\ head.projects = {p} /\ running = head
  BY <1>1, <1>2 DEF CatInit
<1>5. ParseProjects({p})
  <2>1. Cardinality(p.aliases) <= MaxAliases
    BY <1>3, FS_EmptySet, CatalogueConstants
  <2> QED
    BY <1>3, <2>1 DEF ParseProjects
<1>6. VersionsSound
  BY <1>3, <1>4, <1>5 DEF VersionsSound
<1>7. LinksResolve({p})
  <2>1. \A l \in links : l[1] = p.slug /\ l[2] = p.id
    BY <1>4 DEF CatInit
  <2>2. Resolves(p.slug, {p}) = {p.id}
    BY <1>5, OneOwner DEF Identifiers
  <2> QED
    BY <2>1, <2>2 DEF LinksResolve
<1> QED
  BY <1>4, <1>6, <1>7 DEF CatInit, CatalogueInv

\* A save, of a bundle whose links resolve if those of the page do.
LEMMA SavedKeeps ==
  ASSUME CatalogueInv, NEW projects \in SUBSET ProjectRecords, Save(projects),
         LinksResolve(Shown) => LinksResolve(projects)
  PROVE  CatalogueInv'
<1>1. UNCHANGED <<head, running, links, rebased>> /\ ParseProjects(projects)
  BY DEF Save
<1>2. running.version \in Nat
  BY DEF CatalogueInv, VersionsSound
<1>3. PICK from : from = IF words = NoDraft THEN running.version ELSE words.from
  OBVIOUS
<1>4. words' = [projects |-> projects, base |-> running.version, from |-> from]
  BY <1>3 DEF Save
<1>5. from \in Nat /\ from <= running.version
  BY <1>2, <1>3 DEF CatalogueInv, WordsSound
<1>6. ASSUME ~rebased, from = running.version PROVE LinksResolve(projects)
  <2>1. LinksResolve(Shown)
    BY <1>3, <1>6 DEF Shown, CatalogueInv, WordsSound
  <2> QED
    BY <2>1
<1>7. words'.projects = projects /\ words'.base = running.version /\ words'.from = from
  BY <1>4
<1>8. WordsSound(words)'
  <2>1. LinksResolve(projects) => LinksResolve(projects)'
    BY <1>1 DEF LinksResolve
  <2> QED
    BY <1>1, <1>2, <1>5, <1>6, <1>7, <2>1 DEF WordsSound, LinksResolve
<1>9. VersionsSound' /\ (~rebased' => LinksResolve(running.projects)' /\ LinksResolve(head.projects)')
  BY <1>1 DEF CatalogueInv, VersionsSound, LinksResolve
<1> QED
  BY <1>8, <1>9 DEF CatalogueInv

LEMMA ShownSound ==
  ASSUME CatalogueInv
  PROVE  Shown \subseteq ProjectRecords
BY DEF Shown, CatalogueInv, WordsSound, VersionsSound

LEMMA EditKeeps ==
  ASSUME CatalogueInv, EditProject
  PROVE  CatalogueInv'
<1>0. PICK p \in Shown, slug \in Names, binds \in SUBSET Services :
        Save((Shown \ {p}) \cup {Renamed(p, slug, binds)})
  BY DEF EditProject, Renamed
<1>1. PICK candidate :
        candidate = Renamed(p, slug, binds) /\ Save((Shown \ {p}) \cup {candidate})
  BY <1>0
<1>2. p \in ProjectRecords
  BY ShownSound
<1>3. /\ candidate \in ProjectRecords /\ candidate.id = p.id
      /\ Identifiers(p) \subseteq Identifiers(candidate)
  BY <1>1, <1>2, RenameKeepsAddresses
<1>4. LinksResolve(Shown) => LinksResolve((Shown \ {p}) \cup {candidate})
  BY <1>1, <1>3, ReplacingKeepsLinks DEF Save
<1>5. (Shown \ {p}) \cup {candidate} \in SUBSET ProjectRecords
  BY <1>3, ShownSound
<1> QED
  BY <1>1, <1>4, <1>5, SavedKeeps

LEMMA NewKeeps ==
  ASSUME CatalogueInv, NewProject
  PROVE  CatalogueInv'
<1>1. PICK id \in Ids, slug \in Names, binds \in SUBSET Services :
        Save(Shown \cup {PreserveAliases(Project(id, slug, {}, binds), NoDraft)})
  BY DEF NewProject
<1>2. PICK candidate : candidate = PreserveAliases(Project(id, slug, {}, binds), NoDraft)
  OBVIOUS
<1>3. candidate \in ProjectRecords
  BY <1>2 DEF PreserveAliases, Project, ProjectRecords
<1>4. LinksResolve(Shown) => LinksResolve(Shown \cup {candidate})
  BY <1>1, <1>2, AddingKeepsLinks DEF Save
<1>5. Shown \cup {candidate} \in SUBSET ProjectRecords
  BY <1>3, ShownSound
<1> QED
  BY <1>1, <1>2, <1>4, <1>5, SavedKeeps

\* A draft that was never carried over was written on what is served.
LEMMA PublishKeeps ==
  ASSUME CatalogueInv, PublishWords
  PROVE  CatalogueInv'
<1>1. /\ words # NoDraft /\ words.base = head.version /\ words' = NoDraft
      /\ head' = [head EXCEPT !.version = @ + 1, !.projects = words.projects]
      /\ rebased' = (rebased \/ words.from # words.base)
      /\ running' = running /\ links' = links
  BY DEF PublishWords
<1>2. WordsSound(words)
  BY <1>1 DEF CatalogueInv
<1>3. running.version = head.version
  BY <1>1, <1>2 DEF CatalogueInv, VersionsSound, WordsSound
<1>4. running = head
  BY <1>3 DEF CatalogueInv, VersionsSound
<1>5. ASSUME ~rebased' PROVE LinksResolve(words.projects) /\ ~rebased
  BY <1>1, <1>2, <1>3, <1>5 DEF WordsSound
<1>6. head'.version = head.version + 1 /\ head'.projects = words.projects
  BY <1>1 DEF CatalogueInv, VersionsSound
<1>7. VersionsSound'
  BY <1>1, <1>2, <1>3, <1>6 DEF CatalogueInv, VersionsSound, WordsSound
<1>8. ~rebased' => LinksResolve(running.projects)' /\ LinksResolve(head.projects)'
  BY <1>1, <1>5, <1>6 DEF CatalogueInv, LinksResolve
<1> QED
  BY <1>1, <1>7, <1>8 DEF CatalogueInv

LEMMA WindowsKeep ==
  ASSUME CatalogueInv, CommitWindows
  PROVE  CatalogueInv'
<1>1. PICK windows : head' = [head EXCEPT !.version = @ + 1, !.windows = windows]
  BY DEF CommitWindows
<1>2. UNCHANGED <<running, words, links, rebased>>
  BY DEF CommitWindows
<1>3. head'.version = head.version + 1 /\ head'.projects = head.projects
  BY <1>1
<1>4. VersionsSound'
  BY <1>2, <1>3 DEF CatalogueInv, VersionsSound
<1>5. words # NoDraft => WordsSound(words)'
  BY <1>2 DEF CatalogueInv, WordsSound, LinksResolve
<1> QED
  BY <1>2, <1>3, <1>4, <1>5 DEF CatalogueInv, LinksResolve

LEMMA DeployKeeps ==
  ASSUME CatalogueInv, DeployHead
  PROVE  CatalogueInv'
<1>1. /\ running # head /\ running' = head /\ head' = head
      /\ links' = links \cup {<<p.slug, p.id>> : p \in head.projects}
      /\ words' = words /\ rebased' = rebased
  BY DEF DeployHead
<1>2. running.version < head.version
  BY <1>1 DEF CatalogueInv, VersionsSound
<1>3. VersionsSound'
  BY <1>1 DEF CatalogueInv, VersionsSound
<1>4. words # NoDraft => WordsSound(words)'
  <2> SUFFICES ASSUME words # NoDraft PROVE WordsSound(words)'
    OBVIOUS
  <2>1. /\ words.from \in Nat /\ words.base \in Nat /\ words.from <= words.base
        /\ words.base <= running.version
    BY DEF CatalogueInv, WordsSound
  <2>2. words.base <= head.version /\ words.from # head.version
    BY <1>2, <2>1 DEF CatalogueInv, VersionsSound
  <2> QED
    BY <1>1, <2>1, <2>2 DEF CatalogueInv, WordsSound
<1>5. ASSUME ~rebased, NEW l \in links' PROVE Resolves(l[1], head.projects) = {l[2]}
  <2>1. CASE l \in links
    BY <1>5, <2>1 DEF CatalogueInv, LinksResolve
  <2>2. CASE l \notin links
    <3>1. PICK p \in head.projects : l = <<p.slug, p.id>>
      BY <1>1, <1>5, <2>2
    <3>2. Resolves(p.slug, head.projects) = {p.id}
      BY OneOwner DEF CatalogueInv, VersionsSound, Identifiers
    <3> QED
      BY <3>1, <3>2
  <2> QED
    BY <2>1, <2>2
<1>6. ~rebased' => LinksResolve(running.projects)' /\ LinksResolve(head.projects)'
  BY <1>1, <1>5 DEF LinksResolve
<1> QED
  BY <1>1, <1>3, <1>4, <1>6 DEF CatalogueInv

LEMMA CatalogueInvStep == CatalogueInv /\ [CatNext]_catVars => CatalogueInv'
<1> SUFFICES ASSUME CatalogueInv, [CatNext]_catVars PROVE CatalogueInv'
  OBVIOUS
<1>1. CASE DiscardWords
  BY <1>1 DEF DiscardWords, CatalogueInv, VersionsSound, LinksResolve
<1>2. CASE UNCHANGED catVars
  BY <1>2 DEF catVars, CatalogueInv, VersionsSound, WordsSound, LinksResolve
<1> QED
  BY <1>1, <1>2, EditKeeps, NewKeeps, PublishKeeps, WindowsKeep, DeployKeeps DEF CatNext

\* Every address that was ever a project's own leads to that project and to no
\* other, whatever was renamed, created or named back since, and an editor
\* never loses one, as long as no draft is carried over to another version:
\* resolveProjectSlug over preserveProjectSlugAliases.
THEOREM OldLinksAreKept == CatSpec => []KeepsOldLinks
<1>1. CatInit => CatalogueInv
  BY CatalogueInvInit
<1>2. CatalogueInv /\ [CatNext]_catVars => CatalogueInv'
  BY CatalogueInvStep
<1>3. CatalogueInv => KeepsOldLinks
  BY DEF CatalogueInv, WordsSound, KeepsOldLinks
<1> QED
  BY <1>1, <1>2, <1>3, PTL DEF CatSpec
=============================================================================
