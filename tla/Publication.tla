---------------------------- MODULE Publication ----------------------------
(***************************************************************************)
(* Owner drafts, the durable publication journal, the publication receipt  *)
(* and the branch `main` on GitHub (src/lib/content/{drafts,publication,   *)
(* publication-intents}.ts and the route /api/data/publish).               *)
(*                                                                         *)
(* A publish request runs synchronously between two `await`s; every await  *)
(* is a call to GitHub.  Each call is two actions here: the remote side    *)
(* answers (or the answer is lost), and later the request goes on with an  *)
(* answer that may be stale by then.  Requests interleave, and die at any  *)
(* await; drafts, journal, receipt and `main` survive.                     *)
(*                                                                         *)
(* Abstractions.  A draft's content is its revision (a fresh UUID per      *)
(* save); revision 0 is "no draft".  A commit is its index in `commits`,   *)
(* 0 is "no commit"; its tree is the content of the two canonical files.   *)
(* `createdAt` of an intent is its id, in creation order, and the set      *)
(* `aged` holds the intents created more than five minutes ago.            *)
(***************************************************************************)
EXTENDS Integers, Sequences, FiniteSets

CONSTANTS
  Requests,     \* slots for concurrently running POST /api/data/publish
  Edited,       \* the kinds of draft the owner edits
  Rollback,     \* may an operator redeploy an older version?
  MaxPending,   \* unfinished intents the journal admits (16 in the code)
  MaxJournal,   \* intents the journal holds before it is pruned (64)
  MaxRevs,      \* bound: draft revisions ever made
  MaxCommits,   \* bound: commits ever created
  MaxIntents    \* bound: intents ever created

Kinds == {"personal", "projects"}

ASSUME PublicationConstants ==
  /\ Edited \subseteq Kinds
  /\ Rollback \in BOOLEAN
  /\ MaxPending \in Nat \ {0}
  /\ MaxJournal \in Nat
  /\ MaxPending <= MaxJournal
  /\ MaxRevs \in Nat
  /\ MaxCommits \in Nat \ {0}
  /\ MaxIntents \in Nat

VARIABLES
  drafts,    \* drafts[k]: revision of the saved draft of kind k
  baseOf,    \* baseOf[v]: version that was running when revision v was saved,
             \* 0 for content that was pushed to main and never was a draft
  journal,   \* receipts/publication-intents.json
  aged,      \* ids of intents older than five minutes
  receipt,   \* receipts/publication.json
  commits,   \* every commit object GitHub holds
  main,      \* the commits of branch main, oldest first
  deployed,  \* commit the running build was made from (VERSION)
  intents,   \* number of intents ever created
  req        \* one record per request slot

vars == <<drafts, baseOf, journal, aged, receipt, commits, main, deployed,
          intents, req>>
remote == <<commits, main, deployed>>

-----------------------------------------------------------------------------
Phases == {"prepared", "ref-pending", "committed", "complete", "failed"}
Awaits == {"getHead", "gotHead", "createCommit", "gotCommit", "updateHead",
           "headUpdated", "verify", "verified", "retryHead", "headRetried",
           "compare"}

Revisions == [Kinds -> Nat]          \* ReviewedRevisions, and file contents
NoDrafts == [k \in Kinds |-> 0]

Intent == [id : Nat, reviewed : Revisions, base : Nat, content : Revisions,
           phase : Phases, commit : Nat]
NoIntent == [id |-> 0, reviewed |-> NoDrafts, base |-> 0,
             content |-> NoDrafts, phase |-> "failed", commit |-> 0]
Receipt == [kind : {"none", "published", "conflict", "failed"}, commit : Nat]
Commit == [parent : Nat, content : Revisions, reviewed : Revisions]
Request == [pc : Awaits \cup {"idle"}, intent : Intent, seen : Nat,
            prev : Receipt]

NoReceipt == [kind |-> "none", commit |-> 0]
Published(c) == [kind |-> "published", commit |-> c]
Refused(k) == [kind |-> k, commit |-> 0]
Slot(pc, i, v) == [pc |-> pc, intent |-> i, seen |-> v, prev |-> NoReceipt]
Idle == Slot("idle", NoIntent, 0)

Landed == {main[n] : n \in DOMAIN main}
Tip == main[Len(main)]

\* GitHub's compare of two commits of main: `ahead` or `identical`.
IsAncestor(c, d) ==
  \E m, n \in DOMAIN main : m <= n /\ main[m] = c /\ main[n] = d

-----------------------------------------------------------------------------
(* The journal.                                                            *)

Unfinished(i) == i.phase \notin {"complete", "failed"}

Matching(reviewed) ==
  {i \in journal : i.phase # "failed" /\ i.reviewed = reviewed}

\* findPublicationIntent returns the newest intent that did not fail.
Found(i, reviewed) == /\ i \in Matching(reviewed)
                      /\ \A j \in Matching(reviewed) : j.id <= i.id

SameKey(i, j) == /\ i.reviewed = j.reviewed
                 /\ i.base = j.base
                 /\ i.content = j.content

\* The compare-and-swap of updatePublicationIntent: the entry is still the
\* caller's copy, and a preparation has not expired.
CanUpdate(i, phase) ==
  /\ i \in journal
  /\ i.phase = "prepared" /\ phase # "failed" => i.id \notin aged

Marked(i, phase) == [i EXCEPT !.phase = phase]
Replaced(i, j) == (journal \ {i}) \cup {j}

\* Room for one more entry: finished intents are dropped from a full journal.
Trimmed == IF Cardinality(journal) >= MaxJournal
             THEN {i \in journal : Unfinished(i)} ELSE journal

-----------------------------------------------------------------------------
Init ==
  /\ drafts = NoDrafts
  /\ baseOf = <<>>
  /\ journal = {}
  /\ aged = {}
  /\ receipt = NoReceipt
  /\ commits = <<[parent |-> 0, content |-> NoDrafts, reviewed |-> NoDrafts]>>
  /\ main = <<1>>
  /\ deployed = 1
  /\ intents = 0
  /\ req = [r \in Requests |-> Idle]

-----------------------------------------------------------------------------
(* The owner's editor.                                                     *)

\* savePersonalDraft / saveProjectsDraft with the current revision expected;
\* with a stale one they throw and change nothing.
SaveDraft(k) ==
  /\ Len(baseOf) < MaxRevs
  /\ baseOf' = Append(baseOf, deployed)
  /\ drafts' = [drafts EXCEPT ![k] = Len(baseOf) + 1]
  /\ UNCHANGED <<journal, aged, receipt, remote, intents, req>>

DiscardDraft(k) ==
  /\ drafts[k] # 0
  /\ drafts' = [drafts EXCEPT ![k] = 0]
  /\ UNCHANGED <<baseOf, journal, aged, receipt, remote, intents, req>>

-----------------------------------------------------------------------------
(* The publish route.                                                      *)

Goto(r, pc, i) == req' = [req EXCEPT ![r] = Slot(pc, i, 0)]
Answer(r, pc, v) == req' = [req EXCEPT ![r] = Slot(pc, req[r].intent, v)]
Done(r) == req' = [req EXCEPT ![r] = Idle]

\* reconcileIntent up to its first await: nothing to verify without a commit.
Reconcile(r, i) == IF i.commit = 0 THEN Done(r) ELSE Goto(r, "verify", i)

Bases(reviewed) == {baseOf[reviewed[k]] : k \in {k \in Kinds : reviewed[k] # 0}}
Expired(i) == i.phase = "prepared" /\ i.id \in aged

\* The two files as the request read them: the draft, else the copy built
\* into the running version.
BundleContent ==
  [k \in Kinds |-> IF drafts[k] # 0 THEN drafts[k] ELSE commits[deployed].content[k]]

Plan(reviewed, base) ==
  [id |-> 0, reviewed |-> reviewed, base |-> base, content |-> BundleContent,
   phase |-> "prepared", commit |-> 0]

\* The owner retries a publication the journal knows.
StartRecovery(r, reviewed) ==
  /\ req[r].pc = "idle"
  /\ \E prior \in journal : /\ Found(prior, reviewed)
                            /\ ~Expired(prior)
                            /\ prior.commit # 0
                            /\ Goto(r, "verify", prior)
  /\ UNCHANGED <<drafts, baseOf, journal, aged, receipt, remote, intents>>

\* createPublicationIntent admits so many unfinished intents.
JournalFull == Cardinality({i \in journal : Unfinished(i)}) >= MaxPending

\* The bound on intents: a request plans one only while there is an id for it
\* (or while it would be refused).
IntentsLeft ==
  intents + Cardinality({r \in Requests : req[r].pc \in {"getHead", "gotHead"}}) < MaxIntents

\* The owner publishes the drafts as reviewed, saved on one version.
StartPublish(r) ==
  /\ req[r].pc = "idle"
  /\ IntentsLeft \/ JournalFull
  /\ Matching(drafts) = {}
  /\ \E base \in Bases(drafts) : /\ Bases(drafts) = {base}
                                 /\ Goto(r, "getHead", Plan(drafts, base))
  /\ UNCHANGED <<drafts, baseOf, journal, aged, receipt, remote, intents>>

\* A preparation of this review expired: it is failed, and the publication
\* starts over if the drafts are still the reviewed ones.
RestartPublish(r, reviewed) ==
  /\ req[r].pc = "idle"
  /\ IntentsLeft
  /\ \E prior \in journal :
       /\ Found(prior, reviewed)
       /\ Expired(prior)
       /\ journal' = Replaced(prior, Marked(prior, "failed"))
       /\ IF reviewed = drafts THEN Goto(r, "getHead", Plan(reviewed, prior.base))
          ELSE UNCHANGED req
  /\ UNCHANGED <<drafts, baseOf, aged, receipt, remote, intents>>

\* getHead: the answer is the head at this moment; 0 is an error.
GetHead(r) ==
  /\ req[r].pc = "getHead"
  /\ \E v \in {Tip, 0} : Answer(r, "gotHead", v)
  /\ UNCHANGED <<drafts, baseOf, journal, aged, receipt, remote, intents>>

\* saveConflict and the `failed` receipt overwrite whatever receipt is there.
\* A write that throws is swallowed.
WriteReceipt(kinds) ==
  \/ \E kind \in kinds : receipt' = Refused(kind)
  \/ UNCHANGED receipt

\* Mutant: the head is not compared with the version the draft was made on.
AnyHead(r) == req[r].pc = "gotHead" /\ req[r].seen # 0
BaseIsHead(r) == AnyHead(r) /\ req[r].seen = req[r].intent.base

\* The intent about to be created: its base is the head just read.
Keyed(r) == [req[r].intent EXCEPT !.base = req[r].seen]

\* Mutant: the journal is searched by identifier, which is always fresh.
SameIdIntents(i) == {j \in journal : j.phase # "failed" /\ j.id = i.id}
SameKeyIntents(i) == {j \in journal : j.phase # "failed" /\ SameKey(i, j)}

\* createPublicationIntent finds the key: another request is on it.
JoinIntent(r) ==
  /\ BaseIsHead(r)
  /\ \E j \in SameKeyIntents(Keyed(r)) : Reconcile(r, j)
  /\ UNCHANGED <<drafts, baseOf, journal, aged, receipt, remote, intents>>

\* The read of the head failed, with a status that is or is not a conflict.
HeadUnread(r) == req[r].pc = "gotHead" /\ req[r].seen = 0
\* The draft was made on another version than the head of main.
BaseMoved(r) == req[r].pc = "gotHead" /\ req[r].seen \notin {0, req[r].intent.base}
\* createPublicationIntent throws.
IntentRefused(r) == BaseIsHead(r) /\ SameKeyIntents(Keyed(r)) = {} /\ JournalFull

\* The publication ends without an intent of its own.
Refuse(r) ==
  /\ \/ HeadUnread(r) /\ WriteReceipt({"conflict", "failed"})
     \/ BaseMoved(r) /\ WriteReceipt({"conflict", "failed"})
     \/ IntentRefused(r) /\ WriteReceipt({"failed"})
  /\ Done(r)
  /\ UNCHANGED <<drafts, baseOf, journal, aged, remote, intents>>

CreateIntent(r) ==
  LET i == [Keyed(r) EXCEPT !.id = intents + 1]
  IN  /\ BaseIsHead(r)
      /\ SameKeyIntents(Keyed(r)) = {}
      /\ ~JournalFull
      /\ intents < MaxIntents /\ intents' = intents + 1
      /\ journal' = Trimmed \cup {i}
      /\ Goto(r, "createCommit", i)
      /\ UNCHANGED <<drafts, baseOf, aged, receipt, remote>>

\* createBlob, createTree and createCommit only add objects.
CreateCommit(r) ==
  LET i == req[r].intent
  IN  /\ req[r].pc = "createCommit"
      /\ \/ /\ Len(commits) < MaxCommits
            /\ commits' = Append(commits, [parent |-> i.base, content |-> i.content,
                                           reviewed |-> i.reviewed])
            /\ \E v \in {Len(commits) + 1, 0} : Answer(r, "gotCommit", v)
         \/ /\ UNCHANGED commits
            /\ Answer(r, "gotCommit", 0)
      /\ UNCHANGED <<drafts, baseOf, journal, aged, receipt, main, deployed, intents>>

\* The commit becomes durable in the journal before the branch is touched.
RecordCommit(r) ==
  LET i == req[r].intent
      j == [i EXCEPT !.phase = "ref-pending", !.commit = req[r].seen]
  IN  /\ req[r].pc = "gotCommit" /\ req[r].seen # 0
      /\ CanUpdate(i, "ref-pending")
      /\ journal' = Replaced(i, j)
      /\ Goto(r, "updateHead", j)
      /\ UNCHANGED <<drafts, baseOf, aged, receipt, remote, intents>>

\* No commit, or the intent expired or was failed by another request: the
\* intent is marked failed if it is still this request's, and a receipt says so.
AbandonIntent(r) ==
  LET i == req[r].intent
  IN  /\ req[r].pc = "gotCommit"
      /\ req[r].seen # 0 => ~CanUpdate(i, "ref-pending")
      /\ \/ CanUpdate(i, "failed") /\ journal' = Replaced(i, Marked(i, "failed"))
         \/ UNCHANGED journal
      /\ WriteReceipt(IF req[r].seen = 0 THEN {"conflict", "failed"} ELSE {"failed"})
      /\ Done(r)
      /\ UNCHANGED <<drafts, baseOf, aged, remote, intents>>

\* Mutant: the reference is forced.
Forced(c) == TRUE
\* updateRef without force: only a fast-forward moves the branch.
FastForward(c) == Tip = commits[c].parent

\* The branch moves or not, and the answer may be lost either way.
UpdateHead(r) ==
  LET c == req[r].intent.commit
      next == IF req[r].pc = "updateHead" THEN "headUpdated" ELSE "headRetried"
  IN  /\ req[r].pc \in {"updateHead", "retryHead"}
      /\ \/ /\ FastForward(c)
            /\ main' = Append(main, c)
            /\ \E v \in {c, 0} : Answer(r, next, v)
         \/ /\ UNCHANGED main
            /\ \E v \in {IF Tip = c THEN c ELSE 0, 0} : Answer(r, next, v)
      /\ UNCHANGED <<drafts, baseOf, journal, aged, receipt, commits, deployed, intents>>

\* A rejected or lost first update is reconciled, a lost retry is left to
\* the next request.
HeadNotUpdated(r) ==
  /\ req[r].pc \in {"headUpdated", "headRetried"} /\ req[r].seen = 0
  /\ IF req[r].pc = "headUpdated" THEN Goto(r, "verify", req[r].intent) ELSE Done(r)
  /\ UNCHANGED <<drafts, baseOf, journal, aged, receipt, remote, intents>>

\* getCommitIdentity, getHead and isAncestor: only the head can change.
Verify(r) ==
  /\ req[r].pc = "verify"
  /\ \E v \in {Tip, 0} : Answer(r, "verified", v)
  /\ UNCHANGED <<drafts, baseOf, journal, aged, receipt, remote, intents>>

IdentityHolds(i) == /\ commits[i.commit].parent = i.base
                    /\ commits[i.commit].content = i.content
\* Mutant: "identical" does not count, only "ahead".
IsAhead(r) == /\ req[r].seen # req[r].intent.commit
              /\ IsAncestor(req[r].intent.commit, req[r].seen)
OnMain(r) == IsAncestor(req[r].intent.commit, req[r].seen)

\* Nothing is written when the answer is missing, the commit is another
\* one's, the publication is already complete, or main moved elsewhere.
VerifyStops(r) ==
  LET i == req[r].intent
  IN  /\ req[r].pc = "verified"
      /\ \/ req[r].seen = 0
         \/ ~IdentityHolds(i)
         \/ OnMain(r) /\ i.phase = "complete"
         \/ ~OnMain(r) /\ req[r].seen # i.base
      /\ Done(r)
      /\ UNCHANGED <<drafts, baseOf, journal, aged, receipt, remote, intents>>

\* The commit is not on main and main did not move: send the same commit again.
RetryHead(r) ==
  /\ req[r].pc = "verified" /\ req[r].seen # 0
  /\ IdentityHolds(req[r].intent)
  /\ ~OnMain(r) /\ req[r].seen = req[r].intent.base
  /\ Goto(r, "retryHead", req[r].intent)
  /\ UNCHANGED <<drafts, baseOf, journal, aged, receipt, remote, intents>>

-----------------------------------------------------------------------------
(* finishCommitted: journal, receipt, drafts, journal, in this order.      *)

\* Mutant: a lost answer to the branch update passes for success.
AssumedConfirmed(r) ==
  \/ req[r].pc \in {"headUpdated", "headRetried"}
  \/ /\ req[r].pc = "verified" /\ req[r].seen # 0
     /\ IdentityHolds(req[r].intent)
     /\ OnMain(r) /\ req[r].intent.phase # "complete"
\* The commit is known to be on main, and not yet recorded as complete.
Confirmed(r) ==
  \/ req[r].pc \in {"headUpdated", "headRetried"} /\ req[r].seen # 0
  \/ /\ req[r].pc = "verified" /\ req[r].seen # 0
     /\ IdentityHolds(req[r].intent)
     /\ OnMain(r) /\ req[r].intent.phase # "complete"

\* Mutant: drafts are cleared whatever their revision.
ClearedAny(i, kinds) ==
  [k \in Kinds |-> IF k \in kinds /\ i.reviewed[k] # 0 THEN 0 ELSE drafts[k]]
\* Mutant: only the personal draft is cleared.
ClearedOne(i, kinds) ==
  [k \in Kinds |-> IF k \in kinds \cap {"personal"} /\ drafts[k] = i.reviewed[k]
                     THEN 0 ELSE drafts[k]]
\* clearDrafts removes the drafts that were reviewed, not newer ones.
Cleared(i, kinds) ==
  [k \in Kinds |-> IF k \in kinds /\ drafts[k] = i.reviewed[k] THEN 0 ELSE drafts[k]]

\* Mutant: the existing receipt is not looked at.
IgnoredReceipt(i) == FALSE
OtherReceipt(i) == receipt.kind = "published" /\ receipt.commit # i.commit

\* The journal entry is no longer this request's copy.
FinishRefused(r) ==
  /\ Confirmed(r)
  /\ ~CanUpdate(req[r].intent, "committed")
  /\ Done(r)
  /\ UNCHANGED <<drafts, baseOf, journal, aged, receipt, remote, intents>>

\* No receipt of another publication: everything happens in one turn.
Finish(r) ==
  LET i == req[r].intent
  IN  /\ Confirmed(r)
      /\ CanUpdate(i, "committed")
      /\ ~OtherReceipt(i)
      /\ receipt' = Published(i.commit)
      /\ drafts' = Cleared(i, Kinds)
      /\ journal' = Replaced(i, Marked(i, "complete"))
      /\ Done(r)
      /\ UNCHANGED <<baseOf, aged, remote, intents>>

\* A receipt names another publication: ask GitHub which one is newer.
FinishCompares(r) ==
  LET i == req[r].intent
  IN  /\ Confirmed(r)
      /\ CanUpdate(i, "committed")
      /\ OtherReceipt(i)
      /\ journal' = Replaced(i, Marked(i, "committed"))
      /\ req' = [req EXCEPT ![r] =
                   [Slot("compare", Marked(i, "committed"), 0) EXCEPT !.prev = receipt]]
      /\ UNCHANGED <<drafts, baseOf, aged, receipt, remote, intents>>

\* The order of two commits never changes, so the answer cannot be stale; the
\* receipt and the journal can.  The final acknowledgement is a
\* compare-and-swap that may fail after the drafts are gone.
FinishCompared(r) ==
  LET i == req[r].intent
      newer == IsAncestor(i.commit, req[r].prev.commit)
  IN  /\ req[r].pc = "compare"
      /\ newer \/ receipt = req[r].prev
      /\ receipt' = IF newer THEN receipt ELSE Published(i.commit)
      /\ drafts' = Cleared(i, Kinds)
      /\ journal' = IF CanUpdate(i, "complete") THEN Replaced(i, Marked(i, "complete"))
                    ELSE journal
      /\ Done(r)
      /\ UNCHANGED <<baseOf, aged, remote, intents>>

\* The comparison fails, or the receipt changed meanwhile.
CompareStops(r) ==
  /\ req[r].pc = "compare"
  /\ Done(r)
  /\ UNCHANGED <<drafts, baseOf, journal, aged, receipt, remote, intents>>

\* A write fails (or the process dies) part-way through a finish: some first
\* writes took effect and the rest did not.
FinishStops(r) ==
  LET i == req[r].intent
      newer == req[r].pc = "compare" /\ IsAncestor(i.commit, req[r].prev.commit)
  IN  /\ \/ /\ Confirmed(r)
            /\ CanUpdate(i, "committed")
            /\ ~OtherReceipt(i)
            /\ journal' = Replaced(i, Marked(i, "committed"))
         \/ /\ req[r].pc = "compare"
            /\ newer \/ receipt = req[r].prev
            /\ UNCHANGED journal
      /\ \/ UNCHANGED <<receipt, drafts>>
         \/ /\ receipt' = IF newer THEN receipt ELSE Published(i.commit)
            /\ \E kinds \in {{}, {"personal"}, Kinds} : drafts' = Cleared(i, kinds)
      /\ Done(r)
      /\ UNCHANGED <<baseOf, aged, remote, intents>>

-----------------------------------------------------------------------------
(* The world around the requests.                                          *)

\* The server stops; no request survives, all storage does.
Crash ==
  /\ \E r \in Requests : req[r].pc # "idle"
  /\ req' = [r \in Requests |-> Idle]
  /\ UNCHANGED <<drafts, baseOf, journal, aged, receipt, remote, intents>>

\* Someone pushes to main: code only, or an edit of one canonical file.
ExternalPush ==
  LET c == Len(commits) + 1
  IN  /\ c <= MaxCommits
      /\ \E content \in {commits[Tip].content} \cup
              (IF Len(baseOf) < MaxRevs
                 THEN {[commits[Tip].content EXCEPT ![k] = Len(baseOf) + 1] : k \in Kinds}
                 ELSE {}) :
           /\ commits' = Append(commits, [parent |-> Tip, content |-> content,
                                          reviewed |-> NoDrafts])
           /\ baseOf' = IF content = commits[Tip].content THEN baseOf
                        ELSE Append(baseOf, 0)
      /\ main' = Append(main, c)
      /\ UNCHANGED <<drafts, journal, aged, receipt, deployed, intents, req>>

\* A new version of main goes live, or an operator goes back to an old one.
Deploy ==
  /\ \E c \in Landed :
       /\ c # deployed
       /\ IsAncestor(deployed, c) \/ Rollback
       /\ deployed' = c
  /\ UNCHANGED <<drafts, baseOf, journal, aged, receipt, commits, main, intents, req>>

\* Five minutes pass over a preparation.
AgeIntent ==
  /\ \E i \in journal : /\ i.phase = "prepared" /\ i.id \notin aged
                        /\ aged' = aged \cup {i.id}
  /\ UNCHANGED <<drafts, baseOf, journal, receipt, remote, intents, req>>

\* Besides the drafts on the screen the owner can ask for a publication the
\* journal holds.  Any other review is refused without a trace.
Reviewable == {i.reviewed : i \in journal}

Local(r) ==
  \/ JoinIntent(r) \/ Refuse(r) \/ CreateIntent(r) \/ RecordCommit(r) \/ AbandonIntent(r)
  \/ HeadNotUpdated(r) \/ VerifyStops(r) \/ RetryHead(r)
  \/ FinishRefused(r) \/ Finish(r) \/ FinishCompares(r) \/ FinishCompared(r)

GitHub(r) == GetHead(r) \/ CreateCommit(r) \/ UpdateHead(r) \/ Verify(r)

Next ==
  \/ \E k \in Edited : SaveDraft(k) \/ DiscardDraft(k)
  \/ \E r \in Requests :
       \/ \E v \in Reviewable : StartRecovery(r, v) \/ RestartPublish(r, v)
       \/ StartPublish(r)
       \/ Local(r) \/ GitHub(r)
       \/ CompareStops(r) \/ FinishStops(r)
  \/ Crash \/ ExternalPush \/ Deploy \/ AgeIntent

Spec == Init /\ [][Next]_vars

-----------------------------------------------------------------------------
(* Properties.                                                             *)

\* The variables have their types.
TypeOK ==
  /\ drafts \in Revisions
  /\ baseOf \in Seq(Nat)
  /\ journal \subseteq Intent
  /\ aged \subseteq Nat
  /\ receipt \in Receipt
  /\ commits \in Seq(Commit)
  /\ main \in Seq(Nat)
  /\ deployed \in Nat
  /\ intents \in Nat
  /\ req \in [Requests -> Request]

\* However requests overlap, fail and are retried, one review of the drafts
\* lands on main at most once (publication.ts keeps one durable commit).
PublishedOnce ==
  \A m, n \in DOMAIN main :
    /\ commits[main[m]].reviewed = commits[main[n]].reviewed
    /\ commits[main[m]].reviewed # NoDrafts
    => m = n

\* A publication changes what was reviewed and nothing else: a reviewed file
\* gets the reviewed draft, written for the very version it replaces, and
\* the other file keeps what main had ("no last-write-wins update").
NoLastWriteWins ==
  \A n \in DOMAIN main :
    LET c == commits[main[n]]
    IN  c.reviewed # NoDrafts =>
          /\ n > 1 /\ c.parent = main[n - 1]
          /\ \A k \in Kinds :
               IF c.reviewed[k] # 0
                 THEN c.content[k] = c.reviewed[k] /\ baseOf[c.reviewed[k]] = c.parent
                 ELSE c.content[k] = commits[c.parent].content[k]

\* What the server records about GitHub is true: a published receipt and a
\* committed or complete intent name a commit that is on main.
RecordsAreTrue ==
  /\ receipt.kind = "published" => receipt.commit \in Landed
  /\ \A i \in journal : i.phase \in {"committed", "complete"} => i.commit \in Landed

\* While a draft that is already on main is still on the owner's screen, the
\* journal holds the unfinished intent a retry needs to clear it.
PublishedDraftRecoverable ==
  \A c \in Landed :
    (\E k \in Kinds : drafts[k] # 0 /\ drafts[k] = commits[c].reviewed[k]) =>
      \E i \in journal : i.commit = c /\ Unfinished(i)

\* Concurrent requests for one review on one base share one intent.
OneIntentPerKey ==
  \A i, j \in journal :
    i.phase # "failed" /\ j.phase # "failed" /\ SameKey(i, j) => i = j

\* The journal stays within its schema and within the admission limit.
JournalBounded ==
  /\ Cardinality(journal) <= MaxJournal
  /\ Cardinality({i \in journal : Unfinished(i)}) <= MaxPending

\* While no older version is redeployed, a retry finds what the workspace
\* offers to recover: no later intent of the same review hides an unfinished
\* one from findPublicationIntent, and one whose commit is on main still has
\* that commit and does not expire, so that its recovery can start.
RetryFinds ==
  ~Rollback =>
    \A i \in journal : Unfinished(i) =>
      /\ Found(i, i.reviewed)
      /\ i.commit \in Landed => i.commit # 0 /\ ~Expired(i)

\* The journal admits one intent per review and base, only so many, and none
\* that a retry cannot find.
JournalSound == OneIntentPerKey /\ JournalBounded /\ RetryFinds

\* The server's records have their form, and what they say of GitHub is true.
RecordsSound == TypeOK /\ RecordsAreTrue

\* A saved draft disappears only because the owner discarded or replaced it,
\* or because that very revision is on main.
DraftsSurvive ==
  [][\A k \in Kinds :
       drafts[k] # 0 /\ drafts'[k] # drafts[k] =>
         \/ \E c \in Landed : commits[c].reviewed[k] = drafts[k]
         \/ DiscardDraft(k) \/ SaveDraft(k)]_vars

\* A late recovery never puts an older publication's receipt over a newer one.
ReceiptAdvances ==
  [][receipt.kind = "published" /\ receipt'.kind = "published" =>
       IsAncestor(receipt.commit, receipt'.commit)]_vars

\* The awaits a request still has before it, at most.
AwaitsLeft ==
  [idle |-> 0, compare |-> 1, headRetried |-> 2, retryHead |-> 3, verified |-> 4,
   verify |-> 5, headUpdated |-> 6, updateHead |-> 7, gotCommit |-> 8,
   createCommit |-> 9, gotHead |-> 10, getHead |-> 11]

\* No request goes round in circles: whatever GitHub answers and the others
\* do, a step of a request leaves it fewer awaits, a reference that was sent
\* again is not sent a third time, and a recovery never starts another.
RequestsEnd ==
  [][\A r \in Requests :
       req[r].pc # "idle" /\ req'[r] # req[r] =>
         AwaitsLeft[req'[r].pc] < AwaitsLeft[req[r].pc]]_vars

\* derivePublicationState without drafts: what the owner's panel shows.
AwaitingDeploy ==
  /\ drafts = NoDrafts
  /\ receipt.kind = "published" /\ receipt.commit # deployed
ShowsClean == drafts = NoDrafts /\ receipt.kind # "published"

\* README.md:55, "Keep the UI at `Awaiting deploy` until the running `VERSION`
\* matches the published commit": the panel never goes back to `Clean` first.
AwaitingDeployKept == [][AwaitingDeploy => ~ShowsClean']_vars

-----------------------------------------------------------------------------
(* The promise this module keeps, seen from outside: main with what was    *)
(* reviewed for each of its commits, and the receipt of a publication.     *)

History == [n \in DOMAIN main |->
  [version |-> main[n], reviewed |-> commits[main[n]].reviewed,
   content |-> commits[main[n]].content]]
Recorded == IF receipt.kind = "published" THEN receipt.commit ELSE 0

Service == INSTANCE PublicationService WITH
  Versions <- 1..MaxCommits, history <- History, recorded <- Recorded

\* Whatever happens between requests, GitHub and the server, seen from
\* outside each step lands one review, once, whole and on the version it was
\* made for; acknowledges, in part or in full, one that landed; or is a step
\* of the owner, of someone who pushes, of a deployment, or none.
KeepsPublicationService == Service!ServiceSpec
=============================================================================
