----------------------------- MODULE DraftStore -----------------------------
(***************************************************************************)
(* What src/lib/content/drafts.ts promises its callers, whichever store it *)
(* runs on: a saved draft has a revision, a save or a discard takes effect *)
(* at one instant between call and answer, and only if the revision is the *)
(* one its caller has seen; a bundle shows all drafts as they were at one  *)
(* instant; no change to the publication record is lost.                   *)
(* OwnerState implements this over files and a lock file; Publication and  *)
(* Workspace use it.                                                       *)
(***************************************************************************)
CONSTANTS
  Procs,   \* processes that call the store: the server, the operator's tool
  Keys,    \* the drafts
  Revs,    \* revisions: a fresh UUID each
  None,    \* no draft, or no revision
  Legacy   \* a draft in a version-1 envelope, which has no revision yet

VARIABLES
  draft,    \* draft[k]: the revision stored under k
  record,   \* the changes made to receipts/publication-intents.json
  used,     \* revisions given out so far
  call      \* call[p]: what p is waiting for, or has been answered

storeVars == <<draft, record, used, call>>

Values == Revs \cup {None, Legacy}
Absent == [k \in Keys |-> None]

\* A save or a discard is about one draft and expects want[k] there; a clear
\* removes the drafts that still have the reviewed revisions want; a bundle
\* and an export read all of them; a mutation adds `new` to the record.
Requests ==
       {[op |-> "save", keys |-> {k}, want |-> [Absent EXCEPT ![k] = w],
         new |-> v] : k \in Keys, w \in Revs \cup {None}, v \in Revs}
  \cup {[op |-> "discard", keys |-> {k}, want |-> [Absent EXCEPT ![k] = w],
         new |-> None] : k \in Keys, w \in Revs \cup {None}}
  \cup {[op |-> "clear", keys |-> Keys, want |-> w, new |-> None] :
         w \in [Keys -> Revs \cup {None}]}
  \cup {[op |-> o, keys |-> Keys, want |-> Absent, new |-> None] :
         o \in {"bundle", "export"}}
  \cup {[op |-> "mutate", keys |-> {}, want |-> Absent, new |-> v] :
         v \in Revs}

NoRequest == [op |-> "none", keys |-> {}, want |-> Absent, new |-> None]
Resting == [at |-> "idle", rq |-> NoRequest, out |-> "none", seen |-> Absent]
Asking(rq) == [at |-> "asked", rq |-> rq, out |-> "none", seen |-> Absent]
Answered(rq, out, seen) ==
  [at |-> "done", rq |-> rq, out |-> out, seen |-> seen]

StoreInit ==
  /\ draft \in [Keys -> {None, Legacy}]
  /\ record = {}
  /\ used = {}
  /\ call = [p \in Procs |-> Resting]

\* A caller knows the revisions that were given out, and makes a fresh one.
StoreAsk(p, rq) ==
  /\ call[p].at = "idle"
  /\ rq.new \notin used
  /\ \A k \in Keys : rq.want[k] \in used \cup {None}
  /\ used' = used \cup ({rq.new} \ {None})
  /\ call' = [call EXCEPT ![p] = Asking(rq)]
  /\ UNCHANGED <<draft, record>>

Pending(p, ops) == call[p].at = "asked" /\ call[p].rq.op \in ops

AnswerOk(p, seen) ==
  call' = [call EXCEPT ![p] = Answered(call[p].rq, "ok", seen)]

\* The revision is still the expected one: the draft is replaced, or removed.
StoreChange(p) ==
  /\ Pending(p, {"save", "discard"})
  /\ \A k \in call[p].rq.keys : draft[k] = call[p].rq.want[k]
  /\ draft' = [k \in Keys |-> IF k \in call[p].rq.keys THEN call[p].rq.new
                                                       ELSE draft[k]]
  /\ AnswerOk(p, Absent)
  /\ UNCHANGED <<record, used>>

\* clearDrafts removes the reviewed drafts one by one, and may stop between
\* two of them; it is done when none is left.
StoreClear(p, k) ==
  /\ Pending(p, {"clear"})
  /\ call[p].rq.want[k] # None
  /\ draft[k] = call[p].rq.want[k]
  /\ draft' = [draft EXCEPT ![k] = None]
  /\ UNCHANGED <<record, used, call>>
StoreCleared(p) ==
  /\ Pending(p, {"clear"})
  /\ \A k \in Keys : call[p].rq.want[k] # None
                       => draft[k] # call[p].rq.want[k]
  /\ AnswerOk(p, Absent)
  /\ UNCHANGED <<draft, record, used>>

\* readDraftBundle never shows a draft without a revision, an export may.
StoreLook(p) ==
  /\ Pending(p, {"bundle", "export"})
  /\ call[p].rq.op = "bundle" => \A k \in Keys : draft[k] # Legacy
  /\ AnswerOk(p, draft)
  /\ UNCHANGED <<draft, record, used>>

StoreMutate(p) ==
  /\ Pending(p, {"mutate"})
  /\ record' = record \cup {call[p].rq.new}
  /\ AnswerOk(p, Absent)
  /\ UNCHANGED <<draft, used>>

\* A version-1 draft gets its revision.
StoreName(k, v) ==
  /\ draft[k] = Legacy
  /\ v \notin used
  /\ draft' = [draft EXCEPT ![k] = v]
  /\ used' = used \cup {v}
  /\ UNCHANGED <<record, call>>

\* "stale" tells the caller that the draft has changed; "refused" (another
\* caller holds the lock, or the disk fails) that nothing was saved.
StoreStale(p) ==
  /\ Pending(p, {"save", "discard"})
  /\ \E k \in call[p].rq.keys : draft[k] # call[p].rq.want[k]
  /\ call' = [call EXCEPT ![p] = Answered(call[p].rq, "stale", Absent)]
  /\ UNCHANGED <<draft, record, used>>
StoreRefuse(p) ==
  /\ call[p].at = "asked"
  /\ call' = [call EXCEPT ![p] = Answered(call[p].rq, "refused", Absent)]
  /\ UNCHANGED <<draft, record, used>>

\* The caller takes its answer, or dies without one.
StoreLeave(p) ==
  /\ call[p].at # "idle"
  /\ call' = [call EXCEPT ![p] = Resting]
  /\ UNCHANGED <<draft, record, used>>

StoreNext ==
  \/ \E p \in Procs :
       \/ \E rq \in Requests : StoreAsk(p, rq)
       \/ StoreChange(p)
       \/ \E k \in Keys : StoreClear(p, k)
       \/ StoreCleared(p)
       \/ StoreLook(p)
       \/ StoreMutate(p)
       \/ StoreStale(p)
       \/ StoreRefuse(p)
       \/ StoreLeave(p)
  \/ \E k \in Keys, v \in Revs : StoreName(k, v)

StoreSpec == StoreInit /\ [][StoreNext]_storeVars
=============================================================================
