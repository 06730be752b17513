----------------------------- MODULE OwnerState -----------------------------
(***************************************************************************)
(* The file store of src/lib/content/drafts.ts: one JSON file per draft,   *)
(* written to a temporary file and renamed, and every operation under the  *)
(* lock file .owner-state.lock (withStateLock).  Within a process an       *)
(* operation is synchronous; processes (the server, a second container     *)
(* during a deployment, the operator's export) interleave at every file    *)
(* operation, and die anywhere.  A process that dies leaves the lock file. *)
(*                                                                         *)
(* Abstractions.  A draft's content is its revision.  The order in which   *)
(* the two drafts are read is left open.  A temporary file is invisible    *)
(* until it is renamed, so that writing it is part of the step before.     *)
(* Removing the lock file of a finished operation does not fail.           *)
(***************************************************************************)
CONSTANTS
  Procs,   \* processes that use the files
  Keys,    \* the drafts
  Revs,    \* revisions: a fresh UUID each
  None,    \* no draft, or no revision
  Legacy   \* a draft in a version-1 envelope, which has no revision yet

ASSUME OwnerStateConstants ==
  /\ None \notin Revs
  /\ Legacy \notin Revs
  /\ None # Legacy

VARIABLES
  file,     \* file[k]: revision in drafts/<k>.json
  record,   \* the changes in receipts/publication-intents.json
  used,     \* revisions given out so far
  locked,   \* does .owner-state.lock exist?
  proc      \* proc[p]: the operation process p is in

stateVars == <<file, record, used, locked, proc>>
files == <<file, record>>

Absent == [k \in Keys |-> None]
Looks == {"bundle", "export"}

\* The promise this module keeps, and the call a process is in seen from it:
\* the operation has taken effect when it has nothing left but to close.
CallOf(c) ==
  [at   |-> IF c.at = "idle" THEN "idle"
            ELSE IF c.at \in {"close", "done"} THEN "done" ELSE "asked",
   rq   |-> c.rq,
   out  |-> c.out,
   seen |-> IF c.out = "ok" /\ c.rq.op \in Looks THEN c.got ELSE Absent]
Store == INSTANCE DraftStore WITH
  draft <- file, call <- [p \in Procs |-> CallOf(proc[p])]

Requests == Store!Requests
Values == Revs \cup {None, Legacy}
Inside == {"open", "write", "merge", "close"}    \* with the lock in hand
Phases == Inside \cup {"idle", "asked", "done"}

\* left: drafts that are still to be read; got: what was read; base: the
\* record as it was read.
Process == [at : Phases, rq : Requests \cup {Store!NoRequest},
            left : SUBSET Keys, got : [Keys -> Values], base : SUBSET Revs,
            out : {"none", "ok", "stale", "refused"}]
Start(at, rq) == [at |-> at, rq |-> rq, left |-> rq.keys, got |-> Absent,
                  base |-> {}, out |-> "none"]
Idle == Start("idle", Store!NoRequest)

Op(p) == proc[p].rq.op
Goto(p, at) == proc' = [proc EXCEPT ![p].at = at]
Finish(p, out) == proc' = [proc EXCEPT ![p].at = "close", ![p].out = out]

OwnerInit ==
  /\ file \in [Keys -> {None, Legacy}]
  /\ record = {}
  /\ used = {}
  /\ locked = FALSE
  /\ proc = [p \in Procs |-> Idle]

\* The caller makes the envelope, with its fresh revision, before it asks
\* for the lock.
Ask(p, rq) ==
  /\ proc[p].at = "idle"
  /\ rq.new \notin used
  /\ \A k \in Keys : rq.want[k] \in used \cup {None}
  /\ used' = used \cup ({rq.new} \ {None})
  /\ proc' = [proc EXCEPT ![p] = Start("asked", rq)]
  /\ UNCHANGED <<files, locked>>

\* openSync(lock, 'wx') creates the lock file or fails with EEXIST, which
\* is answered as a conflict at once.  Mutant: an existing file is reused.
AnyLock == TRUE
Free == ~locked
Lock(p) ==
  /\ proc[p].at = "asked"
  /\ Free
  /\ locked' = TRUE
  /\ Goto(p, "open")
  /\ UNCHANGED <<files, used>>
Refused(p) ==
  /\ proc[p].at = "asked"
  /\ locked
  /\ proc' = [proc EXCEPT ![p].at = "done", ![p].out = "refused"]
  /\ UNCHANGED <<files, used, locked>>

\* readPersonal / readProjects: a version-1 draft is rewritten with a
\* revision first, except by an export, which reads the files as they are.
Unnamed(p, k) == file[k] = Legacy /\ Op(p) # "export"
Upgrade(p, k, v) ==
  /\ proc[p].at = "open"
  /\ k \in proc[p].left
  /\ Unnamed(p, k)
  /\ v \notin used
  /\ file' = [file EXCEPT ![k] = v]
  /\ used' = used \cup {v}
  /\ UNCHANGED <<record, locked, proc>>
Read(p, k) ==
  /\ proc[p].at = "open"
  /\ k \in proc[p].left
  /\ ~Unnamed(p, k)
  /\ proc' = [proc EXCEPT ![p].left = @ \ {k}, ![p].got[k] = file[k]]
  /\ UNCHANGED <<files, used, locked>>

ReadAll(p) == proc[p].at = "open" /\ proc[p].left = {}
\* Mutant: any draft at all may be replaced.
Exists(p) == \A k \in proc[p].rq.keys :
               proc[p].rq.want[k] = None => proc[p].got[k] = None
Matches(p) == \A k \in proc[p].rq.keys : proc[p].got[k] = proc[p].rq.want[k]

\* save*Draft, discard*Draft: compare, then rename the new file into place
\* or remove the old one.
Compare(p) ==
  /\ ReadAll(p)
  /\ Op(p) \in {"save", "discard"}
  /\ IF Matches(p) THEN Goto(p, "write") ELSE Finish(p, "stale")
  /\ UNCHANGED <<files, used, locked>>
Change(p) ==
  /\ proc[p].at = "write"
  /\ file' = [k \in Keys |-> IF k \in proc[p].rq.keys THEN proc[p].rq.new
                                                      ELSE file[k]]
  /\ Finish(p, "ok")
  /\ UNCHANGED <<record, used, locked>>

\* clearDrafts: a draft is removed when it has the reviewed revision.
Reviewed(p, k) == proc[p].rq.want[k] # None
                  /\ proc[p].got[k] = proc[p].rq.want[k]
Remove(p, k) ==
  /\ proc[p].at = "open"
  /\ Op(p) = "clear"
  /\ k \notin proc[p].left
  /\ Reviewed(p, k)
  /\ file' = [file EXCEPT ![k] = None]
  /\ proc' = [proc EXCEPT ![p].got[k] = None]
  /\ UNCHANGED <<record, used, locked>>
Cleared(p) ==
  /\ ReadAll(p)
  /\ Op(p) = "clear"
  /\ \A k \in Keys : ~Reviewed(p, k)
  /\ Finish(p, "ok")
  /\ UNCHANGED <<files, used, locked>>

\* readDraftBundle and exportFileOwnerState.
Look(p) ==
  /\ ReadAll(p)
  /\ Op(p) \in Looks
  /\ Finish(p, "ok")
  /\ UNCHANGED <<files, used, locked>>

\* mutateOwnerRecord: read, update, validate, write.
ReadRecord(p) ==
  /\ proc[p].at = "open"
  /\ Op(p) = "mutate"
  /\ proc' = [proc EXCEPT ![p].at = "merge", ![p].base = record]
  /\ UNCHANGED <<files, used, locked>>
WriteRecord(p) ==
  /\ proc[p].at = "merge"
  /\ record' = proc[p].base \cup {proc[p].rq.new}
  /\ Finish(p, "ok")
  /\ UNCHANGED <<file, used, locked>>

\* A file cannot be read, parsed or written: the operation throws, and the
\* lock file is removed all the same (finally).
Fail(p) ==
  /\ proc[p].at \in Inside \ {"close"}
  /\ Finish(p, "refused")
  /\ UNCHANGED <<files, used, locked>>

Close(p) ==
  /\ proc[p].at = "close"
  /\ locked' = FALSE
  /\ Goto(p, "done")
  /\ UNCHANGED <<files, used>>
Answer(p) ==
  /\ proc[p].at = "done"
  /\ proc' = [proc EXCEPT ![p] = Idle]
  /\ UNCHANGED <<files, used, locked>>

Kill(p) ==
  /\ proc[p].at # "idle"
  /\ proc' = [proc EXCEPT ![p] = Idle]
  /\ UNCHANGED <<files, used, locked>>

\* docs/owner-state-recovery.md: an operator removes a leftover lock file
\* after verifying that all writers have stopped.
Stopped == \A p \in Procs : proc[p].at = "idle"
RemoveLock ==
  /\ locked
  /\ Stopped
  /\ locked' = FALSE
  /\ UNCHANGED <<files, used, proc>>

OwnerNext ==
  \/ \E p \in Procs :
       \/ \E rq \in Requests : Ask(p, rq)
       \/ Lock(p) \/ Refused(p)
       \/ \E k \in Keys, v \in Revs : Upgrade(p, k, v)
       \/ \E k \in Keys : Read(p, k) \/ Remove(p, k)
       \/ Compare(p) \/ Change(p) \/ Cleared(p) \/ Look(p)
       \/ ReadRecord(p) \/ WriteRecord(p)
       \/ Fail(p) \/ Close(p) \/ Answer(p) \/ Kill(p)
  \/ RemoveLock

OwnerSpec == OwnerInit /\ [][OwnerNext]_stateVars

-----------------------------------------------------------------------------
OwnerTypeOK ==
  /\ file \in [Keys -> Values]
  /\ record \subseteq Revs
  /\ used \subseteq Revs
  /\ locked \in BOOLEAN
  /\ proc \in [Procs -> Process]

\* The lock file keeps every other process out: at most one is inside an
\* operation, however processes die and operators remove the file, and what
\* it has read is still true when it acts on it, although comparing and
\* writing are separate calls to the file system.
Exclusive ==
  /\ \A p, q \in Procs :
       proc[p].at \in Inside /\ proc[q].at \in Inside => p = q
  /\ \A p \in Procs : proc[p].at \in Inside => locked
ReadsAreCurrent ==
  \A p \in Procs :
    /\ proc[p].at \in {"open", "write"} =>
         \A k \in proc[p].rq.keys \ proc[p].left : proc[p].got[k] = file[k]
    /\ proc[p].at = "merge" => proc[p].base = record
LockHolds == Exclusive /\ ReadsAreCurrent

\* The files and the lock keep the promise of DraftStore: compare-and-swap
\* of revisions, consistent bundles, no lost change of the record.
KeepsDraftStore == Store!StoreSpec
=============================================================================
