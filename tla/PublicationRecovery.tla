------------------------ MODULE PublicationRecovery ------------------------
(***************************************************************************)
(* Recovery of publications once faults cease.  Until `calm`, everything   *)
(* of Publication may happen: crashes, lost answers, failed writes, pushes *)
(* by others, requests from stale pages.  Afterwards GitHub answers, the   *)
(* store works, nobody else pushes, and the owner uses the workspace: it   *)
(* offers the oldest unfinished publication for recovery, and while there  *)
(* is one it does not let a new one start (PublishPanel.tsx).              *)
(***************************************************************************)
EXTENDS Publication

VARIABLE calm

\* findPendingPublicationIntent: the workspace offers the oldest unfinished
\* publication for recovery, and no other.
FirstPending(i) == /\ i \in journal /\ Unfinished(i)
                   /\ \A j \in journal : Unfinished(j) => i.id <= j.id
RecoveryRevisions == {i.reviewed : i \in {j \in journal : FirstPending(j)}}

Recover == \E r \in Requests, v \in RecoveryRevisions : StartRecovery(r, v)

\* canPublish: nothing to recover, and a draft.  A preparation that never got
\* a commit is retried too, and expires.
CanPublish == RecoveryRevisions = {} /\ drafts # NoDrafts

Publish == \E r \in Requests :
             \/ CanPublish /\ StartPublish(r)
             \/ \E v \in RecoveryRevisions : RestartPublish(r, v)

Answered(r) == \/ GetHead(r) \/ Verify(r) \/ CreateCommit(r)
               \/ UpdateHead(r) /\ (req'[r].seen # 0 \/ ~FastForward(req[r].intent.commit))

Progress(r) == \/ Local(r)
               \/ Answered(r) /\ (req[r].pc \in {"getHead", "verify"} => req'[r].seen # 0)

CalmNext ==
  \/ ~calm /\ Next /\ UNCHANGED calm
  \/ ~calm /\ calm' = TRUE /\ UNCHANGED vars
  \/ /\ calm /\ UNCHANGED calm
     /\ \/ Recover \/ Publish
        \/ \E r \in Requests : Progress(r)
        \/ \E k \in Edited : SaveDraft(k) \/ DiscardDraft(k)
        \/ Deploy \/ AgeIntent

RecoveryInit == Init /\ calm = FALSE

\* The owner retries, requests run on, GitHub answers, faults end.
RecoverySpec ==
  /\ RecoveryInit
  /\ [][CalmNext]_<<vars, calm>>
  /\ WF_calm(~calm /\ calm' = TRUE /\ UNCHANGED vars)
  /\ WF_<<vars, calm>>(calm /\ UNCHANGED calm /\ Recover)
  /\ \A r \in Requests : WF_<<vars, calm>>(calm /\ UNCHANGED calm /\ Progress(r))

\* When the publication the workspace offers to recover did reach main, the
\* owner's retries get it recorded: receipt, drafts and journal.
RecoveryRecordsLanded ==
  \A n \in 1..MaxIntents :
    (\E i \in journal : i.id = n /\ FirstPending(i) /\ i.commit \in Landed)
      ~> ~(\E i \in journal : i.id = n /\ Unfinished(i))

\* PublishPanel.tsx:91, "Retry its recorded commit before publishing newer
\* drafts": retrying gets the owner out of recovery, landed or not.
RecoveryEnds ==
  \A n \in 1..MaxIntents :
    (\E i \in journal : i.id = n /\ FirstPending(i) /\ i.commit # 0)
      ~> ~(\E i \in journal : i.id = n /\ Unfinished(i))
=============================================================================
