------------------------- MODULE PublicationService -------------------------
(***************************************************************************)
(* What publication promises the owner, without the requests, the journal  *)
(* and the calls to GitHub that keep the promise (Publication implements   *)
(* it; src/lib/content/publication.ts, drafts.ts and publication-          *)
(* intents.ts).                                                            *)
(*                                                                         *)
(* A review of drafts lands on main at one instant, at most once, whole,   *)
(* and right after the version its drafts were saved on.  Afterwards, in   *)
(* parts or not at all, it is acknowledged: the receipt of a publication   *)
(* replaces none of a newer one, and of the drafts exactly those that      *)
(* landed are cleared.  Nothing else touches main or takes a draft away.   *)
(***************************************************************************)
EXTENDS Integers, Sequences

CONSTANTS
  Kinds,     \* the kinds of draft
  Edited,    \* the kinds the owner edits
  Versions   \* names for the versions of main

VARIABLES
  drafts,    \* drafts[k]: revision of the saved draft, 0 if there is none
  baseOf,    \* baseOf[v]: version that was running when revision v was saved
  history,   \* the versions of main, oldest first
  deployed,  \* the version that is running
  recorded   \* the version whose publication the receipt tells of, or 0

serviceVars == <<drafts, baseOf, history, deployed, recorded>>

Nothing == [k \in Kinds |-> 0]
Entry(version, reviewed, content) ==
  [version |-> version, reviewed |-> reviewed, content |-> content]
Newest == history[Len(history)]

\* Version w is version v or a later one.
Follows(v, w) ==
  \E m, n \in DOMAIN history : m <= n /\ history[m].version = v /\ history[n].version = w

ServiceInit ==
  /\ drafts = Nothing /\ baseOf = <<>>
  /\ history = <<Entry(1, Nothing, Nothing)>> /\ deployed = 1 /\ recorded = 0

ServiceSave(k) ==
  /\ drafts' = [drafts EXCEPT ![k] = Len(baseOf) + 1]
  /\ baseOf' = Append(baseOf, deployed)
  /\ UNCHANGED <<history, deployed, recorded>>

ServiceDiscard(k) ==
  /\ drafts' = [drafts EXCEPT ![k] = 0]
  /\ UNCHANGED <<baseOf, history, deployed, recorded>>

Fresh(version) == \A n \in DOMAIN history : history[n].version # version

\* Reviewed files become the reviewed drafts, the others stay as they are.
Over(reviewed) ==
  [k \in Kinds |-> IF reviewed[k] # 0 THEN reviewed[k] ELSE Newest.content[k]]

\* The drafts that were reviewed need not be the saved ones any more.
ServiceLand(version, reviewed) ==
  /\ Fresh(version)
  /\ reviewed # Nothing
  /\ \A n \in DOMAIN history : history[n].reviewed # reviewed
  /\ \A k \in Kinds : reviewed[k] # 0 => baseOf[reviewed[k]] = Newest.version
  /\ history' = Append(history, Entry(version, reviewed, Over(reviewed)))
  /\ UNCHANGED <<drafts, baseOf, deployed, recorded>>

\* Someone pushes code only, or an edit of one of the files.
ServicePush(version) ==
  /\ Fresh(version)
  /\ \/ /\ history' = Append(history, Entry(version, Nothing, Newest.content))
        /\ UNCHANGED baseOf
     \/ /\ \E k \in Kinds :
             history' = Append(history, Entry(version, Nothing,
                                              [Newest.content EXCEPT ![k] = Len(baseOf) + 1]))
        /\ baseOf' = Append(baseOf, 0)
  /\ UNCHANGED <<drafts, deployed, recorded>>

ServiceDeploy(version) ==
  /\ Follows(deployed, version)
  /\ deployed' = version
  /\ UNCHANGED <<drafts, baseOf, history, recorded>>

\* The publication of history[n] is acknowledged, as far as it gets.
ServiceAcknowledge(n, cleared) ==
  LET landed == history[n]
  IN  /\ landed.reviewed # Nothing
      /\ \/ UNCHANGED recorded
         \/ /\ recorded # 0 => Follows(recorded, landed.version)
            /\ recorded' = landed.version
      /\ \A k \in cleared : drafts[k] = landed.reviewed[k]
      /\ drafts' = [k \in Kinds |-> IF k \in cleared THEN 0 ELSE drafts[k]]
      /\ UNCHANGED <<baseOf, history, deployed>>

\* A failure or a conflict of any request is reported over any receipt.
ServiceReportsFailure ==
  /\ recorded' = 0
  /\ UNCHANGED <<drafts, baseOf, history, deployed>>

ServiceNext ==
  \/ \E k \in Edited : ServiceSave(k) \/ ServiceDiscard(k)
  \/ \E version \in Versions :
       \/ \E reviewed \in [Kinds -> 0..Len(baseOf)] : ServiceLand(version, reviewed)
       \/ ServicePush(version) \/ ServiceDeploy(version)
  \/ \E n \in DOMAIN history, cleared \in SUBSET Kinds : ServiceAcknowledge(n, cleared)
  \/ ServiceReportsFailure

ServiceSpec == ServiceInit /\ [][ServiceNext]_serviceVars
=============================================================================
