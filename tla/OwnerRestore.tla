---------------------------- MODULE OwnerRestore ----------------------------
(***************************************************************************)
(* Backup and restore of the owner state: exportSqlOwnerState and          *)
(* restoreSqlOwnerState behind /__operator/owner-state (owner-maintenance  *)
(* .ts), the operator's tool (ops/frontpage-owner-state.mjs with           *)
(* ops/owner-state-transport.mjs), and restoreFileOwnerState.              *)
(*                                                                         *)
(* A restore over HTTP is one PUT and one GET.  The PUT may be lost before *)
(* or after it is handled, and may be handled long after the tool gave up  *)
(* (15 s).  The operator follows docs/owner-state-recovery.md: writes are  *)
(* stopped and the restore window is opened; after an unknown outcome the  *)
(* same backup is tried again; the window is closed, which restarts the    *)
(* object, before writes are resumed.                                      *)
(*                                                                         *)
(* Abstractions.  A state is a member of Contents; digests, size caps and  *)
(* the credentials are left out: a request without them gets 404.          *)
(***************************************************************************)
EXTENDS Integers, FiniteSets

CONSTANTS
  Contents,   \* owner states
  Nothing,    \* no backup yet
  Parts,      \* the records of a backup
  Restorers,  \* concurrent runs of restoreFileOwnerState
  MaxPuts     \* bound: PUTs ever sent

ASSUME OwnerRestoreConstants ==
  /\ Nothing \notin Contents
  /\ MaxPuts \in Nat

VARIABLES
  sql,      \* the table owner_state
  writes,   \* may the owner save?
  window,   \* OWNER_RESTORE_ENABLED
  backup,   \* the backup file
  net,      \* number of PUTs that are on their way
  admitted, \* number of PUTs past the check of the window, reading the body
  tool,     \* where the operator's tool is
  sent,     \* PUTs sent so far
  dest,     \* the records in the destination directory, <<>> when absent
  staging   \* staging[r]: the directory restorer r fills

restoreVars == <<sql, writes, window, backup, net, admitted, tool, sent, dest,
                 staging>>
service == <<sql, writes, window>>
wire == <<net, admitted, sent>>
disk == <<dest, staging>>

Stages == {"idle", "filling", "moving"}
NoDirectory == [there |-> FALSE, parts |-> {}]
Directory(parts) == [there |-> TRUE, parts |-> parts]

RestoreInit ==
  /\ sql \in Contents
  /\ writes = TRUE
  /\ window = FALSE
  /\ backup = Nothing
  /\ net = 0 /\ admitted = 0 /\ sent = 0
  /\ tool = "idle"
  /\ dest = NoDirectory
  /\ staging = [r \in Restorers |-> [at |-> "idle", parts |-> {}]]

-----------------------------------------------------------------------------
(* The live object.                                                        *)

OwnerSaves ==
  /\ writes
  /\ sql' \in Contents
  /\ UNCHANGED <<writes, window, backup, wire, tool, disk>>

\* --action export --mode cloudflare writes a new backup file; the backup
\* being restored stays the same until the recovery is over.
Export ==
  /\ tool = "idle" /\ writes
  /\ backup' = sql
  /\ UNCHANGED <<service, wire, tool, disk>>

\* Requests of an earlier recovery have been handled or lost by then.
OpenWindow ==
  /\ tool = "idle" /\ backup # Nothing
  /\ net = 0
  /\ writes /\ ~window
  /\ writes' = FALSE /\ window' = TRUE
  /\ UNCHANGED <<sql, backup, wire, tool, disk>>

\* Setting OWNER_RESTORE_ENABLED again restarts the object: requests that
\* are reading their body die with it.
CloseWindow ==
  /\ tool = "confirmed" /\ window
  /\ window' = FALSE
  /\ admitted' = 0
  /\ UNCHANGED <<sql, writes, backup, net, sent, tool, disk>>
Resume ==
  /\ tool = "confirmed" /\ ~window
  /\ writes' = TRUE
  /\ tool' = "idle"
  /\ UNCHANGED <<sql, window, backup, wire, disk>>

\* restoreRemoteOwnerState: one PUT per run of the tool.
Put ==
  /\ tool \in {"idle", "unknown"}
  /\ window /\ ~writes
  /\ sent < MaxPuts
  /\ net' = net + 1
  /\ sent' = sent + 1
  /\ tool' = "put"
  /\ UNCHANGED <<service, backup, admitted, disk>>

\* handleOwnerMaintenance looks at the window, awaits the body, and replaces
\* the table in one transaction.  Mutant: it looks too late.
Unguarded == TRUE
Admits == window
Admit ==
  /\ net > 0
  /\ Admits
  /\ net' = net - 1
  /\ admitted' = admitted + 1
  /\ UNCHANGED <<service, backup, sent, tool, disk>>
Forbid ==
  /\ net > 0
  /\ ~window
  /\ net' = net - 1
  /\ UNCHANGED <<service, backup, admitted, sent, tool, disk>>
\* The tool reads the state back whether or not the answer reaches it.
Restore ==
  /\ admitted > 0
  /\ sql' = backup
  /\ admitted' = admitted - 1
  /\ UNCHANGED <<writes, window, backup, net, sent, tool, disk>>
\* The request is lost, its body does not arrive, or it is refused: 404
\* without the credentials, 415 and 400 for what is no backup of this target.
Lose ==
  /\ \/ net > 0 /\ net' = net - 1 /\ UNCHANGED admitted
     \/ admitted > 0 /\ admitted' = admitted - 1 /\ UNCHANGED net
  /\ UNCHANGED <<service, backup, sent, tool, disk>>

\* The PUT is answered, or fails for the tool: it reads the state back.
Proceed ==
  /\ tool = "put"
  /\ tool' = "read"
  /\ UNCHANGED <<service, backup, wire, disk>>
\* Mutant: every failure is taken for a lost answer.
Trusting == TRUE
Equal == sql = backup
ReadBack ==
  /\ tool = "read"
  /\ tool' = IF Equal THEN "confirmed" ELSE "unknown"
  /\ UNCHANGED <<service, backup, wire, disk>>
ReadFails ==
  /\ tool = "read"
  /\ tool' = "unknown"
  /\ UNCHANGED <<service, backup, wire, disk>>
\* The operator exports and compares, before trying again.
Inspect ==
  /\ tool = "unknown"
  /\ tool' = "read"
  /\ UNCHANGED <<service, backup, wire, disk>>

-----------------------------------------------------------------------------
(* restoreFileOwnerState.                                                  *)

\* A fresh destination is required; the records are staged beside it.
Stage(r) ==
  /\ staging[r].at = "idle"
  /\ ~dest.there
  /\ staging' = [staging EXCEPT ![r] = [at |-> "filling", parts |-> {}]]
  /\ UNCHANGED <<service, backup, wire, tool, dest>>
Write(r, x) ==
  /\ staging[r].at = "filling"
  /\ x \notin staging[r].parts
  /\ staging' = [staging EXCEPT ![r].parts = @ \cup {x}]
  /\ UNCHANGED <<service, backup, wire, tool, dest>>
ReadsBack(r) == staging[r].parts = Parts
Check(r) ==
  /\ staging[r].at = "filling"
  /\ ReadsBack(r)
  /\ staging' = [staging EXCEPT ![r].at = "moving"]
  /\ UNCHANGED <<service, backup, wire, tool, dest>>
\* rename fails on a directory that has entries; a failed run removes its
\* staging directory (finally), a killed one leaves it.
Move(r) ==
  /\ staging[r].at = "moving"
  /\ dest' = IF dest.there THEN dest ELSE Directory(staging[r].parts)
  /\ staging' = [staging EXCEPT ![r] = [at |-> "idle", parts |-> {}]]
  /\ UNCHANGED <<service, backup, wire, tool>>
Stop(r) ==
  /\ staging[r].at # "idle"
  /\ staging' = [staging EXCEPT ![r] = [at |-> "idle", parts |-> {}]]
  /\ UNCHANGED <<service, backup, wire, tool, dest>>

RestoreNext ==
  \/ OwnerSaves \/ Export \/ OpenWindow \/ CloseWindow \/ Resume
  \/ Put \/ Admit \/ Forbid \/ Restore \/ Lose
  \/ Proceed \/ ReadBack \/ ReadFails \/ Inspect
  \/ \E r \in Restorers :
       \/ Stage(r) \/ Check(r) \/ Move(r) \/ Stop(r)
       \/ \E x \in Parts : Write(r, x)

RestoreSpec == RestoreInit /\ [][RestoreNext]_restoreVars

-----------------------------------------------------------------------------
\* What is reported as restored is the whole backup until the owner writes
\* again: no lost answer, late PUT or failed copy makes the report untrue,
\* neither for the table nor for a restored directory.
RestoredIsBackup ==
  /\ tool = "confirmed" => sql = backup
  /\ dest.there => dest.parts = Parts

\* A PUT that is handled late never replaces what the owner has saved since.
OwnerWritesKept == [][writes => OwnerSaves \/ UNCHANGED sql]_restoreVars
=============================================================================
