------------------------------- MODULE Upload -------------------------------
(***************************************************************************)
(* The v2 metrics transport: the uploader on the VPS                       *)
(* (ops/frontpage-metrics-upload.py) and the Durable Object that stages    *)
(* and serves its snapshots (src/lib/metrics/v2/cloudflare-upload.ts).     *)
(*                                                                         *)
(* The timer's uploader and an operator's run of the same program may      *)
(* overlap.  A request may outlive the client that gave up on it after its *)
(* five seconds, and be handled at any later time or never.  The object    *)
(* handles one request at a time: between its last await and its answer    *)
(* every handler is synchronous.                                           *)
(*                                                                         *)
(* Abstractions.  Snapshots are numbered in the order of collected_at, and *)
(* a file is known by its hash: each snapshot has a file of its own and    *)
(* shares a chunk with a neighbour.  The checks of the payloads' form      *)
(* always succeed, since the uploader only sends what it read whole.  An   *)
(* activation refused for its version or its receipt changes nothing, and  *)
(* is one that is never sent or, when it is late, never handled.           *)
(***************************************************************************)
EXTENDS Integers, FiniteSets

CONSTANTS
  Quota,        \* files the staging area holds (520)
  MaxSnapshot,  \* bound: snapshots ever published
  MaxLate,      \* bound: abandoned requests under way at a time
  MaxRuns       \* bound: runs of the operator

ASSUME UploadConstants == {Quota, MaxSnapshot, MaxLate, MaxRuns} \subseteq Nat

VARIABLES
  disk,        \* the last snapshot published on the VPS, 0 before the first
  stale,       \* snapshots up to this one are older than 45 seconds
  staged,      \* metrics_v2_files: the hashes of its rows
  aged,        \* those of them uploaded more than ten minutes ago
  active,      \* metrics_v2_active: its snapshot, 0 if there is no row
  enabled,     \* metrics_v2_active.enabled: the snapshot it was enabled for, or 0
  client,      \* the uploaders: what each waits for
  late,        \* abandoned requests that may still be handled
  runs         \* runs the operator has started

server == <<staged, aged, active, enabled>>
world == <<disk, stale>>
vars == <<server, world, client, late, runs>>

-----------------------------------------------------------------------------
Clients == {"timer", "operator"}
Snapshots == 1..MaxSnapshot

Files(n) == {<<"latest", n>>, <<"chunk", n \div 2>>}
Hashes == UNION {Files(n) : n \in Snapshots}
ActiveFiles == IF active = 0 THEN {} ELSE Files(active)

\* readCloudflareProjectionV2 joins the two tables.
Finds(file) == file \in ActiveFiles /\ file \in staged

NoHash == <<"none", 0>>
Request == [kind : {"prepare", "put", "commit", "activate", "deactivate"},
            snap : 0..MaxSnapshot, hash : Hashes \cup {NoHash}]
Req(kind, snap, hash) == [kind |-> kind, snap |-> snap, hash |-> hash]

Idle == [waits |-> {}, todo |-> {}, activates |-> FALSE]
Waiting(c) == client[c].waits # {}
Sent(c) == CHOOSE r \in client[c].waits : TRUE

Init ==
  /\ disk = 0 /\ stale = 0
  /\ staged = {} /\ aged = {}
  /\ active = 0 /\ enabled = 0
  /\ client = [c \in Clients |-> Idle]
  /\ late = {} /\ runs = 0

-----------------------------------------------------------------------------
(* The Durable Object.                                                     *)

\* Mutant: the active snapshot's files age like any other.
UselessAll == aged
\* Files of no use: not of the active snapshot and older than ten minutes.
Useless == aged \ ActiveFiles

\* Mutant: there is room for one snapshot only.
FullHalf(files) == Cardinality(files) >= Quota \div 2
Full(files) == Cardinality(files) >= Quota

\* validateSnapshot: every file is staged, and the latest values are fresh.
Whole(n) == Files(n) \subseteq staged /\ n > stale

\* Mutant: the last commit wins.
NewestLast(n) == FALSE
OutOfOrder(n) == active > n

Accepts(r) ==
  CASE r.kind = "put" -> ~Full(staged \ Useless)
    [] r.kind = "commit" -> Whole(r.snap) /\ ~OutOfOrder(r.snap)
    [] r.kind = "activate" -> active # 0 /\ Whole(active)
    [] OTHER -> TRUE

Put(r) ==
  /\ staged' = (staged \ Useless) \cup {r.hash}
  /\ aged' = aged \ (Useless \cup {r.hash})
  /\ UNCHANGED <<active, enabled>>

Commit(r) ==
  /\ active' = r.snap
  /\ staged' = staged \cap Files(r.snap) /\ aged' = aged \cap Files(r.snap)
  /\ UNCHANGED enabled

Activate(r) ==
  /\ enabled' = r.snap
  /\ UNCHANGED <<staged, aged, active>>

Deactivate ==
  /\ enabled' = 0
  /\ UNCHANGED <<staged, aged, active>>

\* A refused request is rolled back and answered with 400.
Handle(r) ==
  \/ Accepts(r) /\ r.kind = "put" /\ Put(r)
  \/ Accepts(r) /\ r.kind = "commit" /\ Commit(r)
  \/ Accepts(r) /\ r.kind = "activate" /\ Activate(r)
  \/ r.kind = "deactivate" /\ Deactivate
  \/ r.kind = "prepare" /\ UNCHANGED server
  \/ ~Accepts(r) /\ UNCHANGED server

-----------------------------------------------------------------------------
(* The uploaders.                                                          *)

Sends(c, r, todo) ==
  client' = [client EXCEPT ![c] = [waits |-> {r}, todo |-> todo, activates |-> @.activates]]

\* v2_snapshot: what was read is the published snapshot, and fresh.
StartUpload(c, activates) ==
  /\ ~Waiting(c) /\ disk > stale
  /\ client' = [client EXCEPT ![c] =
       [waits |-> {Req("prepare", disk, NoHash)}, todo |-> {}, activates |-> activates]]
  /\ UNCHANGED <<server, late, world>>

TimerUploads == StartUpload("timer", FALSE) /\ UNCHANGED runs

\* --activate, once the first acceptance was approved.
OperatorActivates ==
  /\ runs < MaxRuns /\ runs' = runs + 1
  /\ StartUpload("operator", TRUE)

\* --deactivate
OperatorDeactivates ==
  /\ ~Waiting("operator")
  /\ runs < MaxRuns /\ runs' = runs + 1
  /\ client' = [client EXCEPT !["operator"] =
                  [Idle EXCEPT !.waits = {Req("deactivate", 0, NoHash)}]]
  /\ UNCHANGED <<server, late, world>>

\* The missing files are uploaded one by one, and then the snapshot committed.
NextUpload(c, snap, todo) ==
  \/ /\ todo = {}
     /\ Sends(c, Req("commit", snap, NoHash), {})
  \/ \E h \in todo : Sends(c, Req("put", snap, h), todo \ {h})

\* After the last answer the timer's upload is done; an activation goes on,
\* unless its second acceptance is not approved.
AfterCommit(c, snap) ==
  \/ client' = [client EXCEPT ![c] = Idle]
  \/ /\ client[c].activates
     /\ Sends(c, Req("activate", snap, NoHash), {})

\* A request is handled and its client goes on with the answer.
Answered(c) ==
  /\ Waiting(c)
  /\ LET r == Sent(c)
     IN  /\ Handle(r)
         /\ \/ r.kind = "prepare" /\ NextUpload(c, r.snap, Files(r.snap) \ staged)
            \/ r.kind = "put" /\ Accepts(r) /\ NextUpload(c, r.snap, client[c].todo)
            \/ r.kind = "commit" /\ Accepts(r) /\ AfterCommit(c, r.snap)
            \/ /\ r.kind \in {"activate", "deactivate"} \/ ~Accepts(r)
               /\ client' = [client EXCEPT ![c] = Idle]
  /\ UNCHANGED <<late, world, runs>>

\* The five seconds pass, or the client is killed: its request may be lost,
\* and may still come.  A late prepare would change nothing.
GivesUp(c) ==
  /\ Waiting(c)
  /\ \/ /\ Cardinality(late) < MaxLate /\ Sent(c).kind # "prepare"
        /\ late' = late \cup {Sent(c)}
     \/ UNCHANGED late
  /\ client' = [client EXCEPT ![c] = Idle]
  /\ UNCHANGED <<server, world, runs>>

\* A request nobody waits for is handled.
LateHandled ==
  \E r \in late : /\ Handle(r)
                  /\ late' = late \ {r}
                  /\ UNCHANGED <<client, world, runs>>

-----------------------------------------------------------------------------
(* The surroundings.                                                       *)

Publish ==
  /\ disk < MaxSnapshot
  /\ disk' = disk + 1
  /\ UNCHANGED <<server, client, late, stale, runs>>

Expire ==
  /\ stale < disk
  /\ stale' = stale + 1
  /\ UNCHANGED <<server, client, late, disk, runs>>

\* Ten minutes after its upload, and no sooner than the snapshots it was for
\* are stale, a file is old.  The last snapshot stands for all that follow:
\* it may be fresh for ever, and its own files new.
Age ==
  \E h \in staged \ aged :
    /\ \A n \in 1..disk : h \in Files(n) => n <= stale
    /\ aged' = aged \cup {h}
    /\ UNCHANGED <<staged, active, enabled, world, client, late, runs>>

Next ==
  \/ TimerUploads \/ OperatorActivates \/ OperatorDeactivates
  \/ \E c \in Clients : Answered(c) \/ GivesUp(c)
  \/ LateHandled
  \/ Publish \/ Expire \/ Age

\* The timer fires again and again, a request that its client waits for is
\* answered, and time passes: snapshots before the last grow stale, and files
\* old.
Fairness ==
  /\ WF_vars(TimerUploads)
  /\ \A c \in Clients : WF_vars(Answered(c))
  /\ WF_vars(stale < MaxSnapshot - 1 /\ Expire)
  /\ WF_vars(Age)

Spec == Init /\ [][Next]_vars /\ Fairness

-----------------------------------------------------------------------------
(* Properties.                                                             *)

\* The variables have their types.
TypeOK ==
  /\ {disk, stale, active, enabled} \subseteq 0..MaxSnapshot
  /\ stale <= disk /\ active <= disk /\ runs \in 0..MaxRuns
  /\ staged \subseteq Hashes /\ aged \subseteq staged
  /\ \A c \in Clients : /\ client[c].waits \subseteq Request
                        /\ Cardinality(client[c].waits) <= 1
                        /\ client[c].todo \subseteq Hashes
  /\ late \subseteq Request

\* "Failed/incomplete/out-of-order commits preserve the last complete
\* snapshot": whatever is reclaimed, uploaded late or committed by another
\* uploader, every file of the snapshot that readers are given is there.
ActiveWhole == \A file \in ActiveFiles : Finds(file)

\* Readers never go back to an older snapshot, although a commit may be
\* handled long after its client has given up.
NeverBack == [][active' >= active]_vars

\* "Staging is capped": the quota bounds what is stored, with uploads of
\* several snapshots, finished or not, side by side.
StagingBounded == Cardinality(staged) <= Quota

\* Version 2 is only served from the snapshot its activation was made for,
\* or from a later one.
ServedAsAccepted == active >= enabled

\* What is served is whole and what it was accepted as, within the quota,
\* whatever two uploaders and late requests do.
UploadSound == TypeOK /\ ActiveWhole /\ StagingBounded /\ ServedAsAccepted

\* The requests that a client k can still make before it rests.
Asks(k, kind) == \E r \in k.waits : r.kind = kind
RequestsLeft(k) ==
  IF k.waits = {} THEN 0
  ELSE IF Asks(k, "prepare") THEN 5
  ELSE IF Asks(k, "put") THEN 3 + Cardinality(k.todo)
  ELSE IF Asks(k, "commit") THEN 2
  ELSE 1

\* A run of the uploader ends: whatever it is answered, and whatever the other
\* uploader and late requests do to the staging area meanwhile, it never asks
\* again for what it has asked for.
UploadsEnd ==
  [][\A c \in Clients : Waiting(c) =>
       \/ client'[c] = client[c]
       \/ RequestsLeft(client'[c]) < RequestsLeft(client[c])]_vars

\* What interrupted uploads left behind does not keep the last snapshot out
\* for good: once it is old, no file that is missing is refused.
RoomForLast ==
  disk > 0 /\ staged \ aged \subseteq ActiveFiles \cup Files(disk)
    => \A h \in Files(disk) \ staged : Accepts(Req("put", disk, h))

\* However much staging the interrupted uploads left behind, the published
\* snapshot is served in the end unless it grows stale first, once clients no
\* longer give up before they are answered.
UploadsResume ==
  <>[][\A c \in Clients : GivesUp(c) => Answered(c)]_vars
    => []<>(active = disk \/ stale = disk)
=============================================================================
