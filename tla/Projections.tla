---------------------------- MODULE Projections ----------------------------
(***************************************************************************)
(* The projection files of the metrics daemon and the snapshot an uploader *)
(* takes of them (ops/frontpage_metrics_v2/{projections,publisher}.py and  *)
(* v2_snapshot of ops/frontpage-metrics-upload.py).                        *)
(*                                                                         *)
(* Both sides go through the files one at a time and share no lock: the    *)
(* daemon replaces each file atomically, the uploader reads each file once *)
(* and three of them a second time.                                        *)
(*                                                                         *)
(* Abstractions.  Time is the number of the 15-second cycle.  The content  *)
(* of a file is the cycle it was made from; a daily chunk holds the cycles *)
(* of its day, and is known by the last of them.  The two incident lists   *)
(* and the one-hour series, checked alike, are one file; so are the minute *)
(* and quarter-hour chunks of a day.  Retention removes no day.  What is   *)
(* still to be written or read is a set: both sides go through the files   *)
(* in one order (Rank).                                                    *)
(***************************************************************************)
EXTENDS Integers, FiniteSetsExt

CONSTANTS
  Bucket,    \* cycles per rollup bucket
  Day,       \* cycles per UTC day
  MaxCycle   \* bound: the last cycle

ASSUME ProjectionConstants ==
  /\ Bucket \in Nat \ {0} /\ Day \in Nat \ {0} /\ Day % Bucket = 0
  /\ MaxCycle \in Nat

VARIABLES
  db,        \* the last cycle of each day committed to the database, 0 if none
  dir,       \* the projection files
  unwritten,   \* files the current publication has still to write
  uploader   \* [pc, todo, got]: pc "holds" once a snapshot is accepted

fileVars == <<db, dir, unwritten, uploader>>

-----------------------------------------------------------------------------
Cycles == 1..MaxCycle
DayOf(c) == c \div Day
BucketOf(c) == c \div Bucket
Days == {DayOf(c) : c \in Cycles}

Single(name) == <<name, 0>>
PublicLatest == Single("publicLatest")
OwnerLatest == Single("ownerLatest")
Hour == Single("1h")
Manifest == Single("manifest")
Chunk(d) == <<"day", d>>

\* Files that carry the time of the publication itself.
Heads == {PublicLatest, OwnerLatest, Hour}
Chunks == {Chunk(d) : d \in Days}
Files == Heads \cup Chunks \cup {Manifest}

KnownDays == {d \in Days : db[d] # 0}
Latest == Max({db[d] : d \in Days})

Absent == {}  \* a file that does not exist

\* build_projection_files: the content of each file; a manifest is its days.
Content(f) ==
  IF f = Manifest THEN KnownDays
  ELSE IF f \in Heads THEN {Latest}
  ELSE {db[f[2]]}

\* The order of the projection maps, in which an uploader reads as well.
Rank(f) ==
  CASE f = PublicLatest -> 0
    [] f = OwnerLatest -> 1
    [] f = Hour -> 2
    [] f = Manifest -> DayOf(MaxCycle) + 4
    [] OTHER -> f[2] + 3
First(f, files) == f \in files /\ \A g \in files : Rank(f) <= Rank(g)

ChunksOf(days) == {Chunk(d) : d \in days}
\* What an uploader reads after the manifest, and what it reads again.
ToRead(days) == Heads \cup ChunksOf(days)
ToReread == {PublicLatest, OwnerLatest, Manifest}

NoFiles == [f \in Files |-> Absent]
NotReading == [pc |-> "idle", todo |-> {}, got |-> NoFiles]

FilesInit ==
  /\ db = [d \in Days |-> 0]
  /\ dir = NoFiles
  /\ unwritten = {}
  /\ uploader = NotReading

-----------------------------------------------------------------------------
(* The daemon.                                                             *)

\* A cycle is committed and its publication begins.  Missed slots leave gaps.
CommitCycle ==
  /\ unwritten = {}
  /\ \E c \in Cycles : c > Latest /\ db' = [db EXCEPT ![DayOf(c)] = c]
  /\ unwritten' = Heads \cup ChunksOf(KnownDays') \cup {Manifest}
  /\ UNCHANGED <<dir, uploader>>

\* A chunk of a past day that exists already is kept as it is.
Sealed(f) == f \in Chunks /\ dir[f] # Absent /\ f[2] < DayOf(Latest)

\* _atomic_write
WriteFile ==
  /\ \E f \in unwritten :
       /\ First(f, unwritten) /\ unwritten' = unwritten \ {f}
       /\ dir' = IF Sealed(f) THEN dir ELSE [dir EXCEPT ![f] = Content(f)]
  /\ UNCHANGED <<db, uploader>>

\* A write fails or the daemon is killed: the rest is not written.
PublicationStops ==
  /\ unwritten # {}
  /\ unwritten' = {}
  /\ UNCHANGED <<db, dir, uploader>>

-----------------------------------------------------------------------------
(* The uploader.                                                           *)

\* The manifest is read first.
OpensManifest ==
  /\ uploader.pc \in {"idle", "holds"}
  /\ dir[Manifest] # Absent
  /\ uploader' = [pc |-> "read", todo |-> ToRead(dir[Manifest]),
                  got |-> [NoFiles EXCEPT ![Manifest] = dir[Manifest]]]
  /\ UNCHANGED <<db, dir, unwritten>>

ReadFile ==
  /\ uploader.pc = "read"
  /\ \E f \in uploader.todo :
       /\ First(f, uploader.todo)
       /\ uploader' = IF dir[f] = Absent THEN NotReading
                      ELSE [uploader EXCEPT !.got[f] = dir[f], !.todo = @ \ {f}]
  /\ UNCHANGED <<db, dir, unwritten>>

Got(f) == Max(uploader.got[f])
Collected == Got(OwnerLatest)

HeadsAgree == \A f \in Heads : Got(f) = Collected

RollupsAgree ==
  DayOf(Collected) \in uploader.got[Manifest] =>
    BucketOf(Got(Chunk(DayOf(Collected)))) = BucketOf(Collected)

\* The files are compared: publications and rollups must be complete.
Compare ==
  /\ uploader.pc = "read" /\ uploader.todo = {}
  /\ uploader' = IF HeadsAgree /\ RollupsAgree
                   THEN [uploader EXCEPT !.pc = "reread", !.todo = ToReread]
                   ELSE NotReading
  /\ UNCHANGED <<db, dir, unwritten>>

\* Mutant: a changed file is not noticed.
NeverChanged(f) == FALSE
Changed(f) == dir[f] # uploader.got[f]

Reread ==
  /\ uploader.pc = "reread"
  /\ \E f \in uploader.todo :
       /\ First(f, uploader.todo)
       /\ uploader' = IF Changed(f) THEN NotReading ELSE [uploader EXCEPT !.todo = @ \ {f}]
  /\ UNCHANGED <<db, dir, unwritten>>

Accept ==
  /\ uploader.pc = "reread" /\ uploader.todo = {}
  /\ uploader' = [uploader EXCEPT !.pc = "holds"]
  /\ UNCHANGED <<db, dir, unwritten>>

FilesNext == CommitCycle \/ WriteFile \/ PublicationStops
          \/ OpensManifest \/ ReadFile \/ Compare \/ Reread \/ Accept

FilesSpec == FilesInit /\ [][FilesNext]_fileVars

-----------------------------------------------------------------------------
(* Properties.                                                             *)

\* The variables have their types, and a chunk only holds cycles of its day.
FilesTypeOK ==
  /\ \A d \in Days : db[d] = 0 \/ DayOf(db[d]) = d
  /\ \A f \in Heads : dir[f] \subseteq Cycles
  /\ \A d \in Days : \A c \in dir[Chunk(d)] : DayOf(c) = d
  /\ unwritten \subseteq Files
  /\ uploader.pc \in {"idle", "read", "reread", "holds"}

\* The manifest only lists chunks that exist, whenever a publication stops.
ManifestTrue ==
  \A d \in dir[Manifest] : dir[Chunk(d)] # Absent

Held == uploader.pc = "holds"

\* An accepted snapshot is of one cycle: the files of the publication agree,
\* and the chunk of the day is of the same rollup bucket and never newer
\* than the latest values, although no lock is held while it is read.
SnapshotOfOneCycle ==
  Held =>
    /\ \A f \in Heads : uploader.got[f] = {Collected}
    /\ DayOf(Collected) \in uploader.got[Manifest] =>
         LET c == Got(Chunk(DayOf(Collected)))
         IN  c <= Collected /\ BucketOf(c) = BucketOf(Collected)

\* "Closed daily chunks are immutable": a chunk of an earlier day in an
\* accepted snapshot is what the file is for ever.
ClosedForEver ==
  Held => \A d \in uploader.got[Manifest] :
            d < DayOf(Collected) => uploader.got[Chunk(d)] = dir[Chunk(d)]

\* What an uploader holds is true of one cycle and stays true of closed days,
\* although neither side locks the files.
SnapshotTrue == FilesTypeOK /\ ManifestTrue /\ SnapshotOfOneCycle /\ ClosedForEver

\* docs/cloudflare-v2-activation.md:5, "It rejects partial publication": an
\* accepted snapshot lists the chunk of its own day.
PublicationWhole == Held => DayOf(Collected) \in uploader.got[Manifest]
=============================================================================
