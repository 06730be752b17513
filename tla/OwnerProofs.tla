---------------------------- MODULE OwnerProofs ----------------------------
(***************************************************************************)
(* The owner's state, for any number of processes, drafts and requests.    *)
(*                                                                         *)
(* OwnerState keeps the promise of DraftStore: the lock file excludes      *)
(* (LockExcludes), and every step of the files is a step of the store or a *)
(* stutter (Implements).  Of OwnerRestore: a restore reports no more than  *)
(* it has done (RestoreTrue), and a PUT that arrives late never undoes     *)
(* what the owner saved (SavesKept).                                       *)
(***************************************************************************)
EXTENDS OwnerState, OwnerRestore, TLAPS

\* What a process in each phase has done so far.
PhaseOK(c) ==
  /\ c.at = "idle" => c = Idle
  /\ c.at # "idle" => c.rq \in Requests
  /\ c.at \in {"asked", "open", "write", "merge"} => c.out = "none"
  /\ c.at = "asked" => c.left = c.rq.keys
  /\ c.at = "open" => \A k \in c.rq.keys \ c.left :
                        c.got[k] = Legacy => c.rq.op = "export"
  /\ c.at = "write" => /\ c.rq.op \in {"save", "discard"}
                       /\ \A k \in c.rq.keys : c.got[k] = c.rq.want[k]
                       /\ c.left = {}
  /\ c.at = "merge" => c.rq.op = "mutate"
Phased == \A p \in Procs : PhaseOK(proc[p])

IInv == OwnerTypeOK /\ LockHolds /\ Phased

-----------------------------------------------------------------------------
(* The requests.                                                           *)

RequestShape ==
  [op : {"save", "discard", "clear", "bundle", "export", "mutate", "none"},
   keys : SUBSET Keys, want : [Keys -> Revs \cup {None}],
   new : Revs \cup {None}]

\* Every request has the shape of one, and only saves and changes of the
\* record bring a revision.
LEMMA RequestsTyped ==
  ASSUME NEW rq \in Requests
  PROVE  /\ rq \in RequestShape
         /\ rq.op # "none"
         /\ rq.op \in {"save", "mutate"} => rq.new \in Revs
         /\ rq.op \in {"clear", "bundle", "export"} => rq.keys = Keys
         /\ rq.op = "mutate" => rq.keys = {}
         /\ rq.op = "discard" => rq.new = None
BY DEF Requests, Store!Requests, RequestShape, Store!Absent

LEMMA NoRequestTyped == Store!NoRequest \in RequestShape
BY DEF Store!NoRequest, RequestShape, Store!Absent

LEMMA AnyRequestTyped ==
  ASSUME NEW rq \in Requests \cup {Store!NoRequest}
  PROVE  rq \in RequestShape
BY RequestsTyped, NoRequestTyped

LEMMA StartTyped ==
  ASSUME NEW at \in Phases, NEW rq \in Requests \cup {Store!NoRequest}
  PROVE  Start(at, rq) \in Process
BY AnyRequestTyped DEF Start, Process, Absent, Values, RequestShape

LEMMA IdleTyped == Idle \in Process
BY StartTyped DEF Idle, Phases

LEMMA StartFields ==
  ASSUME NEW at, NEW rq
  PROVE  /\ Start(at, rq).at = at
         /\ Start(at, rq).rq = rq
         /\ Start(at, rq).left = rq.keys
         /\ Start(at, rq).got = Absent
         /\ Start(at, rq).base = {}
         /\ Start(at, rq).out = "none"
BY DEF Start

LEMMA IdleFields == Idle.at = "idle" /\ Idle.rq = Store!NoRequest
                    /\ Idle.out = "none"
BY StartFields DEF Idle

-----------------------------------------------------------------------------
LEMMA InitInv == OwnerInit => IInv
<1> SUFFICES ASSUME OwnerInit PROVE IInv
  OBVIOUS
<1>1. OwnerTypeOK
  BY IdleTyped DEF OwnerInit, OwnerTypeOK, Values
<1>2. \A p \in Procs : proc[p] = Idle
  BY DEF OwnerInit
<1>3. \A p \in Procs : proc[p].at = "idle"
  BY <1>2, IdleFields
<1>4. LockHolds
  BY <1>3 DEF LockHolds, Exclusive, ReadsAreCurrent, Inside
<1>5. Phased
  <2> SUFFICES ASSUME NEW p \in Procs PROVE PhaseOK(proc[p])
    BY DEF Phased
  <2> QED
    BY <1>2, <1>3 DEF PhaseOK
<1> QED
  BY <1>1, <1>4, <1>5 DEF IInv

-----------------------------------------------------------------------------
(* Steps.  An action moves one process p from proc[p] to c; what has to be *)
(* shown about it is what it leaves in the files, and c.                    *)

\* A step that leaves the files alone and takes p to a good state.
LEMMA MoveKeeps ==
  ASSUME IInv, NEW p \in Procs, NEW c \in Process,
         proc' = [proc EXCEPT ![p] = c],
         UNCHANGED files,
         used' \subseteq Revs,
         PhaseOK(c),
         c.at \in Inside => (proc[p].at \in Inside \/ ~locked) /\ locked',
         locked' \in BOOLEAN,
         c.at \notin Inside => locked' = locked \/ proc[p].at \in Inside,
         c.at \in {"open", "write"} =>
           \A k \in c.rq.keys \ c.left : c.got[k] = file[k],
         c.at = "merge" => c.base = record
  PROVE  IInv'
<1>1. proc'[p] = c /\ \A q \in Procs : q # p => proc'[q] = proc[q]
  BY DEF IInv, OwnerTypeOK
<1>2. OwnerTypeOK'
  BY DEF IInv, OwnerTypeOK, files
<1>3. \A q \in Procs : q # p /\ proc[q].at \in Inside =>
                          locked' /\ c.at \notin Inside
  BY DEF IInv, LockHolds, Exclusive
<1>4. Exclusive'
  BY <1>1, <1>3 DEF Exclusive, IInv, LockHolds
<1>5. ReadsAreCurrent'
  BY <1>1 DEF ReadsAreCurrent, IInv, LockHolds, files
<1>6. Phased'
  <2> SUFFICES ASSUME NEW q \in Procs PROVE PhaseOK(proc'[q])
    BY DEF Phased, PhaseOK
  <2>1. CASE q = p
    BY <2>1, <1>1
  <2>2. CASE q # p
    BY <2>2, <1>1 DEF IInv, Phased
  <2> QED
    BY <2>1, <2>2
<1> QED
  BY <1>2, <1>4, <1>5, <1>6 DEF IInv, LockHolds

\* A step inside the lock that changes a file: nobody else relies on it.
LEMMA WriteKeeps ==
  ASSUME IInv, NEW p \in Procs, NEW c \in Process,
         proc' = [proc EXCEPT ![p] = c],
         proc[p].at \in Inside, c.at \in Inside,
         locked' = locked,
         file' \in [Keys -> Values], record' \subseteq Revs,
         used' \subseteq Revs,
         PhaseOK(c),
         c.at \in {"open", "write"} =>
           \A k \in c.rq.keys \ c.left : c.got[k] = file'[k],
         c.at = "merge" => c.base = record'
  PROVE  IInv'
<1>1. proc'[p] = c /\ \A q \in Procs : q # p => proc'[q] = proc[q]
  BY DEF IInv, OwnerTypeOK
<1>2. OwnerTypeOK'
  BY DEF IInv, OwnerTypeOK
<1>3. \A q \in Procs : q # p => proc[q].at \notin Inside
  BY DEF IInv, LockHolds, Exclusive
<1>4. Exclusive'
  BY <1>1, <1>3 DEF Exclusive, IInv, LockHolds
<1>5. ReadsAreCurrent'
  BY <1>1, <1>3 DEF ReadsAreCurrent, Inside
<1>6. Phased'
  <2> SUFFICES ASSUME NEW q \in Procs PROVE PhaseOK(proc'[q])
    BY DEF Phased, PhaseOK
  <2>1. CASE q = p
    BY <2>1, <1>1
  <2>2. CASE q # p
    BY <2>2, <1>1 DEF IInv, Phased
  <2> QED
    BY <2>1, <2>2
<1> QED
  BY <1>2, <1>4, <1>5, <1>6 DEF IInv, LockHolds

-----------------------------------------------------------------------------
(* The new value of proc[p] in the three common shapes of a step.          *)

LEMMA ProcFacts ==
  ASSUME IInv, NEW p \in Procs
  PROVE  /\ proc[p] \in Process
         /\ PhaseOK(proc[p])
         /\ proc[p].rq \in RequestShape
BY AnyRequestTyped DEF IInv, OwnerTypeOK, Phased, Process

LEMMA FinishTyped ==
  ASSUME IInv, NEW p \in Procs, NEW out \in {"none", "ok", "stale", "refused"},
         NEW at \in {"close", "done"}, proc[p].at # "idle"
  PROVE  LET c == [proc[p] EXCEPT !.at = at, !.out = out]
         IN  c \in Process /\ PhaseOK(c) /\ c.at = at
BY ProcFacts DEF Process, PhaseOK, Phases, Inside

LEMMA GotoTyped ==
  ASSUME IInv, NEW p \in Procs, NEW at \in Phases
  PROVE  LET c == [proc[p] EXCEPT !.at = at]
         IN  /\ c \in Process
             /\ c.at = at /\ c.out = proc[p].out /\ c.rq = proc[p].rq
             /\ c.got = proc[p].got /\ c.left = proc[p].left
             /\ c.base = proc[p].base
BY ProcFacts DEF Process

\* A step that only ends the operation.
LEMMA FinishKeeps ==
  ASSUME IInv, NEW p \in Procs, NEW out \in {"none", "ok", "stale", "refused"},
         proc[p].at \in Inside, Finish(p, out),
         UNCHANGED <<files, used, locked>>
  PROVE  IInv'
<1> DEFINE c == [proc[p] EXCEPT !.at = "close", !.out = out]
<1>1. c \in Process /\ PhaseOK(c) /\ c.at = "close"
  BY FinishTyped DEF Inside
<1>2. proc' = [proc EXCEPT ![p] = c]
  BY DEF Finish
<1>3. used' \subseteq Revs /\ locked' \in BOOLEAN /\ locked'
  BY DEF IInv, OwnerTypeOK, LockHolds, Exclusive
<1> HIDE DEF c
<1> QED
  BY <1>1, <1>2, <1>3, MoveKeeps DEF Inside

-----------------------------------------------------------------------------
LEMMA AskKeeps ==
  ASSUME IInv, NEW p \in Procs, NEW rq \in Requests, Ask(p, rq)
  PROVE  IInv'
<1> DEFINE c == Start("asked", rq)
<1>1. c \in Process
  BY StartTyped DEF Phases
<1>2. PhaseOK(c) /\ c.at = "asked"
  BY StartFields DEF PhaseOK
<1>3. used' \subseteq Revs
  BY RequestsTyped DEF Ask, IInv, OwnerTypeOK, RequestShape
<1>4. proc' = [proc EXCEPT ![p] = c] /\ UNCHANGED files /\ locked' = locked
  BY DEF Ask
<1>5. locked' \in BOOLEAN
  BY <1>4 DEF IInv, OwnerTypeOK
<1> HIDE DEF c
<1> QED
  BY <1>1, <1>2, <1>3, <1>4, <1>5, MoveKeeps DEF Inside

LEMMA LockKeeps ==
  ASSUME IInv, NEW p \in Procs, Lock(p)
  PROVE  IInv'
<1> DEFINE c == [proc[p] EXCEPT !.at = "open"]
<1>1. /\ c \in Process /\ c.at = "open" /\ c.rq = proc[p].rq
      /\ c.left = proc[p].left /\ c.out = proc[p].out
  BY GotoTyped DEF Phases, Inside
<1>2. c.rq.keys \ c.left = {}
  BY <1>1, ProcFacts DEF Lock, PhaseOK
<1>3. PhaseOK(c)
  BY <1>1, <1>2, ProcFacts DEF Lock, PhaseOK
<1>4. proc' = [proc EXCEPT ![p] = c] /\ UNCHANGED files /\ used' \subseteq Revs
      /\ locked' /\ locked' \in BOOLEAN /\ ~locked
  BY DEF Lock, Goto, Free, IInv, OwnerTypeOK
<1> HIDE DEF c
<1> QED
  BY <1>1, <1>2, <1>3, <1>4, MoveKeeps DEF Inside

LEMMA RefusedKeeps ==
  ASSUME IInv, NEW p \in Procs, Refused(p)
  PROVE  IInv'
<1> DEFINE c == [proc[p] EXCEPT !.at = "done", !.out = "refused"]
<1>1. c \in Process /\ PhaseOK(c) /\ c.at = "done"
  BY FinishTyped DEF Refused
<1>2. proc' = [proc EXCEPT ![p] = c] /\ UNCHANGED files /\ used' \subseteq Revs
      /\ locked' = locked /\ locked' \in BOOLEAN
  BY DEF Refused, IInv, OwnerTypeOK
<1> HIDE DEF c
<1> QED
  BY <1>1, <1>2, MoveKeeps DEF Inside

LEMMA UpgradeKeeps ==
  ASSUME IInv, NEW p \in Procs, NEW k \in Keys, NEW v \in Revs,
         Upgrade(p, k, v)
  PROVE  IInv'
<1> DEFINE c == proc[p]
<1>1. c \in Process /\ PhaseOK(c) /\ c.at = "open"
  BY ProcFacts DEF Upgrade
<1>2. proc' = [proc EXCEPT ![p] = c]
  BY DEF Upgrade, IInv, OwnerTypeOK
<1>3. file' \in [Keys -> Values] /\ record' \subseteq Revs
      /\ used' \subseteq Revs /\ locked' = locked
  BY DEF Upgrade, IInv, OwnerTypeOK, Values
<1>4. \A j \in c.rq.keys \ c.left : c.got[j] = file'[j]
  <2> SUFFICES ASSUME NEW j \in c.rq.keys \ c.left PROVE c.got[j] = file'[j]
    OBVIOUS
  <2>1. j \in Keys /\ j # k
    BY ProcFacts DEF Upgrade, RequestShape
  <2>2. file'[j] = file[j]
    BY <2>1 DEF Upgrade, IInv, OwnerTypeOK
  <2> QED
    BY <1>1, <2>2 DEF IInv, LockHolds, ReadsAreCurrent
<1> HIDE DEF c
<1>5. proc[p].at \in Inside /\ c.at \in Inside
  BY <1>1 DEF c, Inside
<1> QED
  BY <1>1, <1>2, <1>3, <1>4, <1>5, WriteKeeps

LEMMA ReadKeeps ==
  ASSUME IInv, NEW p \in Procs, NEW k \in Keys, Read(p, k)
  PROVE  IInv'
<1> DEFINE c == [proc[p] EXCEPT !.left = @ \ {k}, !.got[k] = file[k]]
<1>1. /\ c \in Process /\ c.at = "open" /\ c.rq = proc[p].rq
      /\ c.out = proc[p].out /\ c.left = proc[p].left \ {k}
      /\ c.got = [proc[p].got EXCEPT ![k] = file[k]]
  BY ProcFacts DEF Read, Process, IInv, OwnerTypeOK
<1>2. \A j \in c.rq.keys \ c.left :
        \/ j = k /\ c.got[j] = file[k]
        \/ j \in proc[p].rq.keys \ proc[p].left /\ c.got[j] = proc[p].got[j]
  BY <1>1, ProcFacts DEF Process, RequestShape
<1>3. \A j \in c.rq.keys \ c.left : c.got[j] = file[j]
  BY <1>2 DEF Read, IInv, LockHolds, ReadsAreCurrent
<1>4. PhaseOK(c)
  BY <1>1, <1>2, ProcFacts DEF Read, PhaseOK, Unnamed, Op
<1>5. proc' = [proc EXCEPT ![p] = c] /\ UNCHANGED files /\ used' \subseteq Revs
      /\ locked' = locked /\ locked' \in BOOLEAN
  BY DEF Read, IInv, OwnerTypeOK
<1>6. proc[p].at \in Inside /\ locked
  BY DEF Read, Inside, IInv, LockHolds, Exclusive
<1> HIDE DEF c
<1> QED
  BY <1>1, <1>3, <1>4, <1>5, <1>6, MoveKeeps DEF Inside

LEMMA CompareKeeps ==
  ASSUME IInv, NEW p \in Procs, Compare(p)
  PROVE  IInv'
<1>1. proc[p].at = "open" /\ proc[p].at \in Inside /\ locked
  BY DEF Compare, ReadAll, Inside, IInv, LockHolds, Exclusive
<1>2. CASE ~Matches(p)
  BY <1>1, <1>2, FinishKeeps DEF Compare
<1>3. CASE Matches(p)
  <2> DEFINE c == [proc[p] EXCEPT !.at = "write"]
  <2>1. /\ c \in Process /\ c.at = "write" /\ c.rq = proc[p].rq
        /\ c.left = proc[p].left /\ c.out = proc[p].out /\ c.got = proc[p].got
    BY GotoTyped DEF Phases, Inside
  <2>2. PhaseOK(c)
    BY <1>3, <2>1, <1>1, ProcFacts DEF Compare, ReadAll, PhaseOK, Matches, Op
  <2>3. \A k \in c.rq.keys \ c.left : c.got[k] = file[k]
    BY <1>1, <2>1 DEF IInv, LockHolds, ReadsAreCurrent
  <2>4. proc' = [proc EXCEPT ![p] = c] /\ UNCHANGED files /\ used' \subseteq Revs
        /\ locked' = locked /\ locked' \in BOOLEAN
    BY <1>3 DEF Compare, Goto, IInv, OwnerTypeOK
  <2> HIDE DEF c
  <2> QED
    BY <1>1, <2>1, <2>2, <2>3, <2>4, MoveKeeps DEF Inside
<1> QED
  BY <1>2, <1>3

LEMMA ChangeKeeps ==
  ASSUME IInv, NEW p \in Procs, Change(p)
  PROVE  IInv'
<1> DEFINE c == [proc[p] EXCEPT !.at = "close", !.out = "ok"]
<1>1. c \in Process /\ PhaseOK(c) /\ c.at = "close"
  BY FinishTyped DEF Change
<1>2. proc' = [proc EXCEPT ![p] = c] /\ record' \subseteq Revs
      /\ used' \subseteq Revs /\ locked' = locked
  BY DEF Change, Finish, IInv, OwnerTypeOK
<1>3. file' \in [Keys -> Values]
  BY ProcFacts DEF Change, IInv, OwnerTypeOK, Values, RequestShape
<1>4. proc[p].at \in Inside
  BY DEF Change, Inside
<1> HIDE DEF c
<1> QED
  BY <1>1, <1>2, <1>3, <1>4, WriteKeeps DEF Inside

LEMMA RemoveKeeps ==
  ASSUME IInv, NEW p \in Procs, NEW k \in Keys, Remove(p, k)
  PROVE  IInv'
<1> DEFINE c == [proc[p] EXCEPT !.got[k] = None]
<1>1. /\ c \in Process /\ c.at = "open" /\ c.rq = proc[p].rq
      /\ c.out = proc[p].out /\ c.left = proc[p].left
      /\ c.got = [proc[p].got EXCEPT ![k] = None]
  BY ProcFacts DEF Remove, Process, Values
<1>2. \A j \in c.rq.keys \ c.left :
        \/ j = k /\ c.got[j] = None
        \/ j # k /\ j \in Keys /\ c.got[j] = proc[p].got[j]
  BY <1>1, ProcFacts DEF Process, RequestShape
<1>3. \A j \in c.rq.keys \ c.left : c.got[j] = file'[j]
  BY <1>1, <1>2 DEF Remove, IInv, LockHolds, ReadsAreCurrent, OwnerTypeOK
<1>4. PhaseOK(c)
  BY <1>1, <1>2, ProcFacts, OwnerStateConstants DEF Remove, PhaseOK
<1>5. proc' = [proc EXCEPT ![p] = c] /\ record' \subseteq Revs
      /\ used' \subseteq Revs /\ locked' = locked
      /\ file' \in [Keys -> Values]
  BY DEF Remove, IInv, OwnerTypeOK, Values
<1>6. proc[p].at \in Inside
  BY DEF Remove, Inside
<1> HIDE DEF c
<1> QED
  BY <1>1, <1>3, <1>4, <1>5, <1>6, WriteKeeps DEF Inside

LEMMA ReadRecordKeeps ==
  ASSUME IInv, NEW p \in Procs, ReadRecord(p)
  PROVE  IInv'
<1> DEFINE c == [proc[p] EXCEPT !.at = "merge", !.base = record]
<1>1. /\ c \in Process /\ c.at = "merge" /\ c.rq = proc[p].rq
      /\ c.out = proc[p].out /\ c.base = record
  BY ProcFacts DEF Process, Phases, Inside, IInv, OwnerTypeOK
<1>2. PhaseOK(c)
  BY <1>1, ProcFacts DEF ReadRecord, PhaseOK, Op
<1>3. proc' = [proc EXCEPT ![p] = c] /\ UNCHANGED files /\ used' \subseteq Revs
      /\ locked' = locked /\ locked' \in BOOLEAN
  BY DEF ReadRecord, IInv, OwnerTypeOK
<1>4. proc[p].at \in Inside /\ locked
  BY DEF ReadRecord, Inside, IInv, LockHolds, Exclusive
<1> HIDE DEF c
<1> QED
  BY <1>1, <1>2, <1>3, <1>4, MoveKeeps DEF Inside

LEMMA WriteRecordKeeps ==
  ASSUME IInv, NEW p \in Procs, WriteRecord(p)
  PROVE  IInv'
<1> DEFINE c == [proc[p] EXCEPT !.at = "close", !.out = "ok"]
<1>1. c \in Process /\ PhaseOK(c) /\ c.at = "close"
  BY FinishTyped DEF WriteRecord
<1>2. proc[p].rq.new \in Revs
  BY RequestsTyped, ProcFacts DEF WriteRecord, PhaseOK
<1>3. proc' = [proc EXCEPT ![p] = c] /\ record' \subseteq Revs
      /\ used' \subseteq Revs /\ locked' = locked
      /\ file' \in [Keys -> Values]
  BY <1>2, ProcFacts DEF WriteRecord, Finish, IInv, OwnerTypeOK, Process
<1>4. proc[p].at \in Inside
  BY DEF WriteRecord, Inside
<1> HIDE DEF c
<1> QED
  BY <1>1, <1>3, <1>4, WriteKeeps DEF Inside

LEMMA CloseKeeps ==
  ASSUME IInv, NEW p \in Procs, Close(p)
  PROVE  IInv'
<1> DEFINE c == [proc[p] EXCEPT !.at = "done"]
<1>1. c \in Process /\ c.at = "done" /\ c.rq = proc[p].rq
  BY GotoTyped DEF Phases
<1>2. PhaseOK(c)
  BY <1>1, ProcFacts DEF Close, PhaseOK
<1>3. proc' = [proc EXCEPT ![p] = c] /\ UNCHANGED files /\ used' \subseteq Revs
      /\ locked' \in BOOLEAN /\ proc[p].at \in Inside
  BY DEF Close, Goto, Inside, IInv, OwnerTypeOK
<1> HIDE DEF c
<1> QED
  BY <1>1, <1>2, <1>3, MoveKeeps DEF Inside

\* The caller takes its answer, or the process dies: the lock file stays.
LEMMA LeaveKeeps ==
  ASSUME IInv, NEW p \in Procs, Answer(p) \/ Kill(p)
  PROVE  IInv'
<1>1. proc' = [proc EXCEPT ![p] = Idle] /\ UNCHANGED files
      /\ used' \subseteq Revs /\ locked' = locked /\ locked' \in BOOLEAN
  BY DEF Answer, Kill, IInv, OwnerTypeOK
<1>2. PhaseOK(Idle)
  BY IdleFields DEF PhaseOK
<1> QED
  BY <1>1, <1>2, IdleTyped, IdleFields, MoveKeeps DEF Inside

LEMMA RemoveLockKeeps ==
  ASSUME IInv, RemoveLock
  PROVE  IInv'
<1>1. \A p \in Procs : proc[p].at = "idle"
  BY DEF RemoveLock, Stopped
<1>2. OwnerTypeOK'
  BY DEF RemoveLock, files, IInv, OwnerTypeOK
<1>3. LockHolds'
  BY <1>1 DEF RemoveLock, LockHolds, Exclusive, ReadsAreCurrent, Inside
<1>4. Phased'
  BY DEF RemoveLock, IInv, Phased, PhaseOK
<1> QED
  BY <1>2, <1>3, <1>4 DEF IInv

LEMMA NextInv == IInv /\ [OwnerNext]_stateVars => IInv'
<1> SUFFICES ASSUME IInv, [OwnerNext]_stateVars PROVE IInv'
  OBVIOUS
<1>1. ASSUME NEW p \in Procs, NEW rq \in Requests, Ask(p, rq) PROVE IInv'
  BY <1>1, AskKeeps
<1>2. ASSUME NEW p \in Procs, NEW k \in Keys, NEW v \in Revs, Upgrade(p, k, v)
      PROVE  IInv'
  BY <1>2, UpgradeKeeps
<1>3. ASSUME NEW p \in Procs, NEW k \in Keys, Read(p, k) \/ Remove(p, k)
      PROVE  IInv'
  BY <1>3, ReadKeeps, RemoveKeeps
<1>4. ASSUME NEW p \in Procs, Cleared(p) \/ Look(p) PROVE IInv'
  BY <1>4, FinishKeeps DEF Cleared, Look, ReadAll, Inside
<1>5. ASSUME NEW p \in Procs, Fail(p) PROVE IInv'
  BY <1>5, FinishKeeps DEF Fail
<1>6. ASSUME NEW p \in Procs, Lock(p) \/ Refused(p) \/ Compare(p) \/ Change(p)
      PROVE  IInv'
  BY <1>6, LockKeeps, RefusedKeeps, CompareKeeps, ChangeKeeps
<1>7. ASSUME NEW p \in Procs, ReadRecord(p) \/ WriteRecord(p) \/ Close(p)
                              \/ Answer(p) \/ Kill(p)
      PROVE  IInv'
  BY <1>7, ReadRecordKeeps, WriteRecordKeeps, CloseKeeps, LeaveKeeps
<1>8. CASE RemoveLock
  BY <1>8, RemoveLockKeeps
<1>9. CASE UNCHANGED stateVars
  BY <1>9 DEF stateVars, files, IInv, OwnerTypeOK, LockHolds, Exclusive,
              ReadsAreCurrent, Phased, PhaseOK
<1> QED
  BY <1>1, <1>2, <1>3, <1>4, <1>5, <1>6, <1>7, <1>8, <1>9 DEF OwnerNext

\* However many processes share the files, wherever they die and whenever an
\* operator removes a leftover lock: at most one is inside an operation, and
\* it acts on what is there.
THEOREM LockExcludes == OwnerSpec => []LockHolds
<1>1. IInv => LockHolds
  BY DEF IInv
<1> QED
  BY <1>1, InitInv, NextInv, PTL DEF OwnerSpec

-----------------------------------------------------------------------------
(* The refinement.                                                         *)

calls == [p \in Procs |-> CallOf(proc[p])]

LEMMA CallFields ==
  ASSUME NEW c
  PROVE  /\ c.at = "idle" => CallOf(c).at = "idle"
         /\ c.at \in {"close", "done"} => CallOf(c).at = "done"
         /\ c.at \in {"asked", "open", "write", "merge"} =>
              CallOf(c).at = "asked"
         /\ c.at # "idle" => CallOf(c).at # "idle"
         /\ CallOf(c).rq = c.rq
         /\ CallOf(c).out = c.out
BY DEF CallOf

\* What the caller sees of a step depends on the new proc[p] alone.
LEMMA CallStep ==
  ASSUME IInv, NEW p \in Procs, NEW c, proc' = [proc EXCEPT ![p] = c]
  PROVE  calls' = [calls EXCEPT ![p] = CallOf(c)]
BY DEF calls, IInv, OwnerTypeOK

LEMMA CallSame ==
  ASSUME IInv, NEW p \in Procs, NEW c, proc' = [proc EXCEPT ![p] = c],
         CallOf(c) = CallOf(proc[p])
  PROVE  calls' = calls
BY CallStep DEF calls, IInv, OwnerTypeOK

LEMMA CallIdle == CallOf(Idle) = Store!Resting
BY IdleFields DEF CallOf, Store!Resting, Store!Absent, Absent, Looks

LEMMA InitImplements == OwnerInit => Store!StoreInit
<1> SUFFICES ASSUME OwnerInit PROVE Store!StoreInit
  OBVIOUS
<1>1. calls = [p \in Procs |-> Store!Resting]
  BY CallIdle DEF calls, OwnerInit
<1> QED
  BY <1>1 DEF OwnerInit, Store!StoreInit, calls

\* The call as the store sees it, before a step.
LEMMA CallNow ==
  ASSUME IInv, NEW p \in Procs
  PROVE  /\ calls[p] = CallOf(proc[p])
         /\ calls[p].rq = proc[p].rq
         /\ proc[p].at \in {"asked", "open", "write", "merge"} =>
              calls[p].at = "asked"
BY CallFields DEF calls

\* An operation ends without having been seen to act.
LEMMA EndedCall ==
  ASSUME IInv, NEW p \in Procs, NEW at \in {"close", "done"}, NEW out,
         NEW seen, proc' = [proc EXCEPT ![p].at = at, ![p].out = out],
         seen = IF out = "ok" /\ proc[p].rq.op \in Looks THEN proc[p].got
                                                         ELSE Absent
  PROVE  calls' = [calls EXCEPT ![p] = Store!Answered(calls[p].rq, out, seen)]
<1> DEFINE c == [proc[p] EXCEPT !.at = at, !.out = out]
<1>1. /\ c.at = at /\ c.rq = proc[p].rq /\ c.out = out /\ c.got = proc[p].got
  BY ProcFacts DEF Process
<1>2. CallOf(c) = Store!Answered(calls[p].rq, out, seen)
  BY <1>1, CallNow DEF CallOf, Store!Answered
<1>3. proc' = [proc EXCEPT ![p] = c]
  OBVIOUS
<1> HIDE DEF c
<1> QED
  BY <1>2, <1>3, CallStep

LEMMA AskImplements ==
  ASSUME IInv, NEW p \in Procs, NEW rq \in Requests, Ask(p, rq)
  PROVE  Store!StoreAsk(p, rq)
<1> DEFINE c == Start("asked", rq)
<1>1. CallOf(c) = Store!Asking(rq)
  BY StartFields DEF CallOf, Store!Asking, Store!Absent, Absent
<1>2. calls' = [calls EXCEPT ![p] = Store!Asking(rq)]
  BY <1>1, CallStep DEF Ask
<1>3. calls[p].at = "idle"
  BY CallNow, CallFields DEF Ask
<1> QED
  BY <1>2, <1>3 DEF Ask, files, Store!StoreAsk, calls

LEMMA RefuseImplements ==
  ASSUME IInv, NEW p \in Procs, Refused(p) \/ Fail(p)
  PROVE  Store!StoreRefuse(p)
<1>1. PICK at \in {"close", "done"} :
        proc' = [proc EXCEPT ![p].at = at, ![p].out = "refused"]
  BY DEF Refused, Fail, Finish
<1>2. calls' = [calls EXCEPT ![p] =
                  Store!Answered(calls[p].rq, "refused", Store!Absent)]
  BY <1>1, EndedCall DEF Store!Absent, Absent
<1>3. calls[p].at = "asked"
  BY CallNow DEF Refused, Fail, Inside
<1>4. UNCHANGED <<file, record, used>>
  BY DEF Refused, Fail, files
<1> QED
  BY <1>2, <1>3, <1>4 DEF Store!StoreRefuse, calls

LEMMA StaleImplements ==
  ASSUME IInv, NEW p \in Procs, Compare(p), ~Matches(p)
  PROVE  Store!StoreStale(p)
<1>1. calls' = [calls EXCEPT ![p] =
                  Store!Answered(calls[p].rq, "stale", Store!Absent)]
  BY EndedCall DEF Compare, Finish, Store!Absent, Absent
<1>2. calls[p].at = "asked" /\ calls[p].rq = proc[p].rq
  BY CallNow DEF Compare, ReadAll
<1>3. \A k \in proc[p].rq.keys : proc[p].got[k] = file[k]
  BY DEF Compare, ReadAll, IInv, LockHolds, ReadsAreCurrent
<1>4. \E k \in proc[p].rq.keys : file[k] # proc[p].rq.want[k]
  BY <1>3 DEF Matches
<1> QED
  BY <1>1, <1>2, <1>4 DEF Compare, Op, files, Store!StoreStale, Store!Pending,
                          calls

LEMMA ChangeImplements ==
  ASSUME IInv, NEW p \in Procs, Change(p)
  PROVE  Store!StoreChange(p)
<1>1. /\ proc[p].rq.op \in {"save", "discard"}
      /\ \A k \in proc[p].rq.keys : file[k] = proc[p].rq.want[k]
  BY ProcFacts DEF Change, PhaseOK, IInv, LockHolds, ReadsAreCurrent
<1>2. calls' = [calls EXCEPT ![p] =
                  Store!Answered(calls[p].rq, "ok", Store!Absent)]
  BY <1>1, EndedCall DEF Change, Finish, Looks, Store!Absent, Absent
<1>3. calls[p].at = "asked" /\ calls[p].rq = proc[p].rq
  BY CallNow DEF Change
<1> QED
  BY <1>1, <1>2, <1>3 DEF Change, Store!StoreChange, Store!AnswerOk,
                          Store!Pending, calls

LEMMA RemoveImplements ==
  ASSUME IInv, NEW p \in Procs, NEW k \in Keys, Remove(p, k)
  PROVE  Store!StoreClear(p, k)
<1> DEFINE c == [proc[p] EXCEPT !.got[k] = None]
<1>1. /\ c.at = proc[p].at /\ c.rq = proc[p].rq /\ c.out = proc[p].out
  BY ProcFacts DEF Process
<1>2. CallOf(c) = CallOf(proc[p])
  BY <1>1, ProcFacts DEF CallOf, Remove, Op, Looks
<1>3. proc' = [proc EXCEPT ![p] = c]
  BY DEF Remove
<1> HIDE DEF c
<1>4. calls' = calls
  BY <1>2, <1>3, CallSame
<1>5. calls[p].at = "asked" /\ calls[p].rq = proc[p].rq
  BY CallNow DEF Remove
<1>6. proc[p].rq.keys = Keys
  BY RequestsTyped, ProcFacts DEF Remove, Op, PhaseOK
<1>7. file[k] = proc[p].rq.want[k] /\ proc[p].rq.want[k] # None
  BY <1>6 DEF Remove, Reviewed, IInv, LockHolds, ReadsAreCurrent
<1> QED
  BY <1>4, <1>5, <1>7 DEF Remove, Op, Store!StoreClear, Store!Pending, calls

LEMMA ClearedImplements ==
  ASSUME IInv, NEW p \in Procs, Cleared(p)
  PROVE  Store!StoreCleared(p)
<1>1. calls' = [calls EXCEPT ![p] =
                  Store!Answered(calls[p].rq, "ok", Store!Absent)]
  BY EndedCall DEF Cleared, Finish, Op, Looks, Store!Absent, Absent
<1>2. calls[p].at = "asked" /\ calls[p].rq = proc[p].rq
  BY CallNow DEF Cleared, ReadAll
<1>3. proc[p].rq.keys = Keys
  BY RequestsTyped, ProcFacts DEF Cleared, ReadAll, Op, PhaseOK
<1>4. \A k \in Keys : proc[p].rq.want[k] # None => file[k] # proc[p].rq.want[k]
  BY <1>3 DEF Cleared, ReadAll, Reviewed, IInv, LockHolds, ReadsAreCurrent
<1> QED
  BY <1>1, <1>2, <1>4 DEF Cleared, Op, files, Store!StoreCleared,
                          Store!AnswerOk, Store!Pending, calls

LEMMA LookImplements ==
  ASSUME IInv, NEW p \in Procs, Look(p)
  PROVE  Store!StoreLook(p)
<1>1. calls' = [calls EXCEPT ![p] =
                  Store!Answered(calls[p].rq, "ok", proc[p].got)]
  BY EndedCall DEF Look, Finish, Op
<1>2. calls[p].at = "asked" /\ calls[p].rq = proc[p].rq
  BY CallNow DEF Look, ReadAll
<1>3. proc[p].rq.keys = Keys
  BY RequestsTyped, ProcFacts DEF Look, Looks, ReadAll, Op, PhaseOK
<1>4. \A k \in Keys : proc[p].got[k] = file[k]
  BY <1>3 DEF Look, ReadAll, IInv, LockHolds, ReadsAreCurrent
<1>5. proc[p].got = file
  BY <1>4, ProcFacts DEF Process, IInv, OwnerTypeOK
<1>6. proc[p].rq.op = "bundle" => \A k \in Keys : file[k] # Legacy
  BY <1>3, <1>4, ProcFacts DEF Look, ReadAll, PhaseOK
<1> QED
  BY <1>1, <1>2, <1>5, <1>6 DEF Look, Op, Looks, files, Store!StoreLook,
                                Store!AnswerOk, Store!Pending, calls

LEMMA MutateImplements ==
  ASSUME IInv, NEW p \in Procs, WriteRecord(p)
  PROVE  Store!StoreMutate(p)
<1>1. proc[p].rq.op = "mutate" /\ proc[p].base = record
  BY ProcFacts DEF WriteRecord, PhaseOK, IInv, LockHolds, ReadsAreCurrent
<1>2. calls' = [calls EXCEPT ![p] =
                  Store!Answered(calls[p].rq, "ok", Store!Absent)]
  BY <1>1, EndedCall DEF WriteRecord, Finish, Looks, Store!Absent, Absent
<1>3. calls[p].at = "asked" /\ calls[p].rq = proc[p].rq
  BY CallNow DEF WriteRecord
<1> QED
  BY <1>1, <1>2, <1>3 DEF WriteRecord, Store!StoreMutate, Store!AnswerOk,
                          Store!Pending, calls

LEMMA UpgradeImplements ==
  ASSUME IInv, NEW p \in Procs, NEW k \in Keys, NEW v \in Revs,
         Upgrade(p, k, v)
  PROVE  Store!StoreName(k, v)
BY DEF Upgrade, Unnamed, Store!StoreName

LEMMA LeaveImplements ==
  ASSUME IInv, NEW p \in Procs, Answer(p) \/ Kill(p)
  PROVE  Store!StoreLeave(p)
<1>1. calls' = [calls EXCEPT ![p] = Store!Resting]
  BY CallStep, CallIdle DEF Answer, Kill
<1>2. proc[p].at # "idle"
  BY DEF Answer, Kill
<1>3. calls[p].at # "idle"
  BY <1>2, CallNow, CallFields
<1> QED
  BY <1>1, <1>3 DEF Answer, Kill, files, Store!StoreLeave, calls

\* Steps inside an operation that its caller does not see.
LEMMA InnerStutters ==
  ASSUME IInv, NEW p \in Procs,
         \/ Lock(p) \/ Close(p) \/ ReadRecord(p)
         \/ Compare(p) /\ Matches(p)
         \/ \E k \in Keys : Read(p, k)
  PROVE  UNCHANGED Store!storeVars
<1>1. UNCHANGED <<file, record, used>>
  BY DEF Lock, Close, ReadRecord, Compare, Read, files
<1> DEFINE Same(c) == /\ proc' = [proc EXCEPT ![p] = c]
                      /\ CallOf(c) = CallOf(proc[p])
<1>2. \E c : Same(c)
  <2>1. CASE Lock(p)
    <3> DEFINE c == [proc[p] EXCEPT !.at = "open"]
    <3>1. proc' = [proc EXCEPT ![p] = c]
      BY <2>1 DEF Lock, Goto
    <3>2. CallOf(c) = CallOf(proc[p])
      BY <2>1, ProcFacts DEF Lock, CallOf, PhaseOK, Process
    <3> QED
      BY <3>1, <3>2
  <2>2. CASE Close(p)
    <3> DEFINE c == [proc[p] EXCEPT !.at = "done"]
    <3>1. proc' = [proc EXCEPT ![p] = c]
      BY <2>2 DEF Close, Goto
    <3>2. CallOf(c) = CallOf(proc[p])
      BY <2>2, ProcFacts DEF Close, CallOf, Process
    <3> QED
      BY <3>1, <3>2
  <2>3. CASE ReadRecord(p)
    <3> DEFINE c == [proc[p] EXCEPT !.at = "merge", !.base = record]
    <3>1. proc' = [proc EXCEPT ![p] = c]
      BY <2>3 DEF ReadRecord
    <3>2. CallOf(c) = CallOf(proc[p])
      BY <2>3, ProcFacts DEF ReadRecord, CallOf, PhaseOK, Process
    <3> QED
      BY <3>1, <3>2
  <2>4. CASE Compare(p) /\ Matches(p)
    <3> DEFINE c == [proc[p] EXCEPT !.at = "write"]
    <3>1. proc' = [proc EXCEPT ![p] = c]
      BY <2>4 DEF Compare, Goto
    <3>2. CallOf(c) = CallOf(proc[p])
      BY <2>4, ProcFacts DEF Compare, ReadAll, CallOf, PhaseOK, Process
    <3> QED
      BY <3>1, <3>2
  <2>5. ASSUME NEW k \in Keys, Read(p, k)
        PROVE  \E c : Same(c)
    <3> DEFINE c == [proc[p] EXCEPT !.left = @ \ {k}, !.got[k] = file[k]]
    <3>1. proc' = [proc EXCEPT ![p] = c]
      BY <2>5, ProcFacts DEF Read, IInv, OwnerTypeOK, Process
    <3>2. /\ proc[p].at = "open" /\ proc[p].out = "none"
          /\ c.at = proc[p].at /\ c.rq = proc[p].rq /\ c.out = proc[p].out
      BY <2>5, ProcFacts DEF Read, PhaseOK, Process
    <3>3. CallOf(c) = CallOf(proc[p])
      BY <3>2 DEF CallOf
    <3> QED
      BY <3>1, <3>3
  <2> QED
    BY <2>1, <2>2, <2>3, <2>4, <2>5
<1>3. calls' = calls
  BY <1>2, CallSame
<1> QED
  BY <1>1, <1>3 DEF Store!storeVars, calls

LEMMA NextImplements ==
  IInv /\ [OwnerNext]_stateVars => [Store!StoreNext]_(Store!storeVars)
<1> SUFFICES ASSUME IInv, [OwnerNext]_stateVars
             PROVE  Store!StoreNext \/ UNCHANGED Store!storeVars
  OBVIOUS
<1>1. ASSUME NEW p \in Procs, NEW rq \in Requests, Ask(p, rq)
      PROVE  Store!StoreNext
  BY <1>1, AskImplements DEF Store!StoreNext, Requests
<1>2. ASSUME NEW p \in Procs, NEW k \in Keys, NEW v \in Revs, Upgrade(p, k, v)
      PROVE  Store!StoreNext
  BY <1>2, UpgradeImplements DEF Store!StoreNext
<1>3. ASSUME NEW p \in Procs, NEW k \in Keys, Remove(p, k)
      PROVE  Store!StoreNext
  BY <1>3, RemoveImplements DEF Store!StoreNext
<1>4. ASSUME NEW p \in Procs,
             \/ Refused(p) \/ Fail(p) \/ Change(p) \/ Cleared(p) \/ Look(p)
             \/ WriteRecord(p) \/ Answer(p) \/ Kill(p)
      PROVE  Store!StoreNext
  BY <1>4, RefuseImplements, ChangeImplements, ClearedImplements,
     LookImplements, MutateImplements, LeaveImplements DEF Store!StoreNext
<1>5. ASSUME NEW p \in Procs, Compare(p)
      PROVE  Store!StoreNext \/ UNCHANGED Store!storeVars
  BY <1>5, StaleImplements, InnerStutters DEF Store!StoreNext
<1>6. ASSUME NEW p \in Procs,
             \/ Lock(p) \/ Close(p) \/ ReadRecord(p)
             \/ \E k \in Keys : Read(p, k)
      PROVE  UNCHANGED Store!storeVars
  BY <1>6, InnerStutters
<1>7. CASE RemoveLock
  BY <1>7 DEF RemoveLock, files, Store!storeVars
<1>8. CASE UNCHANGED stateVars
  BY <1>8 DEF stateVars, Store!storeVars
<1> QED
  BY <1>1, <1>2, <1>3, <1>4, <1>5, <1>6, <1>7, <1>8 DEF OwnerNext

\* The file store is a DraftStore: every save and discard is a compare-and-
\* swap of the revision, bundles are consistent, and no change of the record
\* is lost, whatever processes die and however they interleave.
THEOREM Implements == OwnerSpec => KeepsDraftStore
<1>1. OwnerInit => Store!StoreInit
  BY InitImplements
<1>2. IInv /\ [OwnerNext]_stateVars => [Store!StoreNext]_(Store!storeVars)
  BY NextImplements
<1> QED
  BY <1>1, <1>2, InitInv, NextInv, PTL
     DEF OwnerSpec, KeepsDraftStore, Store!StoreSpec

-----------------------------------------------------------------------------
(* Restoring.                                                              *)

\* The window is open only while writes are stopped, a request is past its
\* check only while it is open, and the tool works only in an open window.
Guarded ==
  /\ window => ~writes
  /\ admitted > 0 => window
  /\ tool \in {"put", "read", "unknown"} => window
  /\ tool = "confirmed" => ~writes
Counted == admitted \in Nat /\ net \in Nat
MovesWhole == \A r \in Restorers :
                staging[r].at = "moving" => staging[r].parts = Parts
StagingTyped == staging \in [Restorers -> [at : Stages, parts : SUBSET Parts]]
RInv == Guarded /\ Counted /\ StagingTyped /\ MovesWhole /\ RestoredIsBackup

LEMMA RestoreInitInv == RestoreInit => RInv
BY DEF RestoreInit, RInv, Guarded, Counted, MovesWhole, StagingTyped, Stages,
       RestoredIsBackup, NoDirectory

LEMMA ServiceStep ==
  ASSUME RInv,
         \/ OwnerSaves \/ Export \/ OpenWindow \/ CloseWindow \/ Resume
         \/ Put \/ Admit \/ Forbid \/ Restore \/ Lose
         \/ Proceed \/ ReadBack \/ ReadFails \/ Inspect
  PROVE  RInv'
<1>1. UNCHANGED disk
  BY DEF OwnerSaves, Export, OpenWindow, CloseWindow, Resume, Put, Admit,
         Forbid, Restore, Lose, Proceed, ReadBack, ReadFails, Inspect
<1>2. StagingTyped' /\ MovesWhole' /\ (dest.there => dest.parts = Parts)'
  BY <1>1 DEF RInv, StagingTyped, MovesWhole, RestoredIsBackup, disk
<1>3. Counted'
  BY DEF RInv, Counted, Guarded, OwnerSaves, Export, OpenWindow, CloseWindow,
         Resume, Put, Admit, Forbid, Restore, Lose, Proceed, ReadBack,
         ReadFails, Inspect, wire
<1>4. Guarded' /\ (tool = "confirmed" => sql = backup)'
  <2> USE DEF RInv, Guarded, Counted, RestoredIsBackup, service, wire
  <2>1. CASE OwnerSaves \/ Export \/ OpenWindow \/ CloseWindow \/ Resume
    BY <2>1 DEF OwnerSaves, Export, OpenWindow, CloseWindow, Resume
  <2>2. CASE Put \/ Forbid \/ Proceed \/ ReadBack \/ ReadFails \/ Inspect
    BY <2>2 DEF Put, Forbid, Proceed, ReadBack, Equal, ReadFails, Inspect
  <2>3. CASE Admit
    BY <2>3 DEF Admit, Admits
  <2>4. CASE Restore
    BY <2>4 DEF Restore
  <2>5. CASE Lose
    BY <2>5 DEF Lose
  <2> QED
    BY <2>1, <2>2, <2>3, <2>4, <2>5
<1> QED
  BY <1>2, <1>3, <1>4 DEF RInv, RestoredIsBackup

LEMMA CopyStep ==
  ASSUME RInv, NEW r \in Restorers,
         \/ Stage(r) \/ Check(r) \/ Move(r) \/ Stop(r)
         \/ \E x \in Parts : Write(r, x)
  PROVE  RInv'
<1>1. UNCHANGED <<service, backup, wire, tool>>
  BY DEF Stage, Check, Move, Stop, Write
<1>2. Guarded' /\ Counted' /\ (tool = "confirmed" => sql = backup)'
  BY <1>1 DEF RInv, Guarded, Counted, RestoredIsBackup, service, wire
<1>3. StagingTyped'
  BY DEF RInv, StagingTyped, Stages, Stage, Check, Move, Stop, Write
<1>4. MovesWhole' /\ (dest.there => dest.parts = Parts)'
  <2> USE DEF RInv, StagingTyped, MovesWhole, RestoredIsBackup
  <2>1. CASE Stage(r) \/ Stop(r)
    BY <2>1 DEF Stage, Stop
  <2>2. CASE \E x \in Parts : Write(r, x)
    BY <2>2 DEF Write
  <2>3. CASE Check(r)
    BY <2>3 DEF Check, ReadsBack
  <2>4. CASE Move(r)
    BY <2>4 DEF Move, Directory
  <2> QED
    BY <2>1, <2>2, <2>3, <2>4
<1> QED
  BY <1>2, <1>3, <1>4 DEF RInv, RestoredIsBackup

LEMMA RestoreNextInv == RInv /\ [RestoreNext]_restoreVars => RInv'
<1> SUFFICES ASSUME RInv, [RestoreNext]_restoreVars PROVE RInv'
  OBVIOUS
<1>1. CASE UNCHANGED restoreVars
  BY <1>1 DEF restoreVars, RInv, Guarded, Counted, StagingTyped, MovesWhole,
              RestoredIsBackup
<1> QED
  BY <1>1, ServiceStep, CopyStep DEF RestoreNext

\* What the tool reports as restored is the backup, and a restored directory
\* is complete.
THEOREM RestoreTrue == RestoreSpec => []RestoredIsBackup
<1>1. RInv => RestoredIsBackup
  BY DEF RInv
<1> QED
  BY <1>1, RestoreInitInv, RestoreNextInv, PTL DEF RestoreSpec

\* While the owner may write, only the owner changes the state.
THEOREM SavesKept == RestoreSpec => OwnerWritesKept
<1>1. RInv /\ [RestoreNext]_restoreVars =>
        [writes => OwnerSaves \/ UNCHANGED sql]_restoreVars
  <2> SUFFICES ASSUME RInv, RestoreNext, writes
               PROVE  OwnerSaves \/ UNCHANGED sql
    OBVIOUS
  <2>1. ~Restore
    BY DEF Restore, RInv, Guarded
  <2> QED
    BY <2>1 DEF RestoreNext, Export, OpenWindow, CloseWindow, Resume, Put,
       Admit, Forbid, Lose, Proceed, ReadBack, ReadFails, Inspect, Stage,
       Check, Move, Stop, Write, service
<1> QED
  BY <1>1, RestoreInitInv, RestoreNextInv, PTL
     DEF RestoreSpec, OwnerWritesKept
=============================================================================
