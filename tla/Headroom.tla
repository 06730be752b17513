------------------------------ MODULE Headroom ------------------------------
(***************************************************************************)
(* The load measurement of an isolated Worker                              *)
(* (scripts/measure-cloudflare-headroom.mjs).                              *)
(*                                                                         *)
(* Stages with more and more concurrent workers go through a list of reads *)
(* and writes within a budget of requests.  A write is three requests; the *)
(* writers of all workers wait for one another on one promise chain, and   *)
(* stages and writes have deadlines.                                       *)
(*                                                                         *)
(* Abstractions.  Public and owner reads are alike.  Time is whether a     *)
(* deadline has passed; latencies are whether the thresholds are met.      *)
(* The checks of options and evidence come before and send nothing.        *)
(***************************************************************************)
EXTENDS Integers, FiniteSets, Sequences

CONSTANTS
  Cap,          \* maxRequests
  Before, After,\* reads of a cycle before and after its write
  Concurrency   \* the workers of each stage

ASSUME HeadroomConstants ==
  /\ Cap \in Nat /\ Cap >= 2 /\ Before \in Nat /\ After \in Nat
  /\ Concurrency \in Seq(Nat \ {0}) /\ Concurrency # <<>>

VARIABLES
  at,        \* the check of the preflight, the stage, or the report
  requests,
  next,      \* the task that is taken next, nextTask
  stageLate, \* has the stage's deadline passed?
  worker,    \* [at, task, step, sent, overdue] of each worker
  tail,      \* the workers whose writers are chained, writerTail
  count,     \* [started, completed, failed, starved, errors]
  commits,   \* the generations committed, in the order of the requests
  stamp,     \* lastTimestamp, and the generation of the writer under way
  refused,   \* has a request been held back for the budget?
  acceptance

headVars == <<at, requests, next, stageLate, worker, tail, count, commits, stamp, refused, acceptance>>

-----------------------------------------------------------------------------
Preflight == 2
WriterCost == 3
CycleCost == Before + After + WriterCost
CycleLength == Before + After + 1
Stages == DOMAIN Concurrency
HealthCheck == -1
CapabilityCheck == 0
Report == Len(Concurrency) + 1
AllWorkers == UNION {1..Concurrency[n] : n \in Stages}

\* stageCycles: the cycles that are affordable, dealt to the stages in turn.
Affordable == (Cap - Preflight) \div CycleCost
CyclesOf(s) == Cardinality({n \in 0..(Affordable - 1) : (n % Len(Concurrency)) + 1 = s})
TasksOf(s) == CyclesOf(s) * CycleLength
\* makeCycle
IsWriter(task) == (task - 1) % CycleLength = Before

Free == [at |-> "free", task |-> 0, step |-> 0, sent |-> FALSE, overdue |-> FALSE]
Gone == [Free EXCEPT !.at = "gone"]
Present(s) == [w \in AllWorkers |-> IF w <= Concurrency[s] THEN Free ELSE Gone]

HeadroomInit ==
  /\ at = HealthCheck /\ requests = 0 /\ next = 1 /\ stageLate = FALSE
  /\ worker = [w \in AllWorkers |-> Gone] /\ tail = <<>>
  /\ count = [started |-> 0, completed |-> 0, failed |-> 0, starved |-> 0, errors |-> 0]
  /\ commits = <<>> /\ stamp = 0 /\ refused = FALSE /\ acceptance = "none"

loads == <<next, stageLate, worker, tail, count, commits, stamp>>

-----------------------------------------------------------------------------
Reports(verdict) == at' = Report /\ acceptance' = verdict

\* The preflight: the exact version, and a collector with atomic generations.
Health ==
  /\ at = HealthCheck /\ requests' = requests + 1
  /\ \/ at' = CapabilityCheck /\ UNCHANGED acceptance
     \/ Reports("failed")
  /\ UNCHANGED <<loads, refused>>

Capabilities ==
  /\ at = CapabilityCheck /\ requests' = requests + 1
  /\ \/ at' = 1 /\ worker' = Present(1) /\ UNCHANGED acceptance
     \/ Reports("failed") /\ UNCHANGED worker
  /\ UNCHANGED <<next, stageLate, tail, count, commits, stamp, refused>>

Loading == at \in Stages

DeadlinePasses ==
  /\ Loading /\ ~stageLate /\ stageLate' = TRUE
  /\ UNCHANGED <<at, requests, next, worker, tail, count, commits, stamp, refused, acceptance>>

\* operationDeadline, five seconds after the write was due.
WriteOverdue(w) ==
  /\ worker[w].at \in {"queued", "write"} /\ ~worker[w].overdue
  /\ worker' = [worker EXCEPT ![w].overdue = TRUE]
  /\ UNCHANGED <<at, requests, next, stageLate, tail, count, commits, stamp, refused, acceptance>>

-----------------------------------------------------------------------------
(* A worker.                                                               *)

Take(w) ==
  /\ worker[w].at = "free"
  /\ IF stageLate THEN worker' = [worker EXCEPT ![w] = Gone] /\ UNCHANGED next
     ELSE /\ next' = next + 1
          /\ worker' = [worker EXCEPT ![w] = IF next > TasksOf(at) THEN Gone
                                             ELSE [Free EXCEPT !.at = "slot", !.task = next]]
  /\ UNCHANGED <<at, requests, stageLate, tail, count, commits, stamp, refused, acceptance>>

\* waitForSlot; a writer is chained behind the others.
SlotComes(w) ==
  /\ worker[w].at = "slot"
  /\ IF stageLate THEN worker' = [worker EXCEPT ![w] = Gone] /\ UNCHANGED <<tail, count>>
     ELSE IF IsWriter(worker[w].task)
       THEN /\ worker' = [worker EXCEPT ![w].at = "queued"]
            /\ tail' = Append(tail, w)
            /\ count' = [count EXCEPT !.started = @ + 1]
       ELSE worker' = [worker EXCEPT ![w].at = "read"] /\ UNCHANGED <<tail, count>>
  /\ UNCHANGED <<at, requests, next, stageLate, commits, stamp, refused, acceptance>>

\* Mutant: writers do not wait for one another.
AtOnce(w) == TRUE
ItsTurn(w) == Head(tail) = w

\* createSyntheticGeneration: a pair made of its time stamp, one later than the last.
Generation == stamp + 1

\* runWriter begins.
BeginWrite(w) ==
  /\ worker[w].at = "queued" /\ ItsTurn(w)
  /\ stamp' = Generation
  /\ worker' = [worker EXCEPT ![w].at = "write", ![w].step = 1, ![w].task = Generation]
  /\ UNCHANGED <<at, requests, next, stageLate, tail, count, commits, refused, acceptance>>

\* Mutant: a write that failed keeps its place.
Kept(w) == IF worker'[w].at = "free" /\ count'.failed = count.failed THEN Tail(tail) ELSE tail
\* The chain goes on, whatever became of the write.
Unchained(w) == IF worker'[w].at = "free" THEN Tail(tail) ELSE tail

WriteFails(w) ==
  /\ worker' = [worker EXCEPT ![w] = Free]
  /\ count' = [count EXCEPT !.failed = @ + 1]

\* The next request of a write, if the deadlines and the budget allow it.
SendWrite(w) ==
  /\ worker[w].at = "write" /\ ~worker[w].sent
  /\ \/ /\ stageLate \/ worker[w].overdue
        /\ WriteFails(w) /\ UNCHANGED <<requests, refused, commits>>
     \/ /\ ~stageLate /\ ~worker[w].overdue /\ requests >= Cap
        /\ WriteFails(w) /\ refused' = TRUE /\ UNCHANGED <<requests, commits>>
     \/ /\ ~stageLate /\ ~worker[w].overdue /\ requests < Cap
        /\ worker' = [worker EXCEPT ![w].sent = TRUE]
        /\ requests' = requests + 1
        /\ commits' = IF worker[w].step = WriterCost THEN Append(commits, worker[w].task) ELSE commits
        /\ UNCHANGED <<count, refused>>
  /\ tail' = Unchained(w)
  /\ UNCHANGED <<at, next, stageLate, stamp, acceptance>>

\* The answer: a 204, another success, or a failure.
WriteAnswered(w) ==
  /\ worker[w].at = "write" /\ worker[w].sent
  /\ \/ /\ worker[w].step < WriterCost /\ UNCHANGED count
        /\ worker' = [worker EXCEPT ![w].step = @ + 1, ![w].sent = FALSE]
     \/ /\ worker[w].step = WriterCost
        /\ worker' = [worker EXCEPT ![w] = Free]
        /\ count' = [count EXCEPT !.completed = @ + 1]
     \/ /\ worker' = [worker EXCEPT ![w] = Free]
        /\ \E error \in {0, 1} :
             count' = [count EXCEPT !.failed = @ + 1, !.errors = @ + error]
  /\ tail' = Unchained(w)
  /\ UNCHANGED <<at, requests, next, stageLate, commits, stamp, refused, acceptance>>

\* runRead; at the deadline nothing is sent, and nothing counted.
SendRead(w) ==
  /\ worker[w].at = "read" /\ ~worker[w].sent
  /\ LET capped == requests >= Cap
     IN  /\ refused' = (refused \/ capped)
         /\ IF capped \/ stageLate THEN worker' = [worker EXCEPT ![w] = Free] /\ UNCHANGED requests
            ELSE worker' = [worker EXCEPT ![w].sent = TRUE] /\ requests' = requests + 1
  /\ UNCHANGED <<at, next, stageLate, tail, count, commits, stamp, acceptance>>

ReadAnswered(w) ==
  /\ worker[w].at = "read" /\ worker[w].sent
  /\ worker' = [worker EXCEPT ![w] = Free]
  /\ \E error \in {0, 1} : count' = [count EXCEPT !.errors = @ + error]
  /\ UNCHANGED <<at, requests, next, stageLate, tail, commits, stamp, refused, acceptance>>

-----------------------------------------------------------------------------
Starved == CyclesOf(at) - count.started
\* evaluateThresholds: whether the latencies are "within_target", and have samples.
Thresholds == {"within_target", "exceeds_target", "insufficient_samples"}

\* All workers are done: the next stage, or the verdict.
StageEnds ==
  /\ Loading /\ \A w \in AllWorkers : worker[w].at = "gone"
  /\ count' = [count EXCEPT !.starved = @ + Starved, !.started = 0]
  /\ next' = 1 /\ stageLate' = FALSE
  /\ IF at < Len(Concurrency)
       THEN at' = at + 1 /\ worker' = Present(at + 1) /\ UNCHANGED acceptance
       ELSE /\ UNCHANGED worker
            /\ \E latency \in Thresholds :
                 Reports(IF latency # "within_target" \/ count.failed # 0 \/ count'.starved # 0 \/ count.errors # 0
                         THEN "failed" ELSE "pending")
  /\ UNCHANGED <<requests, tail, commits, stamp, refused>>

HeadroomNext ==
  \/ Health \/ Capabilities \/ DeadlinePasses \/ StageEnds
  \/ \E w \in AllWorkers :
       \/ WriteOverdue(w) \/ Take(w) \/ SlotComes(w) \/ BeginWrite(w) \/ SendWrite(w)
       \/ WriteAnswered(w) \/ SendRead(w) \/ ReadAnswered(w)

HeadroomSpec == HeadroomInit /\ [][HeadroomNext]_headVars

-----------------------------------------------------------------------------
(* Properties.                                                             *)

\* The budget is what the stages were planned for: it is never exceeded, and
\* no task of any worker is held back because others used it up.
BudgetSuffices == requests <= Cap /\ ~refused

\* Generations are committed in the order of their time stamps, although the
\* writes of several workers fail or wait in any order.
CommitsInOrder == \A m, n \in DOMAIN commits : m < n => commits[m] < commits[n]

\* A measurement is only left to review if every write of every stage was
\* completed; "mixed public traffic cannot silently starve writes".
AcceptedIsComplete ==
  acceptance = "pending" =>
    /\ count.completed = Affordable
    /\ count.completed = Len(commits)

\* A measurement stays within its budget, and what it reports is what the
\* workers, with their deadlines and their chain of writers, really did.
MeasurementSound == BudgetSuffices /\ CommitsInOrder /\ AcceptedIsComplete

\* A measurement that has begun never waits for itself: until the report
\* there is a step to take, and a write that fails, or is overdue, stops
\* none of those behind it.  Each step uses up a task, a request or a
\* deadline, so the report is reached.
GoesOn == Loading => ENABLED HeadroomNext

\* What a worker in a state still has to do, at most: the steps of its task,
\* and its deadline.
WorkLeft(x) ==
  CASE x.at = "gone" -> 0
    [] x.at = "free" -> 1
    [] x.at = "read" -> IF x.sent THEN 2 ELSE 3
    [] x.at = "write" -> 4 * (WriterCost - x.step) + (IF x.sent THEN 2 ELSE 4) + (IF x.overdue THEN 0 ELSE 1)
    [] x.at = "queued" -> IF x.overdue THEN 14 ELSE 15
    [] x.at = "slot" -> 16
EffortLeft ==
  Cardinality({p \in AllWorkers \X (1..16) : p[2] <= WorkLeft(worker[p[1]])})
  + (IF stageLate THEN 0 ELSE 1)
TasksLeft == IF next <= TasksOf(at) THEN TasksOf(at) + 1 - next ELSE 0

\* Every step brings the report nearer, whatever fails, is late or is not
\* affordable: the next stage begins, a task of this one is taken, or the
\* workers have less left to do.
MeasurementEnds ==
  [][\/ at < at'
     \/ at = at' /\ TasksLeft' < TasksLeft
     \/ at = at' /\ TasksLeft' = TasksLeft /\ EffortLeft' < EffortLeft]_headVars
=============================================================================
