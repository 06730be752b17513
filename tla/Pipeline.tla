----------------------------- MODULE Pipeline ------------------------------
(***************************************************************************)
(* The sampled collector: a producer thread acquires one observation per   *)
(* UTC slot, worker threads check the services of that slot, and the main  *)
(* thread waits for the checks and persists the cycle                      *)
(* (ops/frontpage_metrics_v2/{daemon,sources/services}.py).                *)
(*                                                                         *)
(* Time is the number of the current 15-second slot.  Between two steps of *)
(* a thread any number of steps of the others and of the clock may happen. *)
(* A service check may hang for ever; a stop signal may come at any time.  *)
(***************************************************************************)
EXTENDS Integers, Sequences, FiniteSets

CONSTANTS
  Targets,   \* the configured services
  Capacity,   \* capacity of the queue between producer and consumer
  MaxSlots    \* bound: slots of the clock

ASSUME PipelineConstants == Capacity \in Nat \ {0} /\ MaxSlots \in Nat

VARIABLES
  clock,         \* current UTC slot
  stop,          \* stop_event
  producer,      \* [pc, deadline, row] of the sampler thread
  fault,         \* the producer's exception: "none", "acquire" or "full"
  pending,       \* the queue: cycles acquired and not yet taken
  batches,       \* service batches started so far
  backpressure,  \* the last write was slow
  consumer,      \* [pc, row, outcome] of the main thread
  committed      \* the cycles persisted so far

pipelineVars == <<clock, stop, producer, fault, pending, batches, backpressure,
          consumer, committed>>

-----------------------------------------------------------------------------
\* A cycle: the slot it was acquired in and its service batch, 0 when the
\* checks were refused because an earlier batch was still running.
CycleRow == [slot : Nat, batch : Nat]
NoRow == [slot |-> 0, batch |-> 0]

\* A check of a service, and the slot in which a worker took it.  "checked"
\* stands for an up or down (or failed) answer.
Check == [state : {"queued", "running", "checked", "unknown"}, at : Nat]
Queued == [state |-> "queued", at |-> 0]
Finished(c) == c.state \in {"checked", "unknown"}
Batch == [slot : Nat, checks : [Targets -> Check]]
BatchDone(b) == \A s \in Targets : Finished(batches[b].checks[s])

\* A persisted cycle with its service readings.
Cycle == [slot : Nat, readings : [Targets -> Check]]
Readings(row) == IF row.batch = 0
                   THEN [s \in Targets |-> [state |-> "unknown", at |-> row.slot]]
                   ELSE batches[row.batch].checks

PipelineInit ==
  /\ clock = 0
  /\ stop = FALSE
  /\ producer = [pc |-> "new", deadline |-> 0, row |-> NoRow]
  /\ fault = "none"
  /\ pending = <<>>
  /\ batches = <<>>
  /\ backpressure = FALSE
  /\ consumer = [pc |-> "prime", row |-> NoRow, outcome |-> "none"]
  /\ committed = <<>>

-----------------------------------------------------------------------------
(* The clock, the signal and the workers of the service checks.            *)

Tick ==
  /\ clock < MaxSlots
  /\ clock' = clock + 1
  /\ UNCHANGED <<stop, producer, fault, pending, batches, backpressure, consumer, committed>>

Signal ==
  /\ ~stop /\ consumer.pc # "exit"
  /\ stop' = TRUE
  /\ UNCHANGED <<clock, producer, fault, pending, batches, backpressure, consumer, committed>>

Update(b, s, check) == batches' = [batches EXCEPT ![b].checks[s] = check]

\* Mutant: a check that starts late is made all the same.
AnySlot(b) == TRUE
InSlot(b) == clock = batches[b].slot

\* A worker takes a check; it does not make one whose slot is over.
StartCheck(b, s) ==
  /\ consumer.pc # "exit"
  /\ batches[b].checks[s].state = "queued"
  /\ Update(b, s, [state |-> IF InSlot(b) THEN "running" ELSE "unknown", at |-> clock])
  /\ UNCHANGED <<clock, stop, producer, fault, pending, backpressure, consumer, committed>>

EndCheck(b, s) ==
  /\ batches[b].checks[s].state = "running"
  /\ Update(b, s, [batches[b].checks[s] EXCEPT !.state = "checked"])
  /\ UNCHANGED <<clock, stop, producer, fault, pending, backpressure, consumer, committed>>

-----------------------------------------------------------------------------
(* The producer: run_aligned around sample.                                *)

ProducerAt(pc) == producer.pc = pc
Finish == producer' = [producer EXCEPT !.pc = "finished"]

NextSlot == clock + 1

Align ==
  /\ ProducerAt("align")
  /\ IF stop THEN Finish
     ELSE producer' = [producer EXCEPT !.pc = "wait", !.deadline = NextSlot]
  /\ UNCHANGED <<clock, stop, fault, pending, batches, backpressure, consumer, committed>>

WaitStops ==
  /\ ProducerAt("wait") /\ stop
  /\ Finish
  /\ UNCHANGED <<clock, stop, fault, pending, batches, backpressure, consumer, committed>>

SlotBegins == ProducerAt("wait") /\ ~stop /\ clock >= producer.deadline

SkipSlow ==
  /\ SlotBegins /\ backpressure
  /\ backpressure' = FALSE
  /\ producer' = [producer EXCEPT !.pc = "align"]
  /\ UNCHANGED <<clock, stop, fault, pending, batches, consumer, committed>>

QueueFull == Len(pending) >= Capacity

SkipFull ==
  /\ SlotBegins /\ ~backpressure /\ QueueFull
  /\ producer' = [producer EXCEPT !.pc = "align"]
  /\ UNCHANGED <<clock, stop, fault, pending, batches, backpressure, consumer, committed>>

\* ServiceBatches.pending is the last batch started.
Busy == Len(batches) > 0 /\ ~BatchDone(Len(batches))

NoBatch == 0

StartBatch ==
  /\ SlotBegins /\ ~backpressure /\ ~QueueFull
  /\ batches' = IF Busy THEN batches
                ELSE Append(batches, [slot |-> clock, checks |-> [s \in Targets |-> Queued]])
  /\ producer' = [producer EXCEPT
                    !.pc = "acquire",
                    !.row = [slot |-> clock, batch |-> IF Busy THEN NoBatch ELSE Len(batches')]]
  /\ UNCHANGED <<clock, stop, fault, pending, backpressure, consumer, committed>>

\* collect_observations succeeds and put_nowait follows.
Put ==
  /\ ProducerAt("acquire") /\ Len(pending) < Capacity
  /\ pending' = Append(pending, producer.row)
  /\ producer' = [producer EXCEPT !.pc = "align"]
  /\ UNCHANGED <<clock, stop, fault, batches, backpressure, consumer, committed>>

\* collect_observations raises, or put_nowait finds the queue full.
ProducerFails ==
  /\ ProducerAt("acquire")
  /\ fault' = IF Len(pending) < Capacity THEN "acquire" ELSE "full"
  /\ stop' = TRUE
  /\ Finish
  /\ UNCHANGED <<clock, pending, batches, backpressure, consumer, committed>>

-----------------------------------------------------------------------------
(* The consumer: run_sampled, the loop of run_pipeline, and its end.       *)

ConsumerAt(pc) == consumer.pc = pc
Leave(outcome) ==
  /\ consumer' = [consumer EXCEPT !.pc = "join", !.outcome = outcome]
  /\ stop' = TRUE

\* The boot sample primes the counters; then the producer starts.
Prime ==
  /\ ConsumerAt("prime")
  /\ \/ /\ ~stop
        /\ consumer' = [consumer EXCEPT !.pc = "get"]
        /\ producer' = [producer EXCEPT !.pc = "align"]
     \/ /\ consumer' = [consumer EXCEPT
                          !.pc = "exit", !.outcome = IF stop THEN "clean" ELSE "fault"]
        /\ UNCHANGED producer
  /\ UNCHANGED <<clock, stop, fault, pending, batches, backpressure, committed>>

Get ==
  /\ ConsumerAt("get") /\ fault = "none" /\ pending # <<>>
  /\ consumer' = [consumer EXCEPT !.pc = "services", !.row = Head(pending)]
  /\ pending' = Tail(pending)
  /\ UNCHANGED <<clock, stop, producer, fault, batches, backpressure, committed>>

\* The loop ends with the producer, or because of the producer's fault.
LoopEnds ==
  /\ ConsumerAt("get")
  /\ fault # "none" \/ (ProducerAt("finished") /\ pending = <<>>)
  /\ Leave("clean")
  /\ UNCHANGED <<clock, producer, fault, pending, batches, backpressure, committed>>

\* Mutant: the stop event is not looked at while the checks are pending.
NotStopped == FALSE
StopSeen == stop

\* Shutdown: the cycle whose checks are pending is given up.
Abandon ==
  /\ ConsumerAt("services") /\ StopSeen
  /\ Leave("clean")
  /\ UNCHANGED <<clock, producer, fault, pending, batches, backpressure, committed>>

\* The checks are in: complete_cycle.  The stop event was looked at up to
\* 0.1 s before.
Complete ==
  /\ ConsumerAt("services")
  /\ consumer.row.batch # 0 => BatchDone(consumer.row.batch)
  /\ consumer' = [consumer EXCEPT !.pc = "persist"]
  /\ UNCHANGED <<clock, stop, producer, fault, pending, batches, backpressure, committed>>

CommitRow == committed' = Append(committed, [slot |-> consumer.row.slot,
                                          readings |-> Readings(consumer.row)])

\* persist_cycle; a slow write asks the producer to skip a slot.
Persist ==
  /\ ConsumerAt("persist")
  /\ CommitRow
  /\ backpressure' \in {backpressure, TRUE}
  /\ consumer' = [consumer EXCEPT !.pc = "get"]
  /\ UNCHANGED <<clock, stop, producer, fault, pending, batches>>

\* The transaction fails, or the publication that follows it.
PersistFails ==
  /\ ConsumerAt("persist")
  /\ CommitRow \/ UNCHANGED committed
  /\ Leave("fault")
  /\ UNCHANGED <<clock, producer, fault, pending, batches, backpressure>>

\* A producer's fault wins over the interrupted wait it caused.
FinalOutcome == IF fault # "none" THEN "fault" ELSE consumer.outcome

Join ==
  /\ ConsumerAt("join") /\ ProducerAt("finished")
  /\ consumer' = [consumer EXCEPT !.pc = "exit", !.outcome = FinalOutcome]
  /\ UNCHANGED <<clock, stop, producer, fault, pending, batches, backpressure, committed>>

ProducerStep == Align \/ WaitStops \/ SkipSlow \/ SkipFull \/ StartBatch
                  \/ Put \/ ProducerFails
ConsumerStep == Prime \/ Get \/ LoopEnds \/ Abandon \/ Complete \/ Persist
                  \/ PersistFails \/ Join
CheckStep == \E b \in DOMAIN batches, s \in Targets : StartCheck(b, s) \/ EndCheck(b, s)

PipelineNext == Tick \/ Signal \/ CheckStep \/ ProducerStep \/ ConsumerStep

\* Both threads run; a host reading and a transaction end, a check need not.
\* A thread that can give up its wait gets to do so.
PipelineFairness == WF_pipelineVars(ProducerStep) /\ WF_pipelineVars(ConsumerStep)

PipelineSpec == PipelineInit /\ [][PipelineNext]_pipelineVars /\ PipelineFairness

-----------------------------------------------------------------------------
(* Properties.                                                             *)

\* The variables have their types.
PipelineTypeOK ==
  /\ clock \in Nat /\ stop \in BOOLEAN
  /\ producer \in [pc : {"new", "align", "wait", "acquire", "finished"},
                   deadline : Nat, row : CycleRow]
  /\ fault \in {"none", "acquire", "full"}
  /\ pending \in Seq(CycleRow) /\ batches \in Seq(Batch)
  /\ backpressure \in BOOLEAN
  /\ consumer \in [pc : {"prime", "get", "services", "persist", "join", "exit"},
                   row : CycleRow, outcome : {"none", "clean", "fault"}]
  /\ committed \in Seq(Cycle)

\* The producer alone puts, so a queue that had room still has it when the
\* row is ready: put_nowait never raises.
NeverOverflows == Len(pending) <= Capacity /\ fault # "full"

\* Slots of all cycles from the oldest persisted to the one being acquired.
Slots ==
  [n \in DOMAIN committed |-> committed[n].slot]
    \o (IF consumer.pc \in {"services", "persist"} THEN <<consumer.row.slot>> ELSE <<>>)
    \o [n \in DOMAIN pending |-> pending[n].slot]
    \o (IF ProducerAt("acquire") THEN <<producer.row.slot>> ELSE <<>>)

\* One cycle per UTC slot, persisted in the order of acquisition: an overrun
\* leaves gaps and never shifts or repeats a slot.
OnePerSlot == \A m, n \in DOMAIN Slots : m < n => Slots[m] < Slots[n]

\* "Results remain attached to the original acquired cycle; a previous up
\* result is never reused" (docs/metrics-cadence-repair.md): a persisted
\* reading was taken in the very slot of its cycle.
ReadingsAreOwn ==
  \A n \in DOMAIN committed, s \in Targets :
    /\ Finished(committed[n].readings[s])
    /\ committed[n].readings[s].state = "checked" =>
         committed[n].readings[s].at = committed[n].slot

\* One batch of checks at a time, however long a check hangs.
OneBatch ==
  \A a, b \in DOMAIN batches : ~BatchDone(a) /\ ~BatchDone(b) => a = b

\* A producer's fault ends the process as a fault, also when it reaches the
\* consumer first as the stop event that interrupts its wait.
FaultReported ==
  consumer.pc = "exit" /\ fault # "none" => consumer.outcome = "fault"

\* After a stop, a thread that is not done has a step to take which waits
\* neither for a check nor for the clock; only one waits for the other.
ProducerCanStop == producer.pc \in {"align", "wait", "acquire"}
ConsumerCanStop ==
  \/ consumer.pc \in {"prime", "services", "persist"}
  \/ ConsumerAt("get") /\ (fault # "none" \/ pending # <<>> \/ ProducerAt("finished"))
  \/ ConsumerAt("join") /\ ProducerAt("finished")

\* Steps left to the threads after a stop, with all that is in the queue.
ProducerLeft == IF ProducerAt("acquire") THEN 5
                ELSE IF producer.pc \in {"align", "wait"} THEN 1 ELSE 0
ConsumerLeft == CASE ConsumerAt("services") -> 4
                  [] ConsumerAt("persist") -> 3
                  [] ConsumerAt("get") -> 2
                  [] consumer.pc \in {"prime", "join"} -> 1
                  [] OTHER -> 0
StepsLeft == ProducerLeft + ConsumerLeft + 3 * Len(pending)

\* A stop never leaves the threads waiting for one another, and what they may
\* still do is bounded by the queue.
ShutdownNeverWaits ==
  stop /\ consumer.pc # "exit" =>
    (ProducerCanStop \/ ConsumerCanStop) /\ StepsLeft \in 1..(3 * Capacity + 6)

\* Every step of a thread after a stop brings the end nearer, and nothing else,
\* neither a check nor the clock nor the signal, puts it off.
ShutdownAdvances ==
  [][stop => \/ StepsLeft' < StepsLeft
             \/ UNCHANGED <<producer, consumer, pending>>]_pipelineVars

\* The pipeline as a whole: the queue holds, and every cycle is of its own
\* slot, with its own readings, from one batch at a time; faults come out.
PipelineSound ==
  /\ PipelineTypeOK /\ NeverOverflows /\ OneBatch
  /\ OnePerSlot /\ ReadingsAreOwn /\ FaultReported /\ ShutdownNeverWaits

\* A stop signal ends the process, even while a service check hangs.
ShutdownCompletes == stop ~> consumer.pc = "exit"
=============================================================================
