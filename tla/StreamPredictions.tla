-------------------------- MODULE StreamPredictions --------------------------
(* The server-streaming RPC of the sidecar (sidecar/app/service.py,
   PredictionService.StreamPredictions): a handler on the event loop and a
   producer on a thread of the pool, joined by an unbounded queue and by the
   event `cancelled` that the producer polls between two steps.

   The handler is an async generator.  grpc.aio cancels the task that drives
   it when the client hangs up.  If the generator is waiting for the queue the
   cancellation is raised inside it and its `finally` runs at once; if it is
   suspended at `yield`, while its delta is being written, the task dies and
   the generator is an orphan until the interpreter finalises it.

   call_soon_threadsafe runs the callbacks of a thread in order, so that the
   loop's callback queue and the asyncio.Queue behind it are one queue here. *)
EXTENDS InferenceGate

CONSTANTS Streams,          \* the RPCs
          RequestedSteps,   \* values of `steps` in a request; 0 when unset
          DefaultSteps,     \* DEFAULT_STEPS
          MaxSteps,         \* MAX_STEPS
          Value,            \* Value[k]: what the model computes at step k
          NoMore,           \* the `None` that closes a queue
          Failed            \* the exception a producer forwards

ASSUME StreamAssumption ==
  /\ RequestedSteps \subseteq Nat
  /\ MaxSteps \in Nat \ {0}
  /\ DefaultSteps \in 1..MaxSteps
  /\ Value \in [1..MaxSteps -> Int]
  /\ NoMore \notin Nat /\ Failed \notin Nat /\ NoMore # Failed

VARIABLES pc,           \* where the handler of an RPC is
          outcome,      \* status of the RPC; "none" until it has one
          steps,        \* steps the handler settled on
          cumulative,   \* running sum of the values sent
          sent,         \* the deltas handed to gRPC, in order
          queue,        \* what the producer published and the handler has not taken
          cancelled,    \* the event the producer polls
          produced,     \* steps published by the producer
          burning       \* producers that are in the middle of a step

handlerVars == <<pc, outcome, steps, cumulative, sent>>
producerVars == <<produced, burning>>
vars == <<gateVars, handlerVars, queue, cancelled, producerVars>>

Failures == {"INVALID_ARGUMENT", "RESOURCE_EXHAUSTED", "CANCELLED", "INTERNAL"}

Init == /\ GateInit
        /\ pc = [r \in Streams |-> "idle"]
        /\ outcome = [r \in Streams |-> "none"]
        /\ steps = [r \in Streams |-> 0]
        /\ cumulative = [r \in Streams |-> 0]
        /\ sent = [r \in Streams |-> <<>>]
        /\ queue = [r \in Streams |-> <<>>]
        /\ cancelled = [r \in Streams |-> FALSE]
        /\ produced = [r \in Streams |-> 0]
        /\ burning = {}

------------------------------------------------------------------------------
(* Arrival. *)

\* Mutant of Clamp: no upper limit.
ClampUncapped(n) == IF n = 0 THEN DefaultSteps ELSE n

\* `request.steps or DEFAULT_STEPS`, at most MAX_STEPS.
Clamp(n) == IF n = 0 THEN DefaultSteps ELSE IF n > MaxSteps THEN MaxSteps ELSE n

GoTo(r, place) == pc' = [pc EXCEPT ![r] = place]

\* The RPC ends with a status and the limiter stops counting it.
End(r, code) == /\ outcome' = [outcome EXCEPT ![r] = code]
                /\ live' = live \ {r}

Refuse(r) == /\ pc[r] = "idle" /\ ~HasRoom
             /\ GoTo(r, "done") /\ End(r, "RESOURCE_EXHAUSTED")
             /\ UNCHANGED <<semaphore, pool, steps, cumulative, sent,
                            queue, cancelled, producerVars>>

Reject(r) == /\ pc[r] = "idle" /\ HasRoom
             /\ GoTo(r, "done") /\ End(r, "INVALID_ARGUMENT")
             /\ UNCHANGED <<semaphore, pool, steps, cumulative, sent,
                            queue, cancelled, producerVars>>

Enter(r) == /\ pc[r] = "idle" /\ HasRoom
            /\ \E n \in RequestedSteps : steps' = [steps EXCEPT ![r] = Clamp(n)]
            /\ live' = live \cup {r}
            /\ \/ Acquire /\ Submit(r) /\ GoTo(r, "get")
               \/ Park(r) /\ GoTo(r, "wait") /\ UNCHANGED pool
            /\ UNCHANGED <<outcome, cumulative, sent, queue, cancelled, producerVars>>

Proceed(r) == /\ pc[r] = "wait"
              /\ Resumed(r) /\ Submit(r) /\ GoTo(r, "get")
              /\ UNCHANGED <<live, outcome, steps, cumulative, sent,
                             queue, cancelled, producerVars>>

------------------------------------------------------------------------------
(* The loop of the handler. *)

Delta(r, k, sum) == [step |-> k, cumulative |-> sum, final |-> k = steps[r]]

\* Mutant of LeaveBlock: the event is not set.
LeaveBlockUnsignalled(r) == GoTo(r, "done") /\ Release /\ UNCHANGED cancelled

\* `finally: cancelled.set()` and the end of `async with self._inflight`.
LeaveBlock(r) == /\ GoTo(r, "done")
                 /\ cancelled' = [cancelled EXCEPT ![r] = TRUE]
                 /\ Release

TakeDelta(r) == /\ pc[r] = "get" /\ queue[r] # <<>> /\ Head(queue[r]) \in Nat
                /\ LET k == Head(queue[r])
                       sum == cumulative[r] + Value[k]
                   IN  /\ cumulative' = [cumulative EXCEPT ![r] = sum]
                       /\ sent' = [sent EXCEPT ![r] = Append(@, Delta(r, k, sum))]
                /\ queue' = [queue EXCEPT ![r] = Tail(@)]
                /\ GoTo(r, "yield")
                /\ UNCHANGED <<gateVars, outcome, steps, cancelled, producerVars>>

\* gRPC has written the delta and asks the generator for the next one.
Written(r) == /\ pc[r] = "yield"
              /\ GoTo(r, "get")
              /\ UNCHANGED <<gateVars, outcome, steps, cumulative, sent,
                             queue, cancelled, producerVars>>

TakeLast(r, item, code) ==
  /\ pc[r] = "get" /\ queue[r] # <<>> /\ Head(queue[r]) = item
  /\ queue' = [queue EXCEPT ![r] = Tail(@)]
  /\ LeaveBlock(r) /\ End(r, code)
  /\ UNCHANGED <<pool, steps, cumulative, sent, producerVars>>

TakeEnd(r) == TakeLast(r, NoMore, "OK")

TakeFailure(r) == TakeLast(r, Failed, "INTERNAL")

------------------------------------------------------------------------------
(* The client hangs up, or its deadline passes. *)

HangUpAsleep(r) == /\ pc[r] = "wait" /\ LeaveAsleep(r)
                   /\ GoTo(r, "done") /\ End(r, "CANCELLED")
                   /\ UNCHANGED <<pool, steps, cumulative, sent,
                                  queue, cancelled, producerVars>>

HangUpWoken(r) == /\ pc[r] = "wait" /\ LeaveWoken(r)
                  /\ GoTo(r, "done") /\ End(r, "CANCELLED")
                  /\ UNCHANGED <<pool, steps, cumulative, sent,
                                 queue, cancelled, producerVars>>

HangUpAtGet(r) == /\ pc[r] = "get"
                  /\ LeaveBlock(r) /\ End(r, "CANCELLED")
                  /\ UNCHANGED <<pool, steps, cumulative, sent, queue, producerVars>>

\* Mutant of HangUpAtYield: the permit is given back although the generator,
\* when it is finalised, gives it back too.
HangUpAtYieldReleasing(r) ==
  /\ pc[r] = "yield"
  /\ GoTo(r, "orphan") /\ End(r, "CANCELLED") /\ Release
  /\ UNCHANGED <<pool, steps, cumulative, sent, queue, cancelled, producerVars>>

HangUpAtYield(r) == /\ pc[r] = "yield"
                    /\ GoTo(r, "orphan") /\ End(r, "CANCELLED")
                    /\ UNCHANGED <<semaphore, pool, steps, cumulative, sent,
                                   queue, cancelled, producerVars>>

HangUp(r) == HangUpAsleep(r) \/ HangUpWoken(r) \/ HangUpAtGet(r) \/ HangUpAtYield(r)

Finalize(r) == /\ pc[r] = "orphan"
               /\ LeaveBlock(r)
               /\ UNCHANGED <<live, pool, outcome, steps, cumulative, sent,
                              queue, producerVars>>

------------------------------------------------------------------------------
(* The producer. *)

Publish(r, item) == queue' = [queue EXCEPT ![r] = Append(@, item)]

StartProducer(r) == /\ StartJob(r)
                    /\ UNCHANGED <<live, semaphore, handlerVars,
                                   queue, cancelled, producerVars>>

\* `should_stop` is false, the next step begins.
StartStep(r) == /\ r \in running \ burning
                /\ produced[r] < steps[r] /\ ~cancelled[r]
                /\ burning' = burning \cup {r}
                /\ UNCHANGED <<gateVars, handlerVars, queue, cancelled, produced>>

\* Mutant of PublishStep: a queue of one item, on which the thread blocks.
PublishStepBounded(r) == /\ r \in burning /\ queue[r] = <<>>
                         /\ Publish(r, produced[r] + 1)
                         /\ produced' = [produced EXCEPT ![r] = @ + 1]
                         /\ burning' = burning \ {r}
                         /\ UNCHANGED <<gateVars, handlerVars, cancelled>>

PublishStep(r) == /\ r \in burning
                  /\ Publish(r, produced[r] + 1)
                  /\ produced' = [produced EXCEPT ![r] = @ + 1]
                  /\ burning' = burning \ {r}
                  /\ UNCHANGED <<gateVars, handlerVars, cancelled>>

\* Mutant of EndOfSteps: `range(1, steps)`.
EndOfStepsShort(r) ==
  /\ r \in running \ burning
  /\ produced[r] >= steps[r] - 1 \/ cancelled[r]
  /\ Publish(r, NoMore) /\ EndJob(r)
  /\ UNCHANGED <<live, semaphore, handlerVars, cancelled, producerVars>>

\* The steps are exhausted, or `should_stop` is true.
EndOfSteps(r) == /\ r \in running \ burning
                 /\ produced[r] = steps[r] \/ cancelled[r]
                 /\ Publish(r, NoMore) /\ EndJob(r)
                 /\ UNCHANGED <<live, semaphore, handlerVars, cancelled, producerVars>>

\* Mutant of Raise: the exception is swallowed and the queue closed.
RaiseSwallowed(r) ==
  /\ r \in running
  /\ r \in burning \/ produced[r] = 0
  /\ Publish(r, NoMore) /\ EndJob(r)
  /\ burning' = burning \ {r}
  /\ UNCHANGED <<live, semaphore, handlerVars, cancelled, produced>>

\* The model raises, while it sets up or inside a step.
Raise(r) == /\ r \in running
            /\ r \in burning \/ produced[r] = 0
            /\ Publish(r, Failed) /\ EndJob(r)
            /\ burning' = burning \ {r}
            /\ UNCHANGED <<live, semaphore, handlerVars, cancelled, produced>>

------------------------------------------------------------------------------
Handler(r) == Proceed(r) \/ TakeDelta(r) \/ Written(r) \/ TakeEnd(r)
              \/ TakeFailure(r) \/ Finalize(r)

Producer(r) == StartStep(r) \/ PublishStep(r) \/ EndOfSteps(r)

\* Every RPC has ended and the pool is empty.
Quiet == /\ \A r \in Streams : pc[r] = "done"
         /\ pending = <<>> /\ running = {}
         /\ UNCHANGED vars

Next == \/ \E r \in Streams : \/ Refuse(r) \/ Reject(r) \/ Enter(r)
                              \/ Handler(r) \/ HangUp(r)
                              \/ StartProducer(r) \/ Producer(r) \/ Raise(r)
        \/ Quiet

Spec == Init /\ [][Next]_vars

\* The threads of the pool run.  Nothing is assumed of the event loop, of the
\* client or of the garbage collector.
PoolSpec == /\ Spec
            /\ \A r \in Streams : WF_vars(StartProducer(r)) /\ WF_vars(Producer(r))

\* In addition the event loop runs, a client that does not hang up reads what
\* it is sent, and orphans are finalised.
FairSpec == PoolSpec /\ \A r \in Streams : WF_vars(Handler(r))

------------------------------------------------------------------------------
(* Properties. *)

Codes == Failures \cup {"none", "OK"}

TypeOK ==
  /\ live \subseteq Streams
  /\ permits \in 0..MaxConcurrentRpcs
  /\ waiters \in Seq(Streams)
  /\ woken \subseteq Streams
  /\ pending \in Seq(Streams)
  /\ running \subseteq Streams
  /\ pc \in [Streams -> {"idle", "wait", "get", "yield", "orphan", "done"}]
  /\ outcome \in [Streams -> Codes]
  /\ steps \in [Streams -> 0..MaxSteps]
  /\ cumulative \in [Streams -> Int]
  /\ sent \in [Streams -> Seq([step : Nat, cumulative : Int, final : BOOLEAN])]
  /\ queue \in [Streams -> Seq(Nat \cup {NoMore, Failed})]
  /\ cancelled \in [Streams -> BOOLEAN]
  /\ produced \in [Streams -> Nat]
  /\ burning \subseteq running

\* RPCs inside `async with self._inflight`, and those about to be.
InBlock == {r \in Streams : pc[r] \in {"get", "yield", "orphan"}}
Holders == woken \cup InBlock

\* Whatever way a handler leaves, parked, woken, at the queue, at a yield or
\* by finalisation, its permit is neither lost nor given back twice.
PermitConservation == permits + Cardinality(Holders) = MaxConcurrentRpcs

\* The queue without bound stays short because steps are clamped
\* (service.py, the comment above `queue`).
BacklogBounded == \A r \in Streams : Len(queue[r]) <= MaxSteps + 1

\* A producer whose handler is gone does not begin another step: it is not
\* left to run to completion (inference.py, `should_stop`).
NoStepAfterEnd ==
  [][\A r \in Streams : r \in burning' \ burning => pc[r] # "done"]_vars

\* The handler and the producer together keep the contract of the proto file.
Contract == INSTANCE DeltaStream WITH total <- steps
KeepsContract == Contract!Spec

\* The inductive invariant behind the theorems: who is where in the semaphore
\* and in the pool, and how the queue continues what was sent.
SemaphoreInv ==
  SemaphoreServes(Streams, {r \in Streams : pc[r] = "wait"}, InBlock)

Jobs == ToSet(pending) \cup running

PoolAt(r) ==
  /\ r \in Jobs => pc[r] \notin {"idle", "wait"} /\ (pc[r] = "done" => cancelled[r])
  /\ r \in ToSet(pending) => produced[r] = 0 /\ queue[r] = <<>> /\ sent[r] = <<>>
  /\ r \in running => produced[r] = Len(sent[r]) + Len(queue[r])
  /\ r \in burning => produced[r] < steps[r]

PoolInv == PoolServes(Streams, Jobs) /\ \A r \in Streams : PoolAt(r)

HandlerAt(r) ==
  /\ pc[r] \in {"idle", "wait"} =>
       sent[r] = <<>> /\ queue[r] = <<>> /\ produced[r] = 0
  /\ pc[r] = "idle" <=> steps[r] = 0 /\ outcome[r] = "none"
  /\ outcome[r] = "none" <=> pc[r] \in {"idle", "wait", "get", "yield"}
  /\ outcome[r] = "OK" => pc[r] = "done"
  /\ r \in live <=> pc[r] \in {"wait", "get", "yield"}
  /\ cancelled[r] => pc[r] = "done"
  /\ cumulative[r] = IF sent[r] = <<>> THEN 0 ELSE sent[r][Len(sent[r])].cumulative

HandlerInv == \A r \in Streams : HandlerAt(r)

\* What is in the queue continues what was sent, and ends with a marker only
\* if the producer has left: `None` after the last step, unless cancelled.
IsStep(r, i) == queue[r][i] = Len(sent[r]) + i /\ queue[r][i] <= steps[r]

IsMarker(r, i) ==
  /\ queue[r][i] \in {NoMore, Failed}
  /\ i = Len(queue[r]) /\ r \notin running
  /\ queue[r][i] = NoMore /\ ~cancelled[r] => Len(sent[r]) + i = steps[r] + 1

QueueAt(r) == \A i \in DOMAIN queue[r] : IsStep(r, i) \/ IsMarker(r, i)

QueueInv == \A r \in Streams : QueueAt(r)

IInv == TypeOK /\ SemaphoreInv /\ PoolInv /\ HandlerInv /\ QueueInv

\* A thread of the pool is never held by a consumer: a job that was submitted
\* leaves the pool even if the loop, the client and the collector stand still
\* (service.py, the comment above `queue`).
WorkersFreed ==
  \A r \in Streams : r \in ToSet(pending) \cup running
                     ~> r \notin ToSet(pending) \cup running

\* Every RPC ends: with a terminal status, and the permit given back.
HandlersEnd == \A r \in Streams : pc[r] # "idle" ~> pc[r] = "done"

\* "Bounds how much CPU work is in flight" (service.py, `_inflight`): read
\* as a bound on the steps that burn CPU at once, it does not hold: the permit
\* of a cancelled stream is free before its producer has stopped.
InflightBound == Cardinality(burning) <= MaxConcurrentRpcs

==============================================================================
