# Verification of the prediction service

TLA+ models of the gRPC prediction service in this repository, the TLC
configurations that check them on small instances, and proofs that the TLA+
proof system checks for every instance. Paths below are relative to the root of
the repository; line numbers are those of the commit the models were written for.

## 1. The system

A Fastify gateway (`api/`, TypeScript) translates HTTP into gRPC; a
`grpc.aio` server (`sidecar/`, Python) runs a CPU-bound model on a thread pool
and caches results in Redis; both export traces to Jaeger.

| Component | State | Operations | What is hard |
| --- | --- | --- | --- |
| Streaming RPC (`sidecar/app/service.py:163-279`) | place of the handler, deltas sent, queue, event `cancelled`, position of the producer | validate, clamp, enter the semaphore, submit the producer, take and yield, abort, leave | the handler lives on the event loop, the producer on a thread; a client may hang up at every await, and at a `yield` where no exception reaches the generator |
| Unary RPC (`service.py:82-161`) | place of the handler, its result | validate, look up, infer in the pool, store, answer | five ways out of the semaphore block; a job that is queued, running or over when its caller leaves |
| Limiter, semaphore, pool (`server.py:56-63`, `service.py:45-47`) | RPCs counted, permits, waiters in order, woken RPCs, jobs queued and running | admit, acquire, release, wake, cancel a waiter; submit, start, end, cancel a job | a waiter that is cancelled after it was given a permit; two bounds of equal size over different sets of RPCs |
| Cache and Redis (`cache.py`) | entries with a time to live, SETs on their way | get, set, connect, close, ping | entries vanish and change at any time; answers get lost; a SET may be executed after its sender stopped waiting or was restarted |
| Model (`inference.py`) | none | `fingerprint`, `run_inference`, `run_inference_steps` | determinism: what a result depends on against what the cache key is made of |
| Sidecar lifecycle (`server.py:42-131`, `healthcheck.py`) | health status, grace period | start, drain, close the cache, shut the pool down, flush | work that outlives the RPCs it belongs to |
| gRPC client of the gateway (`api/src/grpc-client.ts`) | channel, deadline, attempts | `predict`, `streamPredictions`, `waitForSidecar` | retries on UNAVAILABLE; a cancellation of one's own told from one of the peer's |
| `GET /stream` (`routes/stream.ts`) | socket of the client, deltas delivered, abort signal | forward, wait for drain, end, report an error, abort | a disconnect while waiting for `drain`; an error once the headers are out |
| `POST /predict` (`routes/predict.ts`) | none | map the status | statuses of retried calls; a caller who hangs up leaves the call behind |
| `GET /trace-test` (`routes/trace-test.ts`, `jaeger.ts`) | trace as last seen, attempts | call, flush, poll | a trace that arrives in parts, or that has spans of other requests; a flush that fails; a query that hangs |
| Gateway lifecycle (`server.ts`, `routes/health.ts`) | readiness, shutting down | warm up, listen, close in order | requests open during shutdown, with and without a caller |
| Tracing (`tracing.ts`, `trace-context.ts`, `tracing.py`) | span batches | export, flush | delay of the batches, seen by `/trace-test` only |
| Build, stubs, deployment | none | generate, build, compose | not behaviour of the program |

Interactions: HTTP routes call the gRPC client; the client calls the two
handlers over a channel; handlers share the limiter, the semaphore and the pool
on one event loop; the producer of a stream talks to its handler by
`call_soon_threadsafe` and is stopped by a `threading.Event`; the unary handler
awaits Redis before and after its job.

What makes the components correct:

- *gate*: permits are conserved on every way out, none is stranded beside a
  sleeping RPC, a thread is never held by somebody who is gone;
- *streams*: the caller sees the deltas 1, 2, ... with their running sums, the
  last one final, OK only after it; the queue stays short; an abandoned
  producer stops; every RPC ends;
- *unary calls*: a cached answer is what a fresh computation gives; the cache
  never makes a call fail; every call ends however Redis behaves;
- *bridge*: the client of the SSE stream sees what a gRPC caller is promised and
  learns once how the stream ended; the call ends with its route and its client;
  the socket's buffer is bounded;
- *gateway process*: a status tells the caller what happened behind it; whoever
  waits for an answer gets one, also during a shutdown; a flush that failed is
  not reported as success; start and shutdown end;
- *trace test*: no false alarm, and a verdict that agrees with Jaeger's answers.

## 2. Modules

| Module | Role |
| --- | --- |
| `InferenceGate` | limiter, `asyncio.Semaphore` and thread pool: state and operations, extended by the handlers |
| `DeltaStream` | abstract specification: what `proto/prediction.proto` promises of a stream |
| `StreamPredictions` | the streaming RPC over the gate; refines `DeltaStream` |
| `Predict` | the unary RPC over the gate, the cache, Redis and the restart |
| `SseBridge` | `GET /stream` and the async generator below it, over the sidecar as `DeltaStream` describes it; refines `DeltaStream` for the SSE client |
| `Gateway` | the gateway process: warm-up, `POST /predict` with retries and deadline, readiness, spans, shutdown |
| `TraceTest` | `GET /trace-test` and the Jaeger client, with time |
| `MCStreamPredictions`, `MCPredict`, `MCSseBridge`, `MCGateway`, `MCTraceTest` | instances for TLC |
| `QueueLemmas` | lemmas on sequences without repetition: append, tail, removal |
| `InferenceGate_proofs` | lemmas: what each operation of the gate preserves |
| `DeltaStream_proofs` | what the contract implies for a caller |
| `StreamPredictions_proofs`, `Predict_proofs`, `SseBridge_proofs`, `Gateway_proofs`, `TraceTest_proofs` | the theorems about the module they are named after |

### The gate

`live` is what `maximum_concurrent_rpcs` counts: an RPC from its admission to
its status. `permits`, `waiters` and `woken` are the semaphore of CPython 3.12,
the version of the images: a free permit is handed to the first waiter, who owns
it from then on and resumes in a later turn of the loop. Cancelled before, it
leaves the queue; cancelled after, it passes the permit on. `pending` and
`running` are the queue and the threads of `ThreadPoolExecutor`.

### StreamPredictions

`pc` is where the handler is: `wait` in `async with self._inflight` (line 233),
`get` in `queue.get()` (237), `yield` at line 246 while the delta is written,
`orphan` when the task that drove the generator was cancelled there, `done`.
One action stands for everything between two awaits. `Enter` is the validation,
the clamp and the semaphore; `TakeDelta` and `Written` the loop; `TakeEnd` and
`TakeFailure` the two markers; the four `HangUp...` the cancellation at each
await; `Finalize` the moment the interpreter closes an orphaned generator, whose
`finally` then runs. `StartProducer`, `StartStep`, `PublishStep`, `EndOfSteps`
and `Raise` are the thread: `StartStep` polls `cancelled`, so that the event may
be set between the poll and the end of the step.

Abstractions: `context.abort` and the status that follows are one step;
callbacks of `call_soon_threadsafe` run in order, hence they and the
`asyncio.Queue` are one queue; values are small integers, `Value[k]` being what
the deterministic model computes at step k; an RPC is used once.

### Predict

`pc`: `wait` at line 104, `get` at 105, `infer` at 126, `set` at 144. `Hit`,
`Miss`, `GetFails`, `Discard` and `GetRaises` are the outcomes of `cache.get`;
`StartInference`, `FinishInference` and `FailInference` the thread; `Collect`
and `CollectFailure` the handler when its future has a result; `Answer` the end
of `cache.set`, in whatever way, with the reply. A result is a record of what it
depends on: the configuration, the fingerprint that seeds the weights, the input.
`redis` is the entry under each key and `writes` the SETs that have left: they
are executed or lost later, independently of the handler. `Drop` is expiry,
eviction or a restart of Redis, `Overwrite` a write by another program, with
entries that do not parse (`Malformed`) or on which `cache.get` raises
(`Undecodable`). `Restart` is a restart of the sidecar.

The semaphore has the size of the limiter (`server.py:62`, `service.py:47`), so
that unary calls alone never wait for it. They do wait behind orphaned streams,
which hold a permit the limiter no longer counts; the `Stream...` actions are
the streaming RPC as far as it takes room at the gate. A stream that has to
wait itself, and the threads streams use, are left to `StreamPredictions`.

Abstractions: GET is one step, since only its answer matters; SHA-256 is
injective; entries written by other programs never parse as results; a disabled
cache is a Redis whose every call fails.

### SseBridge

Composition: `Sidecar == INSTANCE DeltaStream` is the sidecar, of which only the
contract is used (`StreamPredictions` is shown to keep it), and
`ClientStream == INSTANCE DeltaStream WITH ...` is what the client of the HTTP
response sees; `KeepsContract` says that it keeps the same contract.

`attempts`, `arrived` and `status` are the call as grpc-js keeps it: `Arrive` and
`StatusArrives` fill its buffer, where OK stays behind the deltas and an error may
overtake those the iterator does not have yet, `Retry` starts the call again at the
sidecar as long as it is not `Committed`, `Unavailable` and `Deadline` end it.
`pc` is the route: `pull` in the `for await` (`stream.ts:62`), `drain` at line 92.
`Start` is everything before the loop, `Forward` one turn of it, `EndOfStream`
the end of the `try` (an own cancellation included, `grpc-client.ts:131`),
`Fail` the `catch`, each with the `finally`. `messages`, `closing` and `unread`
are what the socket accepted and what its buffer holds; `HangUp` destroys it,
and its listener aborts and cancels the call in the same step.

Abstractions: the comment frame that opens the response is not a frame of the
buffer; frames count one each; a delta's payload is the record of `DeltaStream`;
the transparent retries of grpc-js, which happen before the sidecar has seen the
call and are not counted, show nothing new. Branches no execution reaches have no
action: `break` at `stream.ts:71` (nobody but the `finally` ends the response) and
`!headersSent` at lines 109-119 (the headers are sent before the `try`).

A route whose client leaves during the wait for `drain` never resumes, since a
destroyed socket emits no `drain`. The model keeps this as the state `Stuck`: the
call is cancelled, nothing runs and nothing refers to the promise but the
response itself, hence it costs a `finally` that has nothing left to do.

### Gateway

`phase` and `exit` are `main` and `shutdown` of `server.ts`; `waiting` and
`expired` the loop of `waitForSidecar`, with the pause of `DelayOver`; `channel`
the state grpc-js reports: idle until a call or the warm-up wakes it, in
transient failure until a connection succeeds. `up` is the sidecar together with
the network. A request is `queued` while its attempt has no connection, `sent`,
in `backoff`, or `done`; `codes` are the statuses of its attempts and `reply` the
HTTP status. `AttemptEnds` is the retry policy and, in the end, the route.
On a call whose headers had come (`CallLost`) and on a channel that is closed
(`PickFails`) the policy need not be applied. `Kill` is SIGKILL at any time, or a
signal before the handlers are installed (`server.ts:61`).

`gone` are the requests to `/predict` whose caller hung up: the route has no
listener for it (`predict.ts:35-40`), so that `HangUp` changes nothing else, and
the call keeps its deadline and its retries. `AppClosed` waits as `app.close()`
does, for connections: every call that is still open belongs to a caller who
left. In the same stretch of code `CloseChannel` closes the channel, which fails
the calls without a connection and spares the others, and starts the flush.

`span` follows the spans of a request through the batch processor: `open`,
`queued` when the last of them has ended, `flushing` once a flush has taken them,
and then `exported`, `dropped` by the timer (`BatchExport`) or by a processor that
is shutting down, or `lost` in a flush that failed. `Flush` and `FlushFails` are
the ends of `flushTraces()`; what was queued meanwhile, by calls of callers who
left, is taken by the flush of `provider.shutdown()`, which `TracingStopped` ends.

An SSE stream is `streaming` from its headers to the end of its route or its
client (`StreamOpens`, `StreamCloses`), which is all the process sees of it.

Abstractions: a trace test that is open at a shutdown is a request like the
others; a status of the sidecar stands for all that the mapping treats alike; the
moment at which the deadline passes is left open.

### TraceTest

`pc` goes from `call` over `flush` to turns of `query` and `pause`; `clock` is
`Date.now() - startedAt` of `waitForTrace`, `due` the latest end of the query or
the end of the pause, and `Resume` the condition of the loop. `spans` follows the
spans of this request in each service: queued in the gateway's batch processor, exported,
indexed, lost. `Answer` returns the index as it was at some moment of the query:
what was there when it was sent and still is must be in it, what has come or
gone since may be. `healthy`, `sampled`, `propagated` and `joined` are the
environment of the request, chosen at the start: a request that comes with a
`traceparent` joins the trace of its caller, which is the only kind that may not be
sampled. `others` are the services of which the index has spans of that trace that
are not this request's, those of the caller or of an earlier request to either
service; `OthersChange` lets them arrive at any time. `Until` is the predicate of
the code (`trace-test.ts:90-91`), this service and any other one, and
`CrossService` what the answer says with the same words (114-115).

Abstractions: a trace is the set of services in it, which is all that `until` and
`cross_service` look at; the three ways a query can throw are one action; the limits fetch has for the
headers and for each part of the body are taken together as one `FetchLimit`; the
sidecar's spans count as exported once the call is over, the delay of its batch
processor being part of `Lag`.

## 3. Runs

| Run | Instance | Checks |
| --- | --- | --- |
| `stream_safety` | 4 streams, 2 permits, 1 thread, 2 steps at most | `TypeOK`, `PermitConservation`, `NoStrandedPermit`, `BacklogBounded`, `IInv`, `NoStepAfterEnd`, `KeepsContract` |
| `stream_pool` | 3 streams, 2 permits, 1 thread | `WorkersFreed` |
| `stream_ends` | 3 streams, 1 permit, 1 thread | `HandlersEnd` |
| `stream_inflight` | 2 streams, 1 permit, 2 threads | `InflightBound` is violated |
| `predict_safety` | 2 calls, 1 stream, 2 permits, 1 thread, 3 requests over 2 keys, 1 configuration | `TypeOK`, `PermitConservation`, `NoStrandedPermit`, `IInv`, `CacheTransparent`, `NoAbandonedStart` |
| `predict_failopen` | the same, with entries that do not parse and none on which `cache.get` raises | `FailOpen`, `CallsEnd` |
| `predict_reconfigured` | 2 configurations | `CacheTransparent` is violated |
| `predict_undecodable` | entries on which `cache.get` raises | `FailOpen` is violated |
| `sse_bridge` | 1 stream of up to 3 deltas, 3 attempts, a socket of 2 frames | `TypeOK`, `OneTerminalEvent`, `NoAbandonedCall`, `SocketBounded`, `ClientIsPromised`, `IInv`, `KeepsContract`, `RouteEnds` |
| `gateway` | 2 requests, 2 attempts, sidecar answers OK and RESOURCE_EXHAUSTED | `TypeOK`, `AnswerTellsTheTruth`, `GracefulExit`, `IInv`, `ListensAnyway`, `RequestsAnswered`, `ShutdownEnds`, `ReadinessRecovers` |
| `trace_test` | both services and a caller, budget 7, interval 2, lag 3, query 1, fetch gives up after 9 | `TypeOK`, `NoFalseAlarm`, `VerdictHonest`, `EndsInTime`, `IInv`, `RouteEnds` |
| `trace_test_flush` | the same | `DocumentedOutcome` is violated |

Why the bounds are enough. Four streams over two permits give an orphan, a
holder, a woken waiter and one asleep at once. Two steps at most, requested as 0,
1, 2 and 3, give the default, the clamp, a first delta, a last one and a stream
where they are the same. One thread makes jobs queue and lets a job start after
its handler has gone; two threads over one permit are what `stream_inflight`
needs. Two calls of which two requests share a key, one by way of the default
model, and one does not, make a call read what another stored. The steps of the
instances are `MCMaxSteps`; every other value is in the `.cfg` files.

One SSE stream is enough since streams of the gateway share nothing but the
channel, which `Gateway` has; three deltas and a socket of two frames give a full
socket with deltas still buffered in the call, and three attempts are those of
`grpc-client.ts:59`. Two requests in `gateway` let one be answered while the other
is retried, or streams, or has lost its caller when the signal comes; two attempts rather than three, since the
second and the third differ in nothing but the count. A status that is retried
and two that are not, one of them an error, are all the mapping and the policy
can tell apart. In `trace_test` a query that fails by itself outlasts the budget,
and a healthy pipeline leaves room for a query and a pause
(`BudgetAssumption`), as half a second of batching does in the 20 s of
`config.ts`. One service beside the two is enough for a trace that was joined: it
is neither of them, and the earlier requests of the trace may have left spans of
each.

Deadlock is checked in every run: `Quiet` lets `StreamPredictions` stop when
every RPC has ended and the pool is empty, and at no other time. In `Predict` a
restart is always possible, so that it is `CallsEnd` that shows progress.

`IInv` is, in each module that has theorems, the inductive invariant they are
drawn from (section 5): TLC checks it before the prover does, and finds the
counterexamples to its inductiveness on the instance.

Each property of a passing run is accompanied by a mutant, an operator defined
before the one it changes, under which TLC finds the property violated.

## 4. Fairness

- `PoolSpec` assumes only that threads run: a job at the head of the queue is
  taken when a thread is free, and a running producer goes on. The queue is
  unbounded and `publish` never blocks (`service.py:193-212`).
- `FairSpec` of `StreamPredictions` adds the event loop, a client that reads
  what it is sent unless it hangs up (keepalive and the gateway's stream
  deadline end the others), and the finalisation of orphans by asyncio's hook for
  async generators. Hanging up is never assumed, nor that a model succeeds.
- `FairSpec` of `Predict` assumes the loop, the pool and the finalisation of
  orphans, and nothing of Redis: `socket_timeout=2.0` (`cache.py:50`) ends each
  call to it. A stream that is inside need not end: a call that the limiter
  admitted never waits behind it.

- `FairSpec` of `SseBridge` assumes the event loop (`Route`), the timer of the
  deadline, and a client that reads or leaves; nothing of the sidecar, which may
  stay silent for ever, nor of the network.
- `FairSpec` of `Gateway` assumes the event loop and its timers (`Start`,
  `Expire`, `Call`, `Deadline`, `Shutdown`), and that an attempt to connect to a
  sidecar that stays reachable succeeds, as grpc-js keeps trying. The exports
  have a timeout of 10 s (`tracing.ts:38`, `50`), so that the flush ends. Neither
  an answer of the sidecar nor a signal is assumed, nor the batch timer. That a
  stream closes (`StreamCloses`) is what `RouteEnds` of `SseBridge` shows, under
  the fairness above: a client that neither reads nor leaves would keep
  `app.close()`, and the process, until it is killed.
- `FairSpec` of `TraceTest` assumes that time passes, the deadline of the call,
  the timeout of the flush, and the limit fetch has of its own; that Jaeger
  answers and indexes only where it is healthy.

Fairness is weak throughout: each action, once enabled, stays so until it or
another step of the same actor is taken.

## 5. What is proved

For every value of the constants that satisfies the named assumptions of the
modules (`GateAssumption`, `StreamAssumption`, `PredictAssumption`,
`BridgeAssumption`, `GatewayAssumption`, `TimeAssumption`), hence for any number
of RPCs, permits, threads, steps, attempts, keys and frames:

| Module | Theorem | Property | Further hypothesis |
| --- | --- | --- | --- |
| `StreamPredictions_proofs` | `PermitsConserved` | `PermitConservation` | |
| | `NoPermitStranded` | `NoStrandedPermit` | |
| | `BacklogIsBounded` | `BacklogBounded` | |
| | `AbandonedStops` | `NoStepAfterEnd` | |
| | `ImplementsContract` | `KeepsContract` | |
| | `CallerGetsWhatIsPromised` | `Contract!Promise` | |
| | `InflightBoundedByPool` | `InflightBound` | `MaxWorkers <= MaxConcurrentRpcs` |
| `DeltaStream_proofs` | `PromiseKept` | `Promise` | `MaxSteps` a number, `Value` integers |
| `Predict_proofs` | `PermitsConserved` | `PermitConservation` | |
| | `NoPermitStranded` | `NoStrandedPermit` | |
| | `AbandonedNeverStart` | `NoAbandonedStart` | |
| | `AnswersBelongToRequests` | `Answered` | |
| | `CacheIsTransparent` | `CacheTransparent` | at most one configuration |
| | `CallsFailOpen` | `FailOpen` | no entry makes `cache.get` raise |
| `SseBridge_proofs` | `OneEventEnds` | `OneTerminalEvent` | |
| | `CallsAreCancelled` | `NoAbandonedCall` | |
| | `SocketsAreBounded` | `SocketBounded` | |
| | `ImplementsContract` | `KeepsContract` | |
| | `ClientGetsWhatIsPromised` | `ClientIsPromised` | |
| `Gateway_proofs` | `AnswersAreTrue` | `AnswerTellsTheTruth` | |
| | `ExitIsGraceful` | `GracefulExit` | |
| `TraceTest_proofs` | `PollingEndsInTime` | `EndsInTime` | |
| | `VerdictIsHonest` | `VerdictHonest` | |
| | `NoAlarmIsFalse` | `NoFalseAlarm` | `Lag + QueryTime + Interval < Timeout` |
| | `HealthyOutcomeIsDocumented` | `healthy => DocumentedOutcome` | |

and, in each of the five modules of a component, `Invariance` (`IInv`) and
`TypeCorrect` (`TypeOK`).

The hypotheses of `PromiseKept` are typing, which `StreamAssumption` and
`BridgeAssumption` give to its two users; the others of the last column are needed.
Of the four findings each has a theorem that says under which condition the promise holds after all:
`InflightBoundedByPool`, `CacheIsTransparent`, `CallsFailOpen` and
`HealthyOutcomeIsDocumented`; without the condition TLC has the counterexample, in
`stream_inflight`, `predict_reconfigured`, `predict_undecodable` and
`trace_test_flush`. The hypothesis of `NoAlarmIsFalse` is `BudgetAssumption` of
`MCTraceTest`: a budget too small for the batch delay of a healthy pipeline is a
wrong configuration, not a fault of the route. What holds for any configurations is
`AnswersBelongToRequests`: an answer is one of its own request, under some
configuration the sidecar may run with.

### The arguments

Each component has an inductive invariant `IInv`, a conjunction of named parts;
each part has a lemma with one step per action or group of actions, and the
properties follow from it without looking at the actions again, except for the
action properties and `NoStrandedPermit`, which is inductive by itself.

*The gate.* What the operations of the semaphore and of the pool do to the books
(`SemaphoreServes`, `PoolServes`) is proved once in `InferenceGate_proofs`, over
sequences without repetition (`QueueLemmas`), and used by both kinds of RPC: the
asleep and the woken are exactly those parked, each once; the permits are shared
between the woken and those inside; each job is in the pool once.

*Streams.* `SemaphoreInv` and `PoolInv` tie the gate to the handlers' places: a
job whose handler is gone finds `cancelled` set. `HandlerInv`: status, deltas and
event agree with the place of the handler. `QueueInv`: what is in the queue
continues what was sent, and a `None` follows the last step unless the stream
was cancelled. `BacklogBounded` needs the numbering of `QueueInv`,
`NoStepAfterEnd` the event of `HandlerInv` and `PoolInv`, and the refinement
needs `QueueInv` to see that the handler that takes a `None` has sent every
delta. It maps `total` to `steps`: `Enter` is `Open`, `TakeDelta` is `Deliver`,
`TakeEnd` is `Complete`, a failure or a hang-up is `Break`, the rest stutters.

*Unary calls.* `SemaphoreInv` counts the streams inside beside the calls.
`PoolInv`: a queued job has a handler that waits for it, a running one may have
lost it; that is what `NoAbandonedStart` needs, since the job that starts is the
first of the queue. `HandlerAt`: a handler that sets or has answered holds a
result, and so does every SET on its way, also after a restart. `CacheInv`: a
result, held by a handler or by Redis, is one the model computes for the request
or for every request with that key; `SameFingerprint` is why the two agree. The
invariant does not speak of the order in which SETs, expiries and foreign writes
happen, which is why none of it matters.

*SSE.* `SidecarAt`: within an attempt the sidecar has kept its promise. `CallAt`:
the call hands out a prefix of what was sent, and OK only once all of it has
arrived; no call is open whose route or client is gone. `RouteAt`: the messages
are the first `delivered` deltas, the terminal event has their number, and `end`
was only written with the status OK and nothing left in the buffer. `SocketAt`:
whoever may write has room for a frame, and the terminal event is written from
such a place. The refinement maps the stream to the client: it opens when the
call is committed, `Forward` delivers, `EndOfStream` completes, a failure or a
disconnect breaks it, retries and everything else the client cannot see stutter.

*What the contract means.* The refinements say that two programs behave like
`DeltaStream`; `PromiseKept` says what that gives to a caller, and
`CallerGetsWhatIsPromised` and `ClientGetsWhatIsPromised` instantiate it under
the two refinement mappings. `SseBridge` uses nothing of the sidecar but the
contract `StreamPredictions` keeps, so that the chain from the thread that
computes a step to the browser rests on the contract alone.

*Gateway.* `RequestAt` relates the place of a request, its attempts and its
spans. `ProcessInv` says that once `shutdown` is past `app.close()` only calls of
callers who left are open, that the spans of the others are out of the queue the
flush has taken, and that spans are lost only on the way to an exit that reports
it. `AnswerTellsTheTruth` is made part of the invariant, since it is inductive
only with both.

*Trace test.* `TimeInv`: a query is sent within the budget and a pause follows
it, which is why the overrun is one query and one pause. `SeenInv`: what was seen
last was recorded and, unless the request joined a trace, contains only spans this
request exported. `LagInv`: in a healthy pipeline a query that misses a service
was sent before the lag was over, so that another one follows within the budget;
the spans of other requests can only make the poll end earlier, with
`cross_service` set.

### Only model-checked

The liveness properties (`WorkersFreed`, `HandlersEnd`, `CallsEnd`, `RouteEnds`,
`ListensAnyway`, `RequestsAnswered`, `ShutdownEnds`, `ReadinessRecovers`), which
need fairness and `ENABLED` and are beyond the prover. Every safety and action
property of a passing run is a theorem. What the running sum of a stream
adds up to, as a function of its length, would take an induction over data;
`Promise` states the recurrence instead, from one delta to the next.

## 6. Findings

- `stream_inflight`: the semaphore does not bound the CPU work in flight, as the
  comment at `service.py:45-46` has it. The permit of a cancelled stream is free
  while its producer finishes the step it is in; with more threads than permits
  another producer runs beside it. With at most as many threads as permits the
  pool is the bound.
- `predict_reconfigured`: the key of the cache leaves out `MODEL_MATRIX_DIM` and
  `MODEL_OUTPUT_DIM`, on which the result depends: a restart with other values
  within the time to live answers from the former ones, against `README.md:329-330`.
- `predict_undecodable`: an entry that is not UTF-8, or whose integers are
  infinite, makes `cache.get` raise an exception neither of its handlers
  names, and the call fails, against `cache.py:88`.
- `trace_test_flush`: `flushTraces()` stands outside of any `try`
  (`trace-test.ts:81`). With the collector away it rejects and the route answers
  500 by way of the error handler, not the 503 with the URLs in use that
  `trace-test.ts:14-15` and `README.md:179-181` announce for traces that do not
  reach Jaeger.

What the models show beside that:

- `cross_service` proves less than `trace-test.ts:112-113` says ("it proves the
  traceparent survived the gRPC hop"): any second service in the trace sets it,
  also the caller whose `traceparent` the request came with, or the sidecar's
  spans of an earlier request. That is why `VerdictHonest` states the proof for a
  trace that began with the request only; without `~joined` TLC violates it.
- `app.close()` waits for connections, not for calls (`server.ts:47-51`): after a
  caller has hung up on `POST /predict` the process may close the channel under
  the call, and exit with 0 while it is open and its spans are not ended or not
  exported. Nobody waits for the answer; the spans are missing from Jaeger.
  `GracefulExit` and `RequestsAnswered` name these requests as their exception.
- `/trace-test` answers 200 with `cross_service` false when only one service's
  spans have come by the end of the budget, and the budget does not bound it: a
  query that hangs is ended by fetch only, after minutes (`EndsInTime`).

## 7. Not modelled

The arithmetic of the model and the burning of CPU; the text of logs and the
attributes of spans; health reporting, reflection and the graceful shutdown of
the sidecar (its abrupt end, which leaves more undone, is `Restart` in
`Predict`); the configuration of the OpenTelemetry libraries and the sidecar's
exports; `/healthz`, `/` and the 404 of the gateway, which keep no state, and the
probe of Jaeger in `/readyz`, which gates nothing; a response without error and
without message at `grpc-client.ts:100`, which grpc-js does not produce; code
generation, images and deployment. Newer versions of asyncio wake several waiters in one turn
rather than one after the other, which changes when a waiter runs and not who
owns a permit.

## 8. Plan

1. Done: the gate and the streaming RPC, where threads, the event loop and
   cancellation meet, with their theorems; then the unary RPC and the cache.
2. Done: the gateway: `SseBridge` over the abstract stream, `Gateway` for the
   unary route and the life of the process, `TraceTest`.
3. Done: the safety and action properties of all five components, the two
   refinements and what they give to callers, as theorems.
4. The graceful shutdown of the sidecar (drain, close of the cache, shutdown of
   the pool) beside the restart, with its run, and the same theorems over it.
