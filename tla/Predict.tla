------------------------------- MODULE Predict -------------------------------
(* The unary RPC of the sidecar (sidecar/app/service.py,
   PredictionService.Predict), the cache it consults (sidecar/app/cache.py) and
   the Redis behind it.  Redis is a separate process: entries expire and are
   evicted, other programs write to it, its answers get lost, and a SET that
   the handler no longer waits for may still be executed.  The sidecar can be
   restarted, with another configuration, while Redis keeps its entries.

   A cache that is disabled, or was never connected, behaves like a Redis whose
   every call fails: a miss, and a SET that is lost.

   The limiter and the semaphore have the same size, so that calls alone would
   never wait for the semaphore.  The streaming RPCs share both, and a stream
   that was cancelled at a `yield` keeps its permit after the limiter has
   forgotten it (StreamPredictions, Finalize): they are here as far as they
   take room at the gate.                                                    *)
EXTENDS InferenceGate

CONSTANTS Calls,          \* the RPCs
          Streams,        \* RPCs of the other method
          Requests,       \* what is asked: records of a model and an input
          Unset,          \* the model of a request that names none
          DefaultModel,   \* DEFAULT_MODEL
          Configs,        \* values of MODEL_MATRIX_DIM and MODEL_OUTPUT_DIM
          Malformed,      \* foreign entries that do not parse as a result
          Undecodable,    \* foreign entries on which cache.get raises
          NoValue,        \* no result, no entry
          Failed          \* the exception a job ends with

VARIABLES pc,         \* where the handler of an RPC is
          outcome,    \* status of the RPC; "none" until it has one
          request,    \* what the RPC asks
          result,     \* the result of its job, or the one it found in the cache
          config,     \* the configuration the sidecar runs with
          redis,      \* entry under each key
          writes,     \* RPCs whose SET is on its way to Redis
          stream      \* where the handler of a streaming RPC is

handlerVars == <<pc, outcome, result>>
sidecar == <<request, config, stream>>
vars == <<gateVars, handlerVars, sidecar, redis, writes>>

------------------------------------------------------------------------------
(* The model and its fingerprint. *)

Model(q) == IF q.model = Unset THEN DefaultModel ELSE q.model

\* Mutant of Fingerprint: the input is left out of the hash.
FingerprintOfModel(q) == <<Model(q)>>

\* SHA-256 of the model and the input: key of the cache and seed of the model.
Fingerprint(q) == <<Model(q), q.input>>

Keys == {Fingerprint(q) : q \in Requests}

Infer(conf, q) == [config |-> conf, seed |-> Fingerprint(q), input |-> q.input]

Values == {Infer(conf, q) : conf \in Configs, q \in Requests}

Foreign == Malformed \cup Undecodable

ASSUME PredictAssumption == /\ NoValue \notin Values /\ Failed \notin Values
                            /\ NoValue # Failed
                            /\ Foreign \cap (Values \cup {NoValue, Failed}) = {}
                            /\ Malformed \cap Undecodable = {}
                            /\ Calls \cap Streams = {}

Init == /\ GateInit
        /\ pc = [c \in Calls |-> "idle"]
        /\ outcome = [c \in Calls |-> "none"]
        /\ request \in [Calls -> Requests]
        /\ result = [c \in Calls |-> NoValue]
        /\ config \in Configs
        /\ redis = [k \in Keys |-> NoValue]
        /\ writes = {}
        /\ stream = [s \in Streams |-> "idle"]

Key(c) == Fingerprint(request[c])

------------------------------------------------------------------------------
(* Arrival. *)

GoTo(c, place) == pc' = [pc EXCEPT ![c] = place]

\* The RPC ends with a status and the limiter stops counting it.
End(c, code) == /\ GoTo(c, "done")
                /\ outcome' = [outcome EXCEPT ![c] = code]
                /\ live' = live \ {c}

Refuse(c) == /\ pc[c] = "idle" /\ ~HasRoom
             /\ End(c, "RESOURCE_EXHAUSTED")
             /\ UNCHANGED <<semaphore, pool, sidecar, result, redis, writes>>

Reject(c) == /\ pc[c] = "idle" /\ HasRoom
             /\ End(c, "INVALID_ARGUMENT")
             /\ UNCHANGED <<semaphore, pool, sidecar, result, redis, writes>>

Enter(c) == /\ pc[c] = "idle" /\ HasRoom
            /\ live' = live \cup {c}
            /\ \/ Acquire /\ GoTo(c, "get")
               \/ Park(c) /\ GoTo(c, "wait")
            /\ UNCHANGED <<pool, outcome, sidecar, result, redis, writes>>

Proceed(c) == /\ pc[c] = "wait"
              /\ Resumed(c) /\ GoTo(c, "get")
              /\ UNCHANGED <<live, pool, outcome, sidecar, result, redis, writes>>

------------------------------------------------------------------------------
(* The lookup. *)

\* Mutant of Hit: the early return does not give the permit back.
HitKeepingPermit(c) ==
  /\ pc[c] = "get" /\ redis[Key(c)] \in Values
  /\ result' = [result EXCEPT ![c] = redis[Key(c)]]
  /\ End(c, "OK")
  /\ UNCHANGED <<semaphore, pool, sidecar, redis, writes>>

Hit(c) == /\ pc[c] = "get" /\ redis[Key(c)] \in Values
          /\ result' = [result EXCEPT ![c] = redis[Key(c)]]
          /\ End(c, "OK") /\ Release
          /\ UNCHANGED <<pool, sidecar, redis, writes>>

\* A miss: the inference goes to the pool.
Compute(c) == /\ Submit(c) /\ GoTo(c, "infer")
              /\ UNCHANGED <<live, semaphore, outcome, sidecar, result, redis, writes>>

Miss(c) == pc[c] = "get" /\ redis[Key(c)] = NoValue /\ Compute(c)

\* Redis is unreachable, or does not answer in time.
GetFails(c) == pc[c] = "get" /\ Compute(c)

\* The handler raises: gRPC reports UNKNOWN.
Raises(c) == /\ End(c, "UNKNOWN") /\ Release
             /\ UNCHANGED <<pool, sidecar, result, redis, writes>>

\* Mutant of Discard: no `except` around the parsing.
DiscardRaising(c) == pc[c] = "get" /\ redis[Key(c)] \in Malformed /\ Raises(c)

Discard(c) == pc[c] = "get" /\ redis[Key(c)] \in Malformed /\ Compute(c)

\* Neither `except` of cache.get catches what a value that is not UTF-8
\* (UnicodeDecodeError in the client) or an infinite number (OverflowError in
\* int) raises.
GetRaises(c) == pc[c] = "get" /\ redis[Key(c)] \in Undecodable /\ Raises(c)

------------------------------------------------------------------------------
(* The inference, on a thread of the pool, and the rest of the handler. *)

StartInference(c) == /\ StartJob(c)
                     /\ UNCHANGED <<live, semaphore, handlerVars, sidecar, redis, writes>>

\* The result of a job nobody waits for any more is dropped.
Settle(c, value) ==
  /\ EndJob(c)
  /\ result' = IF pc[c] = "infer" THEN [result EXCEPT ![c] = value] ELSE result
  /\ UNCHANGED <<live, semaphore, pc, outcome, sidecar, redis, writes>>

FinishInference(c) == Settle(c, Infer(config, request[c]))

FailInference(c) == Settle(c, Failed)

\* Mutant of Collect: whatever the future holds is cached.
CollectUnchecked(c) == /\ pc[c] = "infer" /\ result[c] # NoValue
                       /\ GoTo(c, "set")
                       /\ writes' = writes \cup {c}
                       /\ UNCHANGED <<gateVars, outcome, sidecar, result, redis>>

\* The future has a result: the SET leaves.
Collect(c) == /\ pc[c] = "infer" /\ result[c] \in Values
              /\ GoTo(c, "set")
              /\ writes' = writes \cup {c}
              /\ UNCHANGED <<gateVars, outcome, sidecar, result, redis>>

CollectFailure(c) == pc[c] = "infer" /\ result[c] = Failed /\ Raises(c)

\* Mutant of Answer: no timeout on the socket.
AnswerWhenWritten(c) ==
  /\ pc[c] = "set" /\ c \notin writes
  /\ End(c, "OK") /\ Release
  /\ UNCHANGED <<pool, sidecar, result, redis, writes>>

\* Redis has answered the SET, or failed, or not answered in time.
Answer(c) == /\ pc[c] = "set"
             /\ End(c, "OK") /\ Release
             /\ UNCHANGED <<pool, sidecar, result, redis, writes>>

------------------------------------------------------------------------------
(* The client hangs up, or its deadline passes. *)

HangUpAsleep(c) == /\ pc[c] = "wait" /\ LeaveAsleep(c)
                   /\ End(c, "CANCELLED")
                   /\ UNCHANGED <<pool, sidecar, result, redis, writes>>

HangUpWoken(c) == /\ pc[c] = "wait" /\ LeaveWoken(c)
                  /\ End(c, "CANCELLED")
                  /\ UNCHANGED <<pool, sidecar, result, redis, writes>>

\* While it waits for Redis: a SET that has left is not taken back.
HangUpAtRedis(c) == /\ pc[c] \in {"get", "set"}
                    /\ End(c, "CANCELLED") /\ Release
                    /\ UNCHANGED <<pool, sidecar, result, redis, writes>>

HangUpAtInfer(c) == /\ pc[c] = "infer" /\ CancelJob(c)
                    /\ End(c, "CANCELLED") /\ Release
                    /\ UNCHANGED <<sidecar, result, redis, writes>>

HangUp(c) == HangUpAsleep(c) \/ HangUpWoken(c) \/ HangUpAtRedis(c) \/ HangUpAtInfer(c)

------------------------------------------------------------------------------
(* The streaming RPCs at the gate. *)

MoveStream(s, from, to) == /\ stream[s] = from
                           /\ stream' = [stream EXCEPT ![s] = to]
                           /\ UNCHANGED <<pool, handlerVars, request, config, redis, writes>>

StreamEnters(s) == /\ HasRoom /\ Acquire /\ live' = live \cup {s}
                   /\ MoveStream(s, "idle", "inside")

StreamAbandoned(s) == /\ live' = live \ {s} /\ UNCHANGED semaphore
                      /\ MoveStream(s, "inside", "orphan")

StreamEnds(s) == /\ Release /\ live' = live \ {s}
                 /\ MoveStream(s, "inside", "done")

StreamFinalized(s) == /\ Release /\ UNCHANGED live
                      /\ MoveStream(s, "orphan", "done")

------------------------------------------------------------------------------
(* Redis, and the restart of the sidecar. *)

Store(k, entry) == redis' = [redis EXCEPT ![k] = entry]

\* A SET is executed, in time or after the handler has stopped waiting.
ExecuteSet(c) == /\ c \in writes
                 /\ Store(Key(c), result[c])
                 /\ writes' = writes \ {c}
                 /\ UNCHANGED <<gateVars, handlerVars, sidecar>>

LoseSet(c) == /\ c \in writes
              /\ writes' = writes \ {c}
              /\ UNCHANGED <<gateVars, handlerVars, sidecar, redis>>

\* The entry expires, is evicted, or Redis itself restarts.
Drop(k) == /\ redis[k] # NoValue /\ Store(k, NoValue)
           /\ UNCHANGED <<gateVars, handlerVars, sidecar, writes>>

\* Another program writes to the key.
Overwrite(k) == /\ \E entry \in Foreign : Store(k, entry)
                /\ UNCHANGED <<gateVars, handlerVars, sidecar, writes>>

InProgress == {c \in Calls : pc[c] \in {"wait", "get", "infer", "set"}}

\* The sidecar is restarted: the calls in progress fail, what it had sent to
\* Redis is still on its way.
Restart == /\ GateReset
           /\ pc' = [c \in Calls |-> IF c \in InProgress THEN "done" ELSE pc[c]]
           /\ outcome' = [c \in Calls |-> IF c \in InProgress THEN "UNAVAILABLE"
                                                            ELSE outcome[c]]
           /\ config' \in Configs
           /\ stream' = [s \in Streams |-> IF stream[s] = "idle" THEN "idle" ELSE "done"]
           /\ UNCHANGED <<request, result, redis, writes>>

------------------------------------------------------------------------------
Handler(c) == \/ Proceed(c) \/ Hit(c) \/ Miss(c) \/ GetFails(c) \/ Discard(c)
              \/ GetRaises(c) \/ Collect(c) \/ CollectFailure(c) \/ Answer(c)

Next == \/ \E c \in Calls : \/ Refuse(c) \/ Reject(c) \/ Enter(c)
                            \/ Handler(c) \/ HangUp(c)
                            \/ StartInference(c) \/ FinishInference(c)
                            \/ FailInference(c)
                            \/ ExecuteSet(c) \/ LoseSet(c)
        \/ \E s \in Streams : \/ StreamEnters(s) \/ StreamAbandoned(s)
                             \/ StreamEnds(s) \/ StreamFinalized(s)
        \/ \E k \in Keys : Drop(k) \/ Overwrite(k)
        \/ Restart

Spec == Init /\ [][Next]_vars

\* The event loop and the threads of the pool run.  Nothing is assumed of
\* Redis: the timeout of its socket ends every call to it.  Orphaned streams are
\* finalised.
FairSpec == /\ Spec
            /\ \A c \in Calls : /\ WF_vars(Handler(c))
                                /\ WF_vars(StartInference(c))
                                /\ WF_vars(FinishInference(c))
            /\ \A s \in Streams : WF_vars(StreamFinalized(s))

------------------------------------------------------------------------------
(* Properties. *)

Codes == {"none", "OK", "INVALID_ARGUMENT", "RESOURCE_EXHAUSTED", "CANCELLED",
          "UNKNOWN", "UNAVAILABLE"}

TypeOK ==
  /\ live \subseteq Calls \cup Streams
  /\ permits \in 0..MaxConcurrentRpcs
  /\ waiters \in Seq(Calls)
  /\ woken \subseteq Calls
  /\ pending \in Seq(Calls)
  /\ running \subseteq Calls
  /\ pc \in [Calls -> {"idle", "wait", "get", "infer", "set", "done"}]
  /\ outcome \in [Calls -> Codes]
  /\ request \in [Calls -> Requests]
  /\ result \in [Calls -> Values \cup {NoValue, Failed}]
  /\ config \in Configs
  /\ redis \in [Keys -> Values \cup Foreign \cup {NoValue}]
  /\ writes \subseteq Calls
  /\ stream \in [Streams -> {"idle", "inside", "orphan", "done"}]

\* RPCs inside `async with self._inflight`, and those about to be.
InBlock == {c \in Calls : pc[c] \in {"get", "infer", "set"}}
           \cup {s \in Streams : stream[s] \in {"inside", "orphan"}}
Holders == woken \cup InBlock

\* Whatever way a handler leaves, by an early return, an exception or a
\* cancellation at any await, its permit is neither lost nor given back twice.
PermitConservation == permits + Cardinality(Holders) = MaxConcurrentRpcs

\* "A cached answer is always identical to a freshly computed one" (README.md,
\* Caching): whatever expires, is overwritten or is executed late.
CacheTransparent ==
  [][\A c \in Calls : outcome'[c] = "OK" /\ outcome[c] # "OK"
                      => result'[c] = Infer(config, request[c])]_vars

\* The cache is fail-open (cache.py): an RPC that got past the limiter and the
\* validation fails on its own account only if the model raised.
FailOpen == \A c \in Calls : outcome[c] = "UNKNOWN" => result[c] = Failed

\* An inference that was still queued when its caller left never takes a
\* thread (service.py, `_in_thread`).
NoAbandonedStart ==
  [][\A c \in Calls : c \in running' \ running => pc[c] = "infer"]_vars

\* The inductive invariant behind the theorems.  The waiters, the woken and the
\* permits agree with where the handlers are.
SemaphoreInv == SemaphoreServes(Calls, {c \in Calls : pc[c] = "wait"}, InBlock)

\* A queued job has a handler that waits for it; one that runs may have lost it.
PoolAt(c) ==
  /\ c \in ToSet(pending) => pc[c] = "infer" /\ result[c] = NoValue
  /\ c \in running => \/ pc[c] = "done"
                      \/ pc[c] = "infer" /\ result[c] = NoValue

PoolInv == /\ PoolServes(Calls, running \cup ToSet(pending))
           /\ \A c \in Calls : PoolAt(c)

\* What a handler has, and what it has sent, depends on how far it came.
HandlerAt(c) ==
  /\ outcome[c] # "none" <=> pc[c] = "done"
  /\ pc[c] \in {"idle", "wait", "get"} => result[c] = NoValue
  /\ pc[c] = "set" \/ outcome[c] = "OK" => result[c] \in Values
  /\ c \in writes => pc[c] \in {"set", "done"} /\ result[c] \in Values
  /\ outcome[c] = "UNKNOWN" => result[c] = Failed \/ Undecodable # {}

\* A result, wherever it is kept, is one of the request it is kept for.
FreshAt(c) ==
  result[c] \in Values => \E conf \in Configs : result[c] = Infer(conf, request[c])

CacheInv ==
  /\ \A c \in Calls : FreshAt(c)
  /\ \A q \in Requests : LET entry == redis[Fingerprint(q)]
                        IN  entry \in Values => \E conf \in Configs : entry = Infer(conf, q)

IInv == /\ TypeOK /\ SemaphoreInv /\ PoolInv /\ CacheInv
        /\ \A c \in Calls : HandlerAt(c)

\* Every RPC gets an answer, however Redis behaves.
CallsEnd == \A c \in Calls : pc[c] # "idle" ~> pc[c] = "done"

==============================================================================
