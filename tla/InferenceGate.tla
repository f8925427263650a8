---------------------------- MODULE InferenceGate ----------------------------
(* What every handler of the sidecar's PredictionService passes through: the
   RPC limiter of the gRPC server, the semaphore `_inflight` of the servicer
   and the thread pool the model runs on (sidecar/app/server.py,
   sidecar/app/service.py).  The module has the state and the operations; the
   handlers that use them are in StreamPredictions and Predict.

   The semaphore and the pool are CPython's.  asyncio.Semaphore serves its
   waiters in order: whoever frees a permit passes it on to the first waiter
   still asleep, and that waiter owns the permit from then on, although its
   task resumes in a later turn of the event loop.                          *)
EXTENDS Integers, Sequences, SequencesExt, FiniteSets

CONSTANTS MaxConcurrentRpcs,   \* GRPC_MAX_CONCURRENT_RPCS
          MaxWorkers           \* GRPC_MAX_WORKERS

ASSUME GateAssumption == /\ MaxConcurrentRpcs \in Nat \ {0}
                         /\ MaxWorkers \in Nat \ {0}

VARIABLES live,      \* RPCs the limiter of the server counts
          permits,   \* free permits of the semaphore
          waiters,   \* RPCs asleep in `async with self._inflight`, in order
          woken,     \* RPCs that own a permit and have not resumed yet
          pending,   \* jobs in the queue of the pool, oldest first
          running    \* jobs a thread of the pool is running

gateVars == <<live, permits, waiters, woken, pending, running>>
semaphore == <<permits, waiters, woken>>
pool == <<pending, running>>

GateInit == /\ live = {}
            /\ permits = MaxConcurrentRpcs
            /\ waiters = <<>>
            /\ woken = {}
            /\ pending = <<>>
            /\ running = {}

------------------------------------------------------------------------------
(* The limiter: an RPC that arrives while it is full never reaches a handler. *)

HasRoom == Cardinality(live) < MaxConcurrentRpcs

------------------------------------------------------------------------------
(* The semaphore. *)

Locked == permits = 0 \/ waiters # <<>> \/ woken # {}

Acquire == /\ ~Locked
           /\ permits' = permits - 1
           /\ UNCHANGED <<waiters, woken>>

Park(r) == /\ Locked
           /\ waiters' = Append(waiters, r)
           /\ UNCHANGED <<permits, woken>>

\* With `free` permits at hand and the RPCs of `awake` owning one, wake the
\* first waiter, if there is one.
WakeNext(free, awake) ==
  \/ /\ waiters = <<>>
     /\ permits' = free
     /\ woken' = awake
     /\ UNCHANGED waiters
  \/ /\ waiters # <<>>
     /\ permits' = free - 1
     /\ woken' = awake \cup {Head(waiters)}
     /\ waiters' = Tail(waiters)

\* Mutant of Release: the counter is raised and nobody is woken.
ReleaseSilently == permits' = permits + 1 /\ UNCHANGED <<waiters, woken>>

Release == WakeNext(permits + 1, woken)

\* A woken waiter resumes; arrivals may have parked behind it although
\* permits were free, so it wakes the next one.
Resumed(r) == /\ r \in woken
              /\ IF permits > 0
                 THEN WakeNext(permits, woken \ {r})
                 ELSE woken' = woken \ {r} /\ UNCHANGED <<permits, waiters>>

\* Cancellation of a waiter: asleep, it leaves the queue; woken, it gives back
\* the permit it owns.
LeaveAsleep(r) == /\ \E i \in DOMAIN waiters :
                        waiters[i] = r /\ waiters' = RemoveAt(waiters, i)
                  /\ UNCHANGED <<permits, woken>>

\* Mutant of LeaveWoken: a cancelled waiter forgets the permit it owns.
LeaveWokenLosing(r) == /\ r \in woken
                       /\ woken' = woken \ {r}
                       /\ UNCHANGED <<permits, waiters>>

LeaveWoken(r) == /\ r \in woken
                 /\ WakeNext(permits + 1, woken \ {r})

------------------------------------------------------------------------------
(* The thread pool: a queue without bound, MaxWorkers threads. *)

Submit(r) == /\ pending' = Append(pending, r)
             /\ UNCHANGED running

StartJob(r) == /\ pending # <<>>
               /\ r = Head(pending)
               /\ Cardinality(running) < MaxWorkers
               /\ pending' = Tail(pending)
               /\ running' = running \cup {r}

EndJob(r) == /\ r \in running
             /\ running' = running \ {r}
             /\ UNCHANGED pending

\* Mutant of CancelJob: the future is shielded and its job stays queued.
CancelJobShielded(r) == r = r /\ UNCHANGED pool

\* Cancelling a future: a job that is still queued is never run, one that is
\* running or over is left alone.
CancelJob(r) == \/ /\ \E i \in DOMAIN pending :
                        pending[i] = r /\ pending' = RemoveAt(pending, i)
                   /\ UNCHANGED running
                \/ r \notin ToSet(pending) /\ UNCHANGED pool

------------------------------------------------------------------------------
(* A process that starts again has forgotten everything. *)

GateReset == /\ live' = {}
             /\ permits' = MaxConcurrentRpcs
             /\ waiters' = <<>>
             /\ woken' = {}
             /\ pending' = <<>>
             /\ running' = {}

------------------------------------------------------------------------------
(* Properties of the gate, of which the handlers' invariants are made. *)

\* The RPCs of `parked` and of no other are asleep or woken, in S; the permits
\* are shared between those of `inside`, which have passed, and the woken ones.
SemaphoreServes(S, parked, inside) ==
  /\ waiters \in Seq(S) /\ woken \subseteq S /\ permits \in 0..MaxConcurrentRpcs
  /\ IsInjective(waiters)
  /\ woken \cap ToSet(waiters) = {}
  /\ woken \cup ToSet(waiters) = parked
  /\ IsFiniteSet(woken \cup inside)
  /\ permits + Cardinality(woken \cup inside) = MaxConcurrentRpcs

\* The jobs of `jobs` and of no other are in the pool, each of them once.
PoolServes(S, jobs) ==
  /\ pending \in Seq(S) /\ running \subseteq S
  /\ IsInjective(pending)
  /\ running \cap ToSet(pending) = {}
  /\ running \cup ToSet(pending) = jobs
  /\ IsFiniteSet(running) /\ Cardinality(running) <= MaxWorkers

\* No RPC sleeps beside a free permit unless a woken one is about to pass it
\* on (service.py, `async with self._inflight`).
NoStrandedPermit == permits > 0 /\ waiters # <<>> => woken # {}

==============================================================================
