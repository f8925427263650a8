------------------------ MODULE InferenceGate_proofs ------------------------
(* Each operation of the semaphore and of the pool keeps the books, for any
   number of permits, workers and RPCs: the lemmas the proofs about the
   handlers rest on.                                                         *)
EXTENDS InferenceGate, QueueLemmas, FiniteSetTheorems, TLAPS

\* Waking the next waiter moves it from the queue to the woken ones and
\* takes one permit for it.
LEMMA WakeNextServes ==
  ASSUME NEW S, NEW P, NEW B, NEW awake \in SUBSET S, NEW free \in Nat \ {0},
         waiters \in Seq(S), IsInjective(waiters),
         awake \cap ToSet(waiters) = {}, awake \cup ToSet(waiters) = P,
         B \cap ToSet(waiters) = {}, IsFiniteSet(awake \cup B),
         free + Cardinality(awake \cup B) = MaxConcurrentRpcs,
         WakeNext(free, awake)
  PROVE  SemaphoreServes(S, P, B)'
<1>1. MaxConcurrentRpcs \in Nat \ {0} /\ Cardinality(awake \cup B) \in Nat
  BY GateAssumption, FS_CardinalityType
<1>2. CASE waiters = <<>>
  BY <1>1, <1>2 DEF WakeNext, SemaphoreServes
<1>3. CASE waiters # <<>>
  <2> DEFINE h == Head(waiters)
  <2>1. /\ permits' = free - 1
        /\ woken' = awake \cup {h}
        /\ waiters' = Tail(waiters)
    BY <1>3 DEF WakeNext
  <2>2. /\ h \in S /\ h \in ToSet(waiters)
        /\ waiters' \in Seq(S) /\ IsInjective(waiters')
        /\ ToSet(waiters') = ToSet(waiters) \ {h}
    BY <1>3, <2>1, TailElement
  <2> HIDE DEF h
  <2>3. woken' \cup B = (awake \cup B) \cup {h} /\ h \notin awake \cup B
    BY <2>1, <2>2
  <2>4. /\ IsFiniteSet(woken' \cup B)
        /\ Cardinality(woken' \cup B) = Cardinality(awake \cup B) + 1
    BY <2>3, FS_AddElement
  <2>5. /\ woken' \subseteq S
        /\ woken' \cap ToSet(waiters') = {}
        /\ woken' \cup ToSet(waiters') = P
    BY <2>1, <2>2
  <2>6. /\ permits' \in 0..MaxConcurrentRpcs
        /\ permits' + Cardinality(woken' \cup B) = MaxConcurrentRpcs
    BY <1>1, <2>1, <2>4
  <2>7. QED
    BY <2>2, <2>4, <2>5, <2>6 DEF SemaphoreServes
<1>4. QED
  BY <1>2, <1>3

\* An RPC that finds the semaphore unlocked goes inside with a permit.
LEMMA AcquireServes ==
  ASSUME NEW S, NEW P, NEW B, NEW r, r \notin P, r \notin B,
         SemaphoreServes(S, P, B), Acquire
  PROVE  SemaphoreServes(S, P, B \cup {r})'
<1>1. /\ permits' = permits - 1 /\ permits # 0
      /\ waiters' = waiters /\ woken' = woken
  BY DEF Acquire, Locked
<1>2. woken' \cup (B \cup {r}) = (woken \cup B) \cup {r} /\ r \notin woken \cup B
  BY <1>1 DEF SemaphoreServes
<1>3. /\ IsFiniteSet(woken' \cup (B \cup {r}))
      /\ Cardinality(woken' \cup (B \cup {r})) = Cardinality(woken \cup B) + 1
  BY <1>2, FS_AddElement DEF SemaphoreServes
<1>4. Cardinality(woken \cup B) \in Nat /\ MaxConcurrentRpcs \in Nat
  BY FS_CardinalityType, GateAssumption DEF SemaphoreServes
<1>5. /\ permits' \in 0..MaxConcurrentRpcs
      /\ permits' + Cardinality(woken' \cup (B \cup {r})) = MaxConcurrentRpcs
  BY <1>1, <1>3, <1>4 DEF SemaphoreServes
<1>6. QED
  BY <1>1, <1>3, <1>5 DEF SemaphoreServes

\* An RPC that finds it locked joins the waiters.
LEMMA ParkServes ==
  ASSUME NEW S, NEW P, NEW B, NEW r \in S, r \notin P,
         SemaphoreServes(S, P, B), Park(r)
  PROVE  SemaphoreServes(S, P \cup {r}, B)'
<1>1. /\ waiters' = Append(waiters, r)
      /\ permits' = permits /\ woken' = woken
  BY DEF Park
<1>2. r \notin ToSet(waiters) /\ r \notin woken
  BY DEF SemaphoreServes
<1>3. /\ waiters' \in Seq(S) /\ IsInjective(waiters')
      /\ ToSet(waiters') = ToSet(waiters) \cup {r}
  BY <1>1, <1>2, AppendElement DEF SemaphoreServes
<1>4. QED
  BY <1>1, <1>2, <1>3 DEF SemaphoreServes

\* A woken RPC that resumes takes its permit inside.
LEMMA ResumedServes ==
  ASSUME NEW S, NEW P, NEW B, NEW r, P \cap B = {},
         SemaphoreServes(S, P, B), Resumed(r)
  PROVE  SemaphoreServes(S, P \ {r}, B \cup {r})'
<1>1. r \in woken /\ r \in P /\ r \notin ToSet(waiters) /\ r \in S
  BY DEF SemaphoreServes, Resumed
<1>2. /\ (woken \ {r}) \cup (B \cup {r}) = woken \cup B
      /\ (woken \ {r}) \cup ToSet(waiters) = P \ {r}
      /\ (woken \ {r}) \cap ToSet(waiters) = {}
      /\ (B \cup {r}) \cap ToSet(waiters) = {}
  BY <1>1 DEF SemaphoreServes
<1>3. CASE permits > 0
  <2>1. WakeNext(permits, woken \ {r}) /\ permits \in Nat \ {0}
    BY <1>3, GateAssumption DEF Resumed, SemaphoreServes
  <2>2. /\ IsFiniteSet((woken \ {r}) \cup (B \cup {r}))
        /\ permits + Cardinality((woken \ {r}) \cup (B \cup {r})) = MaxConcurrentRpcs
    BY <1>2 DEF SemaphoreServes
  <2>3. /\ woken \ {r} \in SUBSET S
        /\ waiters \in Seq(S) /\ IsInjective(waiters)
    BY DEF SemaphoreServes
  <2>4. QED
    BY <1>2, <2>1, <2>2, <2>3, WakeNextServes
<1>4. CASE ~(permits > 0)
  <2>1. woken' = woken \ {r} /\ permits' = permits /\ waiters' = waiters
    BY <1>4 DEF Resumed
  <2>2. QED
    BY <1>1, <1>2, <2>1 DEF SemaphoreServes
<1>5. QED
  BY <1>3, <1>4

\* An RPC that comes out passes its permit on or puts it back.
LEMMA ReleaseServes ==
  ASSUME NEW S, NEW P, NEW B, NEW r \in B, P \cap B = {},
         SemaphoreServes(S, P, B), Release
  PROVE  SemaphoreServes(S, P, B \ {r})'
<1>1. WakeNext(permits + 1, woken)
  BY DEF Release
<1>2. /\ woken \cup (B \ {r}) = (woken \cup B) \ {r} /\ r \in woken \cup B
      /\ (B \ {r}) \cap ToSet(waiters) = {}
      /\ woken \cap ToSet(waiters) = {}
      /\ woken \cup ToSet(waiters) = P
  BY DEF SemaphoreServes
<1>3. /\ IsFiniteSet(woken \cup (B \ {r}))
      /\ Cardinality(woken \cup (B \ {r})) = Cardinality(woken \cup B) - 1
  BY <1>2, FS_RemoveElement DEF SemaphoreServes
<1>4. permits + 1 \in Nat \ {0} /\ Cardinality(woken \cup B) \in Nat
  BY FS_CardinalityType, GateAssumption DEF SemaphoreServes
<1>5. (permits + 1) + Cardinality(woken \cup (B \ {r})) = MaxConcurrentRpcs
  BY <1>3, <1>4, GateAssumption DEF SemaphoreServes
<1>6. /\ woken \in SUBSET S
      /\ waiters \in Seq(S) /\ IsInjective(waiters)
  BY DEF SemaphoreServes
<1>7. QED
  BY <1>1, <1>2, <1>3, <1>4, <1>5, <1>6, WakeNextServes

\* A cancelled waiter that was asleep takes nothing with it.
LEMMA LeaveAsleepServes ==
  ASSUME NEW S, NEW P, NEW B, NEW r,
         SemaphoreServes(S, P, B), LeaveAsleep(r)
  PROVE  SemaphoreServes(S, P \ {r}, B)'
<1>1. PICK k \in DOMAIN waiters : waiters[k] = r /\ waiters' = RemoveAt(waiters, k)
  BY DEF LeaveAsleep
<1>2. permits' = permits /\ woken' = woken
  BY DEF LeaveAsleep
<1>3. r \in ToSet(waiters)
  BY <1>1 DEF ToSet
<1>4. /\ waiters' \in Seq(S) /\ IsInjective(waiters')
      /\ ToSet(waiters') = ToSet(waiters) \ {r}
  BY <1>1, RemoveElement DEF SemaphoreServes
<1>5. QED
  BY <1>2, <1>3, <1>4 DEF SemaphoreServes

\* A cancelled waiter that was woken passes its permit on or puts it back.
LEMMA LeaveWokenServes ==
  ASSUME NEW S, NEW P, NEW B, NEW r, P \cap B = {},
         SemaphoreServes(S, P, B), LeaveWoken(r)
  PROVE  SemaphoreServes(S, P \ {r}, B)'
<1>1. r \in woken /\ WakeNext(permits + 1, woken \ {r})
  BY DEF LeaveWoken
<1>2. /\ (woken \ {r}) \cup B = (woken \cup B) \ {r} /\ r \in woken \cup B
      /\ B \cap ToSet(waiters) = {}
      /\ (woken \ {r}) \cap ToSet(waiters) = {}
      /\ (woken \ {r}) \cup ToSet(waiters) = P \ {r}
  BY <1>1 DEF SemaphoreServes
<1>3. /\ IsFiniteSet((woken \ {r}) \cup B)
      /\ Cardinality((woken \ {r}) \cup B) = Cardinality(woken \cup B) - 1
  BY <1>2, FS_RemoveElement DEF SemaphoreServes
<1>4. permits + 1 \in Nat \ {0} /\ Cardinality(woken \cup B) \in Nat
  BY FS_CardinalityType, GateAssumption DEF SemaphoreServes
<1>5. (permits + 1) + Cardinality((woken \ {r}) \cup B) = MaxConcurrentRpcs
  BY <1>3, <1>4, GateAssumption DEF SemaphoreServes
<1>6. /\ woken \ {r} \in SUBSET S
      /\ waiters \in Seq(S) /\ IsInjective(waiters)
  BY DEF SemaphoreServes
<1>7. QED
  BY <1>1, <1>2, <1>3, <1>4, <1>5, <1>6, WakeNextServes

\* No operation of the semaphore strands a permit.
LEMMA NothingStranded ==
  ASSUME NEW r, NoStrandedPermit,
         \/ Acquire \/ Park(r) \/ Resumed(r) \/ Release
         \/ LeaveAsleep(r) \/ LeaveWoken(r) \/ UNCHANGED semaphore
  PROVE  NoStrandedPermit'
<1>1. CASE Acquire
  BY <1>1 DEF Acquire, Locked, NoStrandedPermit
<1>2. CASE Park(r)
  BY <1>2 DEF Park, Locked, NoStrandedPermit
<1>3. ASSUME NEW free, NEW awake, WakeNext(free, awake)
      PROVE  NoStrandedPermit'
  BY <1>3 DEF WakeNext, NoStrandedPermit
<1>4. CASE Resumed(r)
  BY <1>3, <1>4 DEF Resumed, NoStrandedPermit
<1>5. CASE Release
  BY <1>3, <1>5 DEF Release
<1>6. CASE LeaveAsleep(r)
  <2>1. waiters # <<>> /\ permits' = permits /\ woken' = woken
    BY <1>6 DEF LeaveAsleep
  <2>2. QED
    BY <2>1 DEF NoStrandedPermit
<1>7. CASE LeaveWoken(r)
  BY <1>3, <1>7 DEF LeaveWoken
<1>8. CASE UNCHANGED semaphore
  BY <1>8 DEF semaphore, NoStrandedPermit
<1>9. QED
  BY <1>1, <1>2, <1>4, <1>5, <1>6, <1>7, <1>8

------------------------------------------------------------------------------

\* A new job goes to the end of the queue of the pool.
LEMMA SubmitServes ==
  ASSUME NEW S, NEW J, NEW r \in S, r \notin J, PoolServes(S, J), Submit(r)
  PROVE  PoolServes(S, J \cup {r})'
<1>1. pending' = Append(pending, r) /\ running' = running
  BY DEF Submit
<1>2. r \notin ToSet(pending) /\ r \notin running
  BY DEF PoolServes
<1>3. /\ pending' \in Seq(S) /\ IsInjective(pending')
      /\ ToSet(pending') = ToSet(pending) \cup {r}
  BY <1>1, <1>2, AppendElement DEF PoolServes
<1>4. QED
  BY <1>1, <1>2, <1>3 DEF PoolServes

\* A free thread takes the oldest job.
LEMMA StartJobServes ==
  ASSUME NEW S, NEW J, NEW r, PoolServes(S, J), StartJob(r)
  PROVE  /\ PoolServes(S, J)'
         /\ r \in ToSet(pending) /\ ToSet(pending') = ToSet(pending) \ {r}
<1>1. /\ pending # <<>> /\ r = Head(pending) /\ Cardinality(running) < MaxWorkers
      /\ pending' = Tail(pending) /\ running' = running \cup {r}
  BY DEF StartJob
<1>2. /\ r \in S /\ r \in ToSet(pending)
      /\ pending' \in Seq(S) /\ IsInjective(pending')
      /\ ToSet(pending') = ToSet(pending) \ {r}
  BY <1>1, TailElement DEF PoolServes
<1>3. IsFiniteSet(running') /\ Cardinality(running') = Cardinality(running) + 1
  BY <1>1, <1>2, FS_AddElement DEF PoolServes
<1>4. Cardinality(running) \in Nat /\ MaxWorkers \in Nat
  BY FS_CardinalityType, GateAssumption DEF PoolServes
<1>5. Cardinality(running') <= MaxWorkers
  BY <1>1, <1>3, <1>4
<1>6. QED
  BY <1>1, <1>2, <1>3, <1>5 DEF PoolServes

\* A job that ends leaves its thread.
LEMMA EndJobServes ==
  ASSUME NEW S, NEW J, NEW r, PoolServes(S, J), EndJob(r)
  PROVE  PoolServes(S, J \ {r})'
<1>1. r \in running /\ running' = running \ {r} /\ pending' = pending
  BY DEF EndJob
<1>2. IsFiniteSet(running') /\ Cardinality(running') = Cardinality(running) - 1
  BY <1>1, FS_RemoveElement DEF PoolServes
<1>3. Cardinality(running) \in Nat /\ MaxWorkers \in Nat
  BY FS_CardinalityType, GateAssumption DEF PoolServes
<1>4. Cardinality(running') <= MaxWorkers
  BY <1>2, <1>3 DEF PoolServes
<1>5. QED
  BY <1>1, <1>2, <1>4 DEF PoolServes

\* Cancelling a future takes its job out of the queue, and a running job stays.
LEMMA CancelJobServes ==
  ASSUME NEW S, NEW J, NEW r, PoolServes(S, J), CancelJob(r)
  PROVE  /\ r \in ToSet(pending) => PoolServes(S, J \ {r})'
         /\ r \notin ToSet(pending) => PoolServes(S, J)'
         /\ running' = running /\ ToSet(pending') = ToSet(pending) \ {r}
<1>1. CASE r \in ToSet(pending)
  <2>1. PICK k \in DOMAIN pending : pending[k] = r /\ pending' = RemoveAt(pending, k)
    BY <1>1 DEF CancelJob
  <2>2. running' = running
    BY <1>1 DEF CancelJob
  <2>3. /\ pending' \in Seq(S) /\ IsInjective(pending')
        /\ ToSet(pending') = ToSet(pending) \ {r}
    BY <2>1, RemoveElement DEF PoolServes
  <2>4. PoolServes(S, J \ {r})'
    BY <1>1, <2>2, <2>3 DEF PoolServes
  <2>5. QED
    BY <1>1, <2>2, <2>3, <2>4
<1>2. CASE r \notin ToSet(pending)
  <2>1. pending' = pending /\ running' = running
    <3>1. ASSUME NEW i \in DOMAIN pending PROVE pending[i] # r
      BY <1>2 DEF ToSet
    <3>2. QED
      BY <3>1 DEF CancelJob, pool
  <2>2. PoolServes(S, J)'
    BY <2>1 DEF PoolServes
  <2>3. QED
    BY <1>2, <2>1, <2>2
<1>3. QED
  BY <1>1, <1>2

\* A process that starts has every permit free, nobody waiting and no job.
LEMMA ResetServes ==
  ASSUME NEW S, GateReset
  PROVE  SemaphoreServes(S, {}, {})' /\ PoolServes(S, {})'
<1>1. /\ IsFiniteSet({}) /\ Cardinality({}) = 0
      /\ ToSet(<<>>) = {} /\ IsInjective(<<>>)
  BY FS_EmptySet DEF ToSet, IsInjective
<1>2. /\ waiters' = <<>> /\ pending' = <<>> /\ woken' = {} /\ running' = {}
      /\ permits' = MaxConcurrentRpcs
  BY DEF GateReset
<1>3. MaxConcurrentRpcs \in Nat \ {0} /\ MaxWorkers \in Nat \ {0}
  BY GateAssumption
<1>4. SemaphoreServes(S, {}, {})'
  BY <1>1, <1>2, <1>3 DEF SemaphoreServes
<1>5. PoolServes(S, {})'
  BY <1>1, <1>2, <1>3 DEF PoolServes
<1>6. QED
  BY <1>4, <1>5

==============================================================================
