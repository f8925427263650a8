---------------------- MODULE StreamPredictions_proofs ----------------------
(* For any number of streams, permits, workers and steps: the permits are
   conserved, none is stranded, the queue stays short, no abandoned producer
   begins a step, and the handler and the producer keep DeltaStream's contract.
   Each part of the invariant IInv has a lemma, with one step per action.    *)
EXTENDS StreamPredictions, InferenceGate_proofs

\* The parked RPCs, and a name for InBlock that a lemma can be applied to.
Parked == {r \in Streams : pc[r] = "wait"}

\* The gate serves these RPCs: what the lemmas about its operations conclude.
LEMMA SemaphoreInvFrom ==
  ASSUME NEW P, NEW B, SemaphoreServes(Streams, P, B)', P = Parked', B = InBlock'
  PROVE  SemaphoreInv'
BY DEF SemaphoreInv, SemaphoreServes, Parked

\* Waiters, woken RPCs and permits agree with the handlers' places.
LEMMA SemaphoreStep ==
  ASSUME IInv, [Next]_vars
  PROVE  SemaphoreInv'
<1>0. PICK P, B : P = Parked /\ B = InBlock
  OBVIOUS
<1>1. /\ SemaphoreServes(Streams, P, B)
      /\ pc \in [Streams -> {"idle", "wait", "get", "yield", "orphan", "done"}]
      /\ P \cap B = {}
  BY <1>0 DEF IInv, TypeOK, SemaphoreInv, Parked, InBlock
<1>2. ASSUME UNCHANGED semaphore, Parked' = P, InBlock' = B
      PROVE  SemaphoreInv'
  BY <1>1, <1>2 DEF semaphore, SemaphoreInv, SemaphoreServes, Parked
<1>3. ASSUME NEW r \in Streams, Refuse(r) \/ Reject(r)
      PROVE  SemaphoreInv'
  <2>1. UNCHANGED semaphore /\ pc[r] = "idle" /\ pc' = [pc EXCEPT ![r] = "done"]
    BY <1>3 DEF Refuse, Reject, GoTo
  <2>2. Parked' = P /\ InBlock' = B
    BY <1>0, <1>1, <2>1 DEF Parked, InBlock
  <2>3. QED
    BY <1>2, <2>1, <2>2
<1>4. ASSUME NEW r \in Streams, Enter(r)
      PROVE  SemaphoreInv'
  <2>1. pc[r] = "idle" /\ r \notin P /\ r \notin B
    BY <1>0, <1>4 DEF Enter, Parked, InBlock
  <2>2. CASE Acquire /\ GoTo(r, "get")
    <3>1. SemaphoreServes(Streams, P, B \cup {r})'
      BY <1>1, <2>1, <2>2, AcquireServes
    <3>2. Parked' = P /\ InBlock' = B \cup {r}
      BY <1>0, <1>1, <2>1, <2>2 DEF Parked, InBlock, GoTo
    <3>3. QED
      BY <3>1, <3>2, SemaphoreInvFrom
  <2>3. CASE Park(r) /\ GoTo(r, "wait")
    <3>1. SemaphoreServes(Streams, P \cup {r}, B)'
      BY <1>1, <2>1, <2>3, ParkServes
    <3>2. Parked' = P \cup {r} /\ InBlock' = B
      BY <1>0, <1>1, <2>1, <2>3 DEF Parked, InBlock, GoTo
    <3>3. QED
      BY <3>1, <3>2, SemaphoreInvFrom
  <2>4. QED
    BY <1>4, <2>2, <2>3 DEF Enter
<1>5. ASSUME NEW r \in Streams, Proceed(r)
      PROVE  SemaphoreInv'
  <2>1. SemaphoreServes(Streams, P \ {r}, B \cup {r})'
    BY <1>1, <1>5, ResumedServes DEF Proceed
  <2>2. Parked' = P \ {r} /\ InBlock' = B \cup {r}
    BY <1>0, <1>1, <1>5 DEF Proceed, Parked, InBlock, GoTo
  <2>3. QED
    BY <2>1, <2>2, SemaphoreInvFrom
<1>6. ASSUME NEW r \in Streams, TakeDelta(r) \/ Written(r) \/ HangUpAtYield(r)
      PROVE  SemaphoreInv'
  <2>1. /\ UNCHANGED semaphore
        /\ pc[r] \in {"get", "yield"}
        /\ \E place \in {"get", "yield", "orphan"} : pc' = [pc EXCEPT ![r] = place]
    BY <1>6 DEF TakeDelta, Written, HangUpAtYield, GoTo, gateVars, semaphore
  <2>2. Parked' = P /\ InBlock' = B
    BY <1>0, <1>1, <2>1 DEF Parked, InBlock
  <2>3. QED
    BY <1>2, <2>1, <2>2
<1>7. ASSUME NEW r \in Streams,
             TakeEnd(r) \/ TakeFailure(r) \/ HangUpAtGet(r) \/ Finalize(r)
      PROVE  SemaphoreInv'
  <2>1. /\ pc[r] \in {"get", "orphan"}
        /\ pc' = [pc EXCEPT ![r] = "done"] /\ Release
    BY <1>7 DEF TakeEnd, TakeFailure, TakeLast, HangUpAtGet, Finalize,
                LeaveBlock, GoTo
  <2>2. r \in B
    BY <1>0, <2>1 DEF InBlock
  <2>3. SemaphoreServes(Streams, P, B \ {r})'
    BY <1>1, <2>1, <2>2, ReleaseServes
  <2>4. Parked' = P /\ InBlock' = B \ {r}
    BY <1>0, <1>1, <2>1 DEF Parked, InBlock
  <2>5. QED
    BY <2>3, <2>4, SemaphoreInvFrom
<1>8. ASSUME NEW r \in Streams, HangUpAsleep(r) \/ HangUpWoken(r)
      PROVE  SemaphoreInv'
  <2>1. /\ pc[r] = "wait" /\ pc' = [pc EXCEPT ![r] = "done"]
        /\ LeaveAsleep(r) \/ LeaveWoken(r)
    BY <1>8 DEF HangUpAsleep, HangUpWoken, GoTo
  <2>2. SemaphoreServes(Streams, P \ {r}, B)'
    BY <1>1, <2>1, LeaveAsleepServes, LeaveWokenServes
  <2>3. Parked' = P \ {r} /\ InBlock' = B
    BY <1>0, <1>1, <2>1 DEF Parked, InBlock
  <2>4. QED
    BY <2>2, <2>3, SemaphoreInvFrom
<1>9. ASSUME NEW r \in Streams, StartProducer(r) \/ Producer(r) \/ Raise(r)
      PROVE  SemaphoreInv'
  <2>1. UNCHANGED semaphore /\ UNCHANGED pc
    BY <1>9 DEF StartProducer, Producer, StartStep, PublishStep, EndOfSteps,
                Raise, gateVars, semaphore, handlerVars
  <2>2. QED
    BY <1>0, <1>2, <2>1 DEF Parked, InBlock
<1>10. CASE UNCHANGED vars
  BY <1>0, <1>2, <1>10 DEF vars, gateVars, semaphore, handlerVars, Parked, InBlock
<1>11. QED
  BY <1>3, <1>4, <1>5, <1>6, <1>7, <1>8, <1>9, <1>10
  DEF Next, Handler, HangUp, Quiet

------------------------------------------------------------------------------

DeltaType == [step : Nat, cumulative : Int, final : BOOLEAN]

\* The delta a handler takes is the one that follows those it has sent.
LEMMA TakenDelta ==
  ASSUME IInv, NEW r \in Streams, TakeDelta(r),
         NEW k, k = Len(sent[r]) + 1,
         NEW d, d = Delta(r, k, cumulative[r] + Value[k])
  PROVE  /\ Head(queue[r]) = k /\ k \in 1..steps[r] /\ k \in 1..MaxSteps
         /\ d \in DeltaType /\ cumulative[r] + Value[k] \in Int
         /\ sent' = [sent EXCEPT ![r] = Append(sent[r], d)]
         /\ sent'[r] = Append(sent[r], d)
         /\ Append(sent[r], d) \in Seq(DeltaType)
         /\ Len(Append(sent[r], d)) = k /\ Append(sent[r], d)[k] = d
<1>1. /\ sent \in [Streams -> Seq(DeltaType)] /\ sent[r] \in Seq(DeltaType)
      /\ queue[r] \in Seq(Nat \cup {NoMore, Failed})
      /\ steps[r] \in 0..MaxSteps /\ cumulative[r] \in Int
      /\ MaxSteps \in Nat /\ Len(sent[r]) \in Nat
  BY StreamAssumption, LenProperties DEF IInv, TypeOK, DeltaType
<1>2. queue[r] # <<>> /\ Head(queue[r]) \in Nat
  BY DEF TakeDelta
<1>3. /\ 1 \in DOMAIN queue[r] /\ Head(queue[r]) = queue[r][1]
  BY <1>1, <1>2, EmptySeq, LenProperties
<1>4. IsStep(r, 1)
  BY <1>2, <1>3, StreamAssumption DEF IInv, QueueInv, QueueAt, IsMarker
<1>5. Head(queue[r]) = k /\ k \in 1..steps[r] /\ k \in 1..MaxSteps
  BY <1>1, <1>3, <1>4 DEF IsStep
<1>6. Value[k] \in Int
  BY <1>5, StreamAssumption
<1>7. d \in DeltaType /\ cumulative[r] + Value[k] \in Int
  BY <1>1, <1>5, <1>6 DEF Delta, DeltaType
<1>8. sent' = [sent EXCEPT ![r] = Append(sent[r], d)]
  BY <1>5 DEF TakeDelta
<1>9. QED
  BY <1>1, <1>5, <1>7, <1>8, AppendProperties

\* A handler's place agrees with its status, its deltas and its event.
LEMMA HandlerStep ==
  ASSUME IInv, [Next]_vars
  PROVE  HandlerInv'
<1> SUFFICES ASSUME NEW x \in Streams
             PROVE  HandlerAt(x)'
  BY DEF HandlerInv
<1>1. HandlerAt(x) /\ TypeOK
  BY DEF IInv, HandlerInv
<1>2. ASSUME NEW r \in Streams, Refuse(r) \/ Reject(r)
      PROVE  HandlerAt(x)'
  BY <1>1, <1>2 DEF HandlerAt, TypeOK, Refuse, Reject, GoTo, End, producerVars
<1>3. ASSUME NEW r \in Streams, Enter(r)
      PROVE  HandlerAt(x)'
  <2>1. PICK n \in RequestedSteps : steps' = [steps EXCEPT ![r] = Clamp(n)]
    BY <1>3 DEF Enter
  <2>2. Clamp(n) \in 1..MaxSteps
    BY StreamAssumption DEF Clamp
  <2>3. /\ pc[r] = "idle" /\ live' = live \cup {r}
        /\ \E place \in {"get", "wait"} : pc' = [pc EXCEPT ![r] = place]
        /\ UNCHANGED <<outcome, cumulative, sent, queue, cancelled, produced>>
    BY <1>3 DEF Enter, GoTo, producerVars
  <2>4. CASE x = r
    BY <1>1, <2>1, <2>2, <2>3, <2>4, StreamAssumption DEF HandlerAt, TypeOK
  <2>5. CASE x # r
    BY <1>1, <2>1, <2>3, <2>5 DEF HandlerAt, TypeOK
  <2>6. QED
    BY <2>4, <2>5
<1>4. ASSUME NEW r \in Streams, Proceed(r) \/ Written(r)
      PROVE  HandlerAt(x)'
  BY <1>1, <1>4 DEF HandlerAt, TypeOK, Proceed, Written, GoTo, gateVars, producerVars
<1>5. ASSUME NEW r \in Streams, TakeDelta(r)
      PROVE  HandlerAt(x)'
  <2> DEFINE k == Len(sent[r]) + 1
             d == Delta(r, k, cumulative[r] + Value[k])
  <2>1. /\ Head(queue[r]) = k /\ k \in 1..MaxSteps
        /\ sent' = [sent EXCEPT ![r] = Append(sent[r], d)]
        /\ Append(sent[r], d) \in Seq(DeltaType)
        /\ Len(Append(sent[r], d)) = k /\ Append(sent[r], d)[k] = d
    BY <1>5, TakenDelta
  <2>2. /\ pc[r] = "get" /\ pc' = [pc EXCEPT ![r] = "yield"]
        /\ cumulative' = [cumulative EXCEPT ![r] = cumulative[r] + Value[k]]
        /\ queue' = [queue EXCEPT ![r] = Tail(@)]
        /\ UNCHANGED <<live, outcome, steps, cancelled, produced>>
    BY <1>5, <2>1 DEF TakeDelta, GoTo, gateVars, producerVars
  <2>3. d.cumulative = cumulative[r] + Value[k]
    BY DEF Delta
  <2>4. Append(sent[r], d) # <<>>
    BY <2>1, EmptySeq
  <2> HIDE DEF k, d
  <2>5. CASE x = r
    BY <1>1, <2>1, <2>2, <2>3, <2>4, <2>5 DEF HandlerAt, TypeOK
  <2>6. CASE x # r
    BY <1>1, <2>1, <2>2, <2>6 DEF HandlerAt, TypeOK
  <2>7. QED
    BY <2>5, <2>6
<1>6. ASSUME NEW r \in Streams, TakeEnd(r) \/ TakeFailure(r) \/ HangUpAtGet(r)
      PROVE  HandlerAt(x)'
  BY <1>1, <1>6 DEF HandlerAt, TypeOK, TakeEnd, TakeFailure, TakeLast, HangUpAtGet,
                    LeaveBlock, End, GoTo, producerVars
<1>7. ASSUME NEW r \in Streams, HangUpAsleep(r) \/ HangUpWoken(r) \/ HangUpAtYield(r)
      PROVE  HandlerAt(x)'
  BY <1>1, <1>7 DEF HandlerAt, TypeOK, HangUpAsleep, HangUpWoken, HangUpAtYield,
                    End, GoTo, producerVars
<1>8. ASSUME NEW r \in Streams, Finalize(r)
      PROVE  HandlerAt(x)'
  BY <1>1, <1>8 DEF HandlerAt, TypeOK, Finalize, LeaveBlock, GoTo, producerVars
<1>9. ASSUME NEW r \in Streams, StartProducer(r) \/ Producer(r) \/ Raise(r)
      PROVE  HandlerAt(x)'
  <2>1. UNCHANGED <<live, handlerVars, cancelled>>
    BY <1>9 DEF StartProducer, Producer, StartStep, PublishStep, EndOfSteps,
                Raise, gateVars
  <2>2. CASE UNCHANGED <<queue, produced>>
    BY <1>1, <2>1, <2>2 DEF HandlerAt, handlerVars
  <2>3. CASE r \in running /\ \E item : Publish(r, item)
    <3>1. pc[r] \notin {"idle", "wait"}
      BY <2>3 DEF IInv, PoolInv, PoolAt, Jobs
    <3>2. CASE x = r
      BY <1>1, <2>1, <3>1, <3>2 DEF HandlerAt, handlerVars
    <3>3. CASE x # r
      <4>1. queue'[x] = queue[x] /\ produced'[x] = produced[x]
        BY <1>1, <1>9, <2>3, <3>3
        DEF Publish, TypeOK, StartProducer, Producer, StartStep, PublishStep,
            EndOfSteps, Raise, producerVars
      <4>2. QED
        BY <1>1, <2>1, <4>1 DEF HandlerAt, handlerVars
    <3>4. QED
      BY <3>2, <3>3
  <2>4. QED
    BY <1>1, <1>9, <2>2, <2>3 DEF StartProducer, Producer, StartStep, PublishStep,
       EndOfSteps, Raise, producerVars, gateVars, TypeOK
<1>10. CASE UNCHANGED vars
  BY <1>1, <1>10 DEF HandlerAt, vars, gateVars, handlerVars, producerVars
<1>11. QED
  BY <1>2, <1>3, <1>4, <1>5, <1>6, <1>7, <1>8, <1>9, <1>10
  DEF Next, Handler, HangUp, Quiet

------------------------------------------------------------------------------

\* The pool serves each stream once; a running producer has published what was
\* sent and what is in the queue.
LEMMA PoolStep ==
  ASSUME IInv, [Next]_vars
  PROVE  PoolInv' /\ (burning \subseteq running)'
<1> DEFINE Goal == PoolInv' /\ (burning \subseteq running)'
<1>0. PICK J : J = Jobs
  OBVIOUS
<1>1. /\ PoolServes(Streams, J) /\ burning \subseteq running
      /\ \A x \in Streams : PoolAt(x)
      /\ J \subseteq Streams
  <2>1. ToSet(pending) \subseteq Streams
    BY DEF IInv, TypeOK, ToSet
  <2>2. QED
    BY <1>0, <2>1 DEF IInv, PoolInv, Jobs, TypeOK
<1>2. TypeOK
  BY DEF IInv
<1>3. ASSUME NEW K, PoolServes(Streams, K)', \A x \in Streams : PoolAt(x)',
             burning' \subseteq running'
      PROVE  Goal
  BY <1>3 DEF PoolInv, PoolServes, Jobs
<1>4. ASSUME UNCHANGED <<pool, queue, sent, producerVars>>,
             \A x \in Jobs :
              /\ pc'[x] \notin {"idle", "wait"} /\ steps'[x] = steps[x]
              /\ pc'[x] = "done" => cancelled'[x]
      PROVE  Goal
  <2>1. PoolServes(Streams, J)' /\ Jobs' = Jobs
    BY <1>1, <1>4 DEF pool, PoolServes, Jobs
  <2>2. ASSUME NEW x \in Streams
        PROVE  PoolAt(x)'
    <3>1. PoolAt(x) /\ UNCHANGED <<pending, running, burning, queue, sent, produced>>
      BY <1>1, <1>4, <2>2 DEF pool, producerVars
    <3>2. x \in burning => x \in Jobs
      BY <1>1 DEF Jobs
    <3>3. QED
      BY <1>4, <2>1, <3>1, <3>2 DEF PoolAt
  <2>3. QED
    BY <1>1, <1>3, <1>4, <2>1, <2>2 DEF pool, producerVars
\* The handler submits the job of r, and nothing else about the job changes.
<1>5. ASSUME NEW r \in Streams, pc[r] \in {"idle", "wait"}, Submit(r),
             pc' = [pc EXCEPT ![r] = "get"],
             UNCHANGED <<queue, sent, cancelled, producerVars>>,
             \A x \in Streams \ {r} : steps'[x] = steps[x]
      PROVE  Goal
  <2>1. r \notin J /\ r \notin running
    BY <1>0, <1>1, <1>5 DEF PoolAt, Jobs
  <2>2. PoolServes(Streams, J \cup {r})'
    BY <1>1, <2>1, <1>5, SubmitServes
  <2>3. running' = running /\ Jobs' = Jobs \cup {r} /\ ToSet(pending') \subseteq Jobs'
    BY <1>0, <1>5, <2>2 DEF Submit, PoolServes, Jobs
  <2>4. sent[r] = <<>> /\ queue[r] = <<>> /\ produced[r] = 0
    BY <1>5 DEF IInv, HandlerInv, HandlerAt
  <2>5. PoolAt(r)'
    BY <1>1, <1>2, <1>5, <2>1, <2>3, <2>4 DEF PoolAt, TypeOK, producerVars
  <2>6. ASSUME NEW x \in Streams \ {r}
        PROVE  PoolAt(x)'
    <3>1. (x \in ToSet(pending') => x \in ToSet(pending)) /\ pc'[x] = pc[x]
      <4>1. ToSet(pending') = ToSet(pending) \cup {r}
        BY <1>0, <1>1, <1>5, <2>1, AppendElement DEF Submit, PoolServes, Jobs
      <4>2. QED
        BY <1>2, <1>5, <2>6, <4>1 DEF TypeOK
    <3>2. QED
      BY <1>1, <1>5, <2>3, <2>6, <3>1 DEF PoolAt, producerVars
  <2>7. QED
    BY <1>1, <1>3, <1>5, <2>2, <2>3, <2>5, <2>6 DEF producerVars
<1>6. ASSUME NEW r \in Streams, Refuse(r) \/ Reject(r)
      PROVE  Goal
  <2>1. r \notin Jobs
    BY <1>1, <1>6 DEF Refuse, Reject, PoolAt
  <2>2. QED
    BY <1>1, <1>2, <1>4, <1>6, <2>1 DEF Refuse, Reject, GoTo, PoolAt, TypeOK, Jobs, PoolServes
<1>7. ASSUME NEW r \in Streams, Enter(r)
      PROVE  Goal
  <2>1. \A x \in Streams \ {r} : steps'[x] = steps[x]
    BY <1>2, <1>7 DEF Enter, TypeOK
  <2>2. CASE Submit(r) /\ GoTo(r, "get")
    BY <1>5, <1>7, <2>1, <2>2 DEF Enter, GoTo
  <2>3. CASE UNCHANGED pool /\ GoTo(r, "wait")
    <3>1. r \notin Jobs
      BY <1>1, <1>7 DEF Enter, PoolAt
    <3>2. \A x \in Jobs :
              /\ pc'[x] \notin {"idle", "wait"} /\ steps'[x] = steps[x]
              /\ pc'[x] = "done" => cancelled'[x]
      BY <1>0, <1>1, <1>2, <1>7, <2>1, <2>3, <3>1 DEF Enter, GoTo, PoolAt, TypeOK
    <3>3. QED
      BY <1>4, <1>7, <2>3, <3>2 DEF Enter
  <2>4. QED
    BY <1>7, <2>2, <2>3 DEF Enter
<1>8. ASSUME NEW r \in Streams, Proceed(r)
      PROVE  Goal
  BY <1>5, <1>8 DEF Proceed, GoTo
<1>9. ASSUME NEW r \in Streams, TakeDelta(r)
      PROVE  Goal
  <2>1. PICK d \in DeltaType : /\ sent' = [sent EXCEPT ![r] = Append(sent[r], d)]
                               /\ Len(Append(sent[r], d)) = Len(sent[r]) + 1
    BY <1>9, TakenDelta
  <2>2. /\ queue[r] # <<>> /\ queue' = [queue EXCEPT ![r] = Tail(queue[r])]
        /\ pc' = [pc EXCEPT ![r] = "yield"]
        /\ UNCHANGED <<pool, steps, cancelled, producerVars>>
    BY <1>9 DEF TakeDelta, GoTo, gateVars, pool
  <2>3. Len(Tail(queue[r])) = Len(queue[r]) - 1 /\ Len(queue[r]) \in Nat /\ Len(sent[r]) \in Nat
    BY <1>2, <2>2, HeadTailProperties, LenProperties DEF TypeOK
  <2>4. PoolServes(Streams, J)' /\ Jobs' = Jobs
    BY <1>1, <2>2 DEF pool, PoolServes, Jobs
  <2>5. PoolAt(r)'
    BY <1>1, <1>2, <2>1, <2>2, <2>3 DEF PoolAt, TypeOK, pool, producerVars, Jobs
  <2>6. ASSUME NEW x \in Streams \ {r}
        PROVE  PoolAt(x)'
    BY <1>1, <1>2, <2>1, <2>2, <2>6 DEF PoolAt, TypeOK, pool, producerVars, Jobs
  <2>7. QED
    BY <1>1, <1>3, <2>2, <2>4, <2>5, <2>6 DEF pool, producerVars
<1>10. ASSUME NEW r \in Streams, TakeEnd(r) \/ TakeFailure(r)
       PROVE  Goal
  <2>1. /\ queue[r] # <<>> /\ Head(queue[r]) \in {NoMore, Failed}
        /\ queue' = [queue EXCEPT ![r] = Tail(queue[r])]
        /\ pc' = [pc EXCEPT ![r] = "done"]
        /\ cancelled' = [cancelled EXCEPT ![r] = TRUE]
        /\ UNCHANGED <<pool, steps, sent, producerVars>>
    BY <1>10 DEF TakeEnd, TakeFailure, TakeLast, LeaveBlock, GoTo
  <2>2. r \notin Jobs
    <3>1. 1 \in DOMAIN queue[r] /\ Head(queue[r]) = queue[r][1]
      BY <1>2, <2>1, EmptySeq, LenProperties DEF TypeOK
    <3>2. Len(sent[r]) + 1 \in Nat
      BY <1>2, LenProperties DEF TypeOK
    <3>3. IsMarker(r, 1)
      BY <2>1, <3>1, <3>2, StreamAssumption DEF IInv, QueueInv, QueueAt, IsStep
    <3>4. QED
      BY <1>1, <2>1, <3>3 DEF IsMarker, PoolAt, Jobs
  <2>3. PoolServes(Streams, J)' /\ Jobs' = Jobs
    BY <1>1, <2>1 DEF pool, PoolServes, Jobs
  <2>4. ASSUME NEW x \in Streams
        PROVE  PoolAt(x)'
    BY <1>1, <1>2, <2>1, <2>2, <2>3, <2>4 DEF PoolAt, TypeOK, pool, producerVars, Jobs
  <2>5. QED
    BY <1>1, <1>3, <2>1, <2>3, <2>4 DEF pool, producerVars
<1>11. ASSUME NEW r \in Streams, Written(r) \/ HangUp(r) \/ Finalize(r)
       PROVE  Goal
  <2>1. /\ UNCHANGED <<pool, steps, queue, sent, producerVars>>
        /\ \/ /\ \E place \in {"get", "orphan"} : pc' = [pc EXCEPT ![r] = place]
              /\ UNCHANGED cancelled
           \/ /\ pc' = [pc EXCEPT ![r] = "done"]
              /\ \/ cancelled' = [cancelled EXCEPT ![r] = TRUE]
                 \/ pc[r] = "wait" /\ UNCHANGED cancelled
    BY <1>11 DEF Written, HangUp, HangUpAsleep, HangUpWoken, HangUpAtGet,
                 HangUpAtYield, Finalize, LeaveBlock, GoTo, gateVars, pool
  <2>2. \A x \in Jobs :
              /\ pc'[x] \notin {"idle", "wait"} /\ steps'[x] = steps[x]
              /\ pc'[x] = "done" => cancelled'[x]
    BY <1>0, <1>1, <1>2, <2>1 DEF PoolAt, TypeOK
  <2>3. QED
    BY <1>4, <2>1, <2>2
<1>12. ASSUME NEW r \in Streams, StartProducer(r)
       PROVE  Goal
  <2>1. /\ StartJob(r) /\ running' = running \cup {r}
        /\ UNCHANGED <<pc, steps, sent, queue, cancelled, producerVars>>
    BY <1>12 DEF StartProducer, StartJob, handlerVars
  <2>2. /\ PoolServes(Streams, J)'
        /\ r \in ToSet(pending) /\ ToSet(pending') = ToSet(pending) \ {r}
    BY <1>1, <2>1, StartJobServes
  <2>3. Jobs' = Jobs
    BY <1>0, <2>2 DEF PoolServes, Jobs
  <2>4. PoolAt(r)'
    <3>1. /\ produced[r] = 0 /\ Len(queue[r]) = 0 /\ Len(sent[r]) = 0
          /\ pc[r] \notin {"idle", "wait"} /\ (pc[r] = "done" => cancelled[r])
      BY <1>1, <2>2, EmptySeq DEF PoolAt, Jobs
    <3>2. r \notin burning
      BY <1>1, <2>2 DEF PoolServes
    <3>3. QED
      BY <2>1, <2>2, <2>3, <3>1, <3>2 DEF PoolAt, producerVars
  <2>5. ASSUME NEW x \in Streams \ {r}
        PROVE  PoolAt(x)'
    BY <1>1, <2>1, <2>2, <2>3, <2>5 DEF PoolAt, producerVars
  <2>6. QED
    BY <1>1, <1>3, <2>1, <2>2, <2>4, <2>5 DEF producerVars
<1>13. ASSUME NEW r \in Streams, StartStep(r)
       PROVE  Goal
  <2>1. /\ r \in running /\ produced[r] < steps[r]
        /\ burning' = burning \cup {r}
        /\ UNCHANGED <<pool, pc, steps, sent, queue, cancelled, produced>>
    BY <1>13 DEF StartStep, gateVars, pool, handlerVars
  <2>2. PoolServes(Streams, J)' /\ Jobs' = Jobs
    BY <1>1, <2>1 DEF pool, PoolServes, Jobs
  <2>3. ASSUME NEW x \in Streams
        PROVE  PoolAt(x)'
    BY <1>1, <2>1, <2>2, <2>3 DEF PoolAt, pool
  <2>4. QED
    BY <1>1, <1>3, <2>1, <2>2, <2>3 DEF pool
<1>14. ASSUME NEW r \in Streams, PublishStep(r)
       PROVE  Goal
  <2>1. /\ r \in running /\ burning' = burning \ {r}
        /\ queue' = [queue EXCEPT ![r] = Append(queue[r], produced[r] + 1)]
        /\ produced' = [produced EXCEPT ![r] = produced[r] + 1]
        /\ UNCHANGED <<pool, pc, steps, sent, cancelled>>
    BY <1>1, <1>14 DEF PublishStep, Publish, gateVars, pool, handlerVars
  <2>2. PoolServes(Streams, J)' /\ Jobs' = Jobs
    BY <1>1, <2>1 DEF pool, PoolServes, Jobs
  <2>3. PoolAt(r)'
    <3>1. /\ produced[r] + 1 \in Nat \cup {NoMore, Failed}
          /\ queue[r] \in Seq(Nat \cup {NoMore, Failed})
          /\ Len(queue[r]) \in Nat /\ Len(sent[r]) \in Nat
          /\ Len(Append(queue[r], produced[r] + 1)) = Len(queue[r]) + 1
      BY <1>2, AppendProperties, LenProperties DEF TypeOK
    <3>2. r \notin ToSet(pending)
      BY <1>1, <2>1 DEF PoolServes
    <3>3. /\ queue'[r] = Append(queue[r], produced[r] + 1)
          /\ produced'[r] = produced[r] + 1 /\ produced[r] = Len(sent[r]) + Len(queue[r])
          /\ pc[r] \notin {"idle", "wait"} /\ (pc[r] = "done" => cancelled[r])
          /\ sent'[r] = sent[r]
      BY <1>1, <1>2, <2>1 DEF PoolAt, TypeOK, Jobs
    <3>4. produced'[r] = Len(sent'[r]) + Len(queue'[r])
      <4>1. Len(queue'[r]) = Len(queue[r]) + 1 /\ Len(sent'[r]) = Len(sent[r])
        BY <3>1, <3>3, Zenon
      <4>2. produced'[r] = (Len(sent[r]) + Len(queue[r])) + 1
        BY <3>3, Zenon
      <4>3. Len(queue[r]) \in Nat /\ Len(sent[r]) \in Nat
        BY <3>1
      <4>4. \A a, b \in Nat : (a + b) + 1 = a + (b + 1)
        OBVIOUS
      <4>5. (Len(sent[r]) + Len(queue[r])) + 1 = Len(sent[r]) + (Len(queue[r]) + 1)
        BY <4>3, <4>4, Zenon
      <4>6. QED
        BY <4>1, <4>2, <4>5, Zenon
    <3>5. /\ r \notin burning' /\ r \notin ToSet(pending')
          /\ pc'[r] \notin {"idle", "wait"} /\ (pc'[r] = "done" => cancelled'[r])
      BY <2>1, <3>2, <3>3 DEF pool
    <3>6. QED
      BY <3>4, <3>5 DEF PoolAt
  <2>4. ASSUME NEW x \in Streams \ {r}
        PROVE  PoolAt(x)'
    BY <1>1, <1>2, <2>1, <2>2, <2>4 DEF PoolAt, TypeOK, pool
  <2>5. QED
    BY <1>1, <1>3, <2>1, <2>2, <2>3, <2>4 DEF pool
<1>15. ASSUME NEW r \in Streams, EndOfSteps(r) \/ Raise(r)
       PROVE  Goal
  <2>1. /\ EndJob(r) /\ r \in running /\ running' = running \ {r} /\ pending' = pending
        /\ burning' = burning \ {r}
        /\ \E item : queue' = [queue EXCEPT ![r] = Append(queue[r], item)]
        /\ UNCHANGED <<pc, steps, sent, cancelled, produced>>
    BY <1>15 DEF EndOfSteps, Raise, EndJob, Publish, handlerVars, producerVars
  <2>2. PoolServes(Streams, J \ {r})'
    BY <1>1, <2>1, EndJobServes
  <2>3. Jobs' = Jobs \ {r}
    BY <1>0, <1>1, <2>1, <2>2 DEF PoolServes, Jobs
  <2>4. ASSUME NEW x \in Streams
        PROVE  PoolAt(x)'
    BY <1>1, <1>2, <2>1, <2>3, <2>4 DEF PoolAt, TypeOK, Jobs
  <2>5. QED
    BY <1>1, <1>3, <2>1, <2>2, <2>4
<1>16. CASE UNCHANGED vars
  <2>1. \A x \in Jobs : pc[x] \notin {"idle", "wait"} /\ (pc[x] = "done" => cancelled[x])
    BY <1>0, <1>1 DEF PoolAt
  <2>2. QED
    BY <1>4, <1>16, <2>1 DEF vars, gateVars, pool, handlerVars
<1>17. QED
  BY <1>6, <1>7, <1>8, <1>9, <1>10, <1>11, <1>12, <1>13, <1>14, <1>15, <1>16
  DEF Next, Handler, Producer, Quiet

------------------------------------------------------------------------------

\* A step published by the producer, or the marker it leaves, continues the
\* queue.
LEMMA QueueAppend ==
  ASSUME IInv, NEW r \in Streams, r \in running,
         NEW item \in Nat \cup {NoMore, Failed},
         queue'[r] = Append(queue[r], item),
         UNCHANGED <<sent, steps>>,
         \/ item = produced[r] + 1 /\ produced[r] < steps[r]
         \/ /\ item \in {NoMore, Failed} /\ r \notin running'
            /\ item = NoMore /\ ~cancelled'[r] => produced[r] = steps[r]
  PROVE  QueueAt(r)'
<1>0. PICK n : n = Len(queue[r])
  OBVIOUS
<1>1. /\ queue[r] \in Seq(Nat \cup {NoMore, Failed}) /\ n \in Nat
      /\ Len(sent[r]) \in Nat /\ produced[r] \in Nat /\ steps[r] \in Nat
      /\ DOMAIN queue[r] = 1..n
  BY <1>0, LenProperties, StreamAssumption DEF IInv, TypeOK
<1>2. /\ DOMAIN queue'[r] = 1..(n + 1) /\ Len(queue'[r]) = n + 1
      /\ \A i \in 1..n : queue'[r][i] = queue[r][i]
      /\ queue'[r][n + 1] = item
  BY <1>0, <1>1, AppendProperties, LenProperties
<1>3. \A i \in 1..n : IsStep(r, i)
  BY <1>1 DEF IInv, QueueInv, QueueAt, IsMarker
<1>4. produced[r] = Len(sent[r]) + n
  BY <1>0 DEF IInv, PoolInv, PoolAt
<1>5. \A i \in 1..n : IsStep(r, i)'
  BY <1>2, <1>3 DEF IsStep
<1>6. CASE item = produced[r] + 1 /\ produced[r] < steps[r]
  <2>1. item = Len(sent[r]) + (n + 1) /\ item <= steps[r]
    <3>1. \A a, b \in Nat : (a + b) + 1 = a + (b + 1)
      OBVIOUS
    <3>2. produced[r] + 1 = Len(sent[r]) + (n + 1)
      BY <1>1, <1>4, <3>1, Zenon
    <3>3. produced[r] + 1 <= steps[r]
      BY <1>1, <1>6
    <3>4. QED
      BY <1>6, <3>2, <3>3, Zenon
  <2>2. IsStep(r, n + 1)'
    BY <1>2, <2>1 DEF IsStep
  <2>3. QED
    BY <1>1, <1>2, <1>5, <2>2 DEF QueueAt
<1>7. CASE /\ item \in {NoMore, Failed} /\ r \notin running'
           /\ item = NoMore /\ ~cancelled'[r] => produced[r] = steps[r]
  <2>1. \A a, b \in Nat : (a + b) + 1 = a + (b + 1)
    OBVIOUS
  <2>2. produced[r] + 1 = Len(sent[r]) + (n + 1)
    BY <1>1, <1>4, <2>1, Zenon
  <2>3. IsMarker(r, n + 1)'
    BY <1>2, <1>7, <2>2 DEF IsMarker
  <2>4. QED
    BY <1>1, <1>2, <1>5, <2>3 DEF QueueAt
<1>8. QED
  BY <1>6, <1>7

\* Whatever a step takes from a queue or puts in it, the queue continues what
\* was sent.
LEMMA QueueStep ==
  ASSUME IInv, [Next]_vars
  PROVE  QueueInv'
<1> SUFFICES ASSUME NEW x \in Streams
             PROVE  QueueAt(x)'
  BY DEF QueueInv
<1>1. /\ TypeOK /\ QueueAt(x) /\ HandlerAt(x) /\ PoolAt(x)
      /\ NoMore \notin Nat /\ Failed \notin Nat
  BY StreamAssumption DEF IInv, QueueInv, HandlerInv, PoolInv
<1>2. ASSUME queue'[x] = queue[x], sent'[x] = sent[x],
             steps'[x] = steps[x] \/ queue[x] = <<>>,
             x \in running' => x \in running \/ queue[x] = <<>>,
             cancelled[x] => cancelled'[x]
      PROVE  QueueAt(x)'
  <2>1. CASE queue[x] = <<>>
    BY <1>2, <2>1 DEF QueueAt
  <2>2. CASE queue[x] # <<>>
    BY <1>1, <1>2, <2>2 DEF QueueAt, IsStep, IsMarker
  <2>3. QED
    BY <2>1, <2>2
<1>3. ASSUME NEW r \in Streams, Refuse(r) \/ Reject(r) \/ Proceed(r) \/ Written(r)
                                \/ HangUp(r) \/ Finalize(r)
      PROVE  QueueAt(x)'
  <2>1. /\ UNCHANGED <<queue, sent, steps, running>>
        /\ cancelled' = cancelled \/ cancelled' = [cancelled EXCEPT ![r] = TRUE]
    BY <1>3 DEF Refuse, Reject, Proceed, Written, HangUp, HangUpAsleep, HangUpWoken,
                HangUpAtGet, HangUpAtYield, Finalize, LeaveBlock, Submit, gateVars, pool
  <2>2. QED
    BY <1>1, <1>2, <2>1 DEF TypeOK
<1>4. ASSUME NEW r \in Streams, Enter(r)
      PROVE  QueueAt(x)'
  <2>1. /\ UNCHANGED <<queue, sent, running, cancelled>>
        /\ pc[r] = "idle" /\ \A y \in Streams \ {r} : steps'[y] = steps[y]
    BY <1>1, <1>4 DEF Enter, Submit, pool, TypeOK
  <2>2. x = r => queue[x] = <<>>
    BY <1>1, <2>1 DEF HandlerAt
  <2>3. QED
    BY <1>2, <2>1, <2>2
<1>5. ASSUME NEW r \in Streams, TakeDelta(r)
      PROVE  QueueAt(x)'
  <2> DEFINE k == Len(sent[r]) + 1
             d == Delta(r, k, cumulative[r] + Value[k])
  <2>1. /\ sent' = [sent EXCEPT ![r] = Append(sent[r], d)]
        /\ Len(Append(sent[r], d)) = k
    BY <1>5, TakenDelta
  <2>2. /\ queue[r] # <<>> /\ queue' = [queue EXCEPT ![r] = Tail(queue[r])]
        /\ UNCHANGED <<steps, running, cancelled>>
    BY <1>5 DEF TakeDelta, gateVars
  <2> HIDE DEF d
  <2>3. CASE x = r
    <3>1. /\ DOMAIN queue[r] = 1..Len(queue[r])
          /\ DOMAIN Tail(queue[r]) = 1..(Len(queue[r]) - 1)
          /\ Len(Tail(queue[r])) = Len(queue[r]) - 1
          /\ \A i \in 1..(Len(queue[r]) - 1) : Tail(queue[r])[i] = queue[r][i + 1]
          /\ Len(queue[r]) \in Nat /\ Len(sent[r]) \in Nat
      BY <1>1, <2>2, HeadTailProperties, LenProperties DEF TypeOK
    <3>2. queue'[r] = Tail(queue[r]) /\ Len(sent'[r]) = k
      BY <1>1, <2>1, <2>2 DEF TypeOK
    <3>3. ASSUME NEW i \in 1..(Len(queue[r]) - 1)
          PROVE  IsStep(r, i)' \/ IsMarker(r, i)'
      <4>1. IsStep(r, i + 1) \/ IsMarker(r, i + 1)
        BY <1>1, <2>3, <3>1 DEF QueueAt
      <4>2. k + i = Len(sent[r]) + (i + 1) /\ (i + 1 = Len(queue[r]) <=> i = Len(queue[r]) - 1)
        <5>1. \A a, b \in Nat : \A j \in 1..(b - 1) :
                (a + 1) + j = a + (j + 1) /\ (j + 1 = b <=> j = b - 1)
          OBVIOUS
        <5>2. Len(sent[r]) \in Nat /\ Len(queue[r]) \in Nat /\ i \in 1..(Len(queue[r]) - 1)
          BY <3>1, <3>3
        <5>3. QED
          BY <5>1, <5>2, Zenon
      <4>3. queue'[r][i] = queue[r][i + 1]
        BY <3>1, <3>2
      <4> HIDE DEF k
      <4>4. QED
        BY <2>2, <3>1, <3>2, <4>1, <4>2, <4>3 DEF IsStep, IsMarker
    <3>4. QED
      BY <2>3, <3>1, <3>2, <3>3 DEF QueueAt
  <2>4. CASE x # r
    BY <1>1, <1>2, <2>1, <2>2, <2>4 DEF TypeOK
  <2>5. QED
    BY <2>3, <2>4
<1>6. ASSUME NEW r \in Streams, TakeEnd(r) \/ TakeFailure(r)
      PROVE  QueueAt(x)'
  <2>1. /\ queue[r] # <<>> /\ Head(queue[r]) \in {NoMore, Failed}
        /\ queue' = [queue EXCEPT ![r] = Tail(queue[r])]
        /\ cancelled' = [cancelled EXCEPT ![r] = TRUE]
        /\ UNCHANGED <<steps, sent, running>>
    BY <1>6 DEF TakeEnd, TakeFailure, TakeLast, LeaveBlock, pool
  <2>2. CASE x = r
    <3>1. 1 \in DOMAIN queue[r] /\ Head(queue[r]) = queue[r][1]
      BY <1>1, <2>1, EmptySeq, LenProperties DEF TypeOK
    <3>2. Len(sent[r]) + 1 \in Nat
      BY <1>1, LenProperties DEF TypeOK
    <3>3. Len(queue[r]) = 1
      <4>1. IsStep(r, 1) \/ IsMarker(r, 1)
        BY <1>1, <2>2, <3>1, Zenon DEF QueueAt
      <4>2. ~IsStep(r, 1)
        BY <1>1, <2>1, <3>1, <3>2 DEF IsStep
      <4>3. QED
        BY <4>1, <4>2, Zenon DEF IsMarker
    <3>4. Tail(queue[r]) = <<>>
      <4>1. /\ Tail(queue[r]) \in Seq(Nat \cup {NoMore, Failed})
            /\ Len(Tail(queue[r])) = 0
        BY <1>1, <2>1, <3>3, HeadTailProperties DEF TypeOK
      <4>2. QED
        BY <4>1, EmptySeq
    <3>5. QED
      BY <1>1, <2>1, <2>2, <3>4 DEF TypeOK, QueueAt
  <2>3. CASE x # r
    BY <1>1, <1>2, <2>1, <2>3 DEF TypeOK
  <2>4. QED
    BY <2>2, <2>3
<1>7. ASSUME NEW r \in Streams, StartProducer(r)
      PROVE  QueueAt(x)'
  <2>1. r \in ToSet(pending)
    BY <1>7, StartJobServes DEF StartProducer, IInv, PoolInv
  <2>2. /\ running' = running \cup {r}
        /\ UNCHANGED <<queue, sent, steps, cancelled>>
    BY <1>7 DEF StartProducer, StartJob, handlerVars
  <2>3. QED
    BY <1>1, <1>2, <2>1, <2>2 DEF PoolAt
<1>8. ASSUME NEW r \in Streams, StartStep(r)
      PROVE  QueueAt(x)'
  BY <1>2, <1>8 DEF StartStep, gateVars, handlerVars
<1>9. ASSUME NEW r \in Streams, PublishStep(r) \/ EndOfSteps(r) \/ Raise(r)
      PROVE  QueueAt(x)'
  <2>1. r \in running
    BY <1>9 DEF PublishStep, EndOfSteps, Raise, IInv, TypeOK
  <2>2. PICK item : queue' = [queue EXCEPT ![r] = Append(queue[r], item)] /\
             \/ item = produced[r] + 1 /\ r \in burning
             \/ /\ item \in {NoMore, Failed} /\ r \notin running'
                /\ item = NoMore /\ ~cancelled[r] => produced[r] = steps[r]
    BY <1>9, StreamAssumption DEF PublishStep, EndOfSteps, Raise, Publish, EndJob
  <2>3. /\ UNCHANGED <<sent, steps, cancelled>>
        /\ running' \subseteq running
    BY <1>9 DEF PublishStep, EndOfSteps, Raise, EndJob, handlerVars, gateVars
  <2>4. CASE x = r
    <3>1. /\ item \in Nat \cup {NoMore, Failed}
          /\ queue'[r] = Append(queue[r], item)
          /\ r \in burning => produced[r] < steps[r]
      BY <1>1, <2>2, <2>4 DEF TypeOK, PoolAt
    <3>2. QED
      BY <2>1, <2>2, <2>3, <2>4, <3>1, QueueAppend
  <2>5. CASE x # r
    BY <1>1, <1>2, <2>2, <2>3, <2>5 DEF TypeOK
  <2>6. QED
    BY <2>4, <2>5
<1>10. CASE UNCHANGED vars
  BY <1>2, <1>10 DEF vars, gateVars, handlerVars
<1>11. QED
  BY <1>3, <1>4, <1>5, <1>6, <1>7, <1>8, <1>9, <1>10
  DEF Next, Handler, Producer, Quiet

------------------------------------------------------------------------------

\* Every variable keeps its type.
LEMMA TypeStep ==
  ASSUME IInv, [Next]_vars
  PROVE  TypeOK'
<1>1. /\ permits' \in 0..MaxConcurrentRpcs
      /\ waiters' \in Seq(Streams) /\ woken' \subseteq Streams
      /\ pending' \in Seq(Streams) /\ running' \subseteq Streams
      /\ burning' \subseteq running'
  BY SemaphoreStep, PoolStep DEF SemaphoreInv, SemaphoreServes, PoolInv, PoolServes
<1> DEFINE Rest ==
      /\ live' \subseteq Streams
      /\ pc' \in [Streams -> {"idle", "wait", "get", "yield", "orphan", "done"}]
      /\ outcome' \in [Streams -> Codes]
      /\ steps' \in [Streams -> 0..MaxSteps]
      /\ cumulative' \in [Streams -> Int]
      /\ sent' \in [Streams -> Seq([step : Nat, cumulative : Int, final : BOOLEAN])]
      /\ queue' \in [Streams -> Seq(Nat \cup {NoMore, Failed})]
      /\ cancelled' \in [Streams -> BOOLEAN]
      /\ produced' \in [Streams -> Nat]
<1> SUFFICES Rest
  BY <1>1 DEF TypeOK
<1>2. TypeOK
  BY DEF IInv
<1>3. ASSUME NEW r \in Streams, Refuse(r) \/ Reject(r) \/ Proceed(r) \/ Written(r)
                                \/ HangUp(r) \/ Finalize(r)
      PROVE  Rest
  BY <1>2, <1>3 DEF TypeOK, Refuse, Reject, Proceed, Written, HangUp, HangUpAsleep,
                    HangUpWoken, HangUpAtGet, HangUpAtYield, Finalize, LeaveBlock,
                    GoTo, End, Codes, Failures, gateVars, producerVars
<1>4. ASSUME NEW r \in Streams, Enter(r)
      PROVE  Rest
  <2>1. PICK n \in RequestedSteps : steps' = [steps EXCEPT ![r] = Clamp(n)]
    BY <1>4 DEF Enter
  <2>2. Clamp(n) \in 0..MaxSteps
    BY StreamAssumption DEF Clamp
  <2>3. QED
    BY <1>2, <1>4, <2>1, <2>2 DEF TypeOK, Enter, GoTo, producerVars
<1>5. ASSUME NEW r \in Streams, TakeDelta(r)
      PROVE  Rest
  <2> DEFINE k == Len(sent[r]) + 1
             d == Delta(r, k, cumulative[r] + Value[k])
  <2>1. /\ sent' = [sent EXCEPT ![r] = Append(sent[r], d)]
        /\ Append(sent[r], d) \in Seq(DeltaType)
        /\ Head(queue[r]) = k /\ cumulative[r] + Value[k] \in Int
    BY <1>5, TakenDelta
  <2>2. /\ queue' = [queue EXCEPT ![r] = Tail(queue[r])] /\ queue[r] # <<>>
        /\ cumulative' = [cumulative EXCEPT ![r] = cumulative[r] + Value[k]]
        /\ pc' = [pc EXCEPT ![r] = "yield"]
        /\ UNCHANGED <<live, outcome, steps, cancelled, produced>>
    BY <1>5, <2>1 DEF TakeDelta, GoTo, gateVars, producerVars
  <2> HIDE DEF k, d
  <2>3. Tail(queue[r]) \in Seq(Nat \cup {NoMore, Failed})
    BY <1>2, <2>2, HeadTailProperties DEF TypeOK
  <2>4. sent' \in [Streams -> Seq(DeltaType)]
    BY <1>2, <2>1 DEF TypeOK, DeltaType
  <2>5. QED
    BY <1>2, <2>1, <2>2, <2>3, <2>4 DEF TypeOK, DeltaType
<1>6. ASSUME NEW r \in Streams, TakeEnd(r) \/ TakeFailure(r)
      PROVE  Rest
  <2>1. queue[r] # <<>> /\ queue' = [queue EXCEPT ![r] = Tail(queue[r])]
    BY <1>6 DEF TakeEnd, TakeFailure, TakeLast
  <2>2. Tail(queue[r]) \in Seq(Nat \cup {NoMore, Failed})
    BY <1>2, <2>1, HeadTailProperties DEF TypeOK
  <2>3. QED
    BY <1>2, <1>6, <2>1, <2>2 DEF TypeOK, TakeEnd, TakeFailure, TakeLast, LeaveBlock,
       GoTo, End, Codes, Failures, producerVars
<1>7. ASSUME NEW r \in Streams, StartProducer(r) \/ StartStep(r)
      PROVE  Rest
  BY <1>2, <1>7 DEF TypeOK, StartProducer, StartStep, handlerVars, gateVars, producerVars
<1>8. ASSUME NEW r \in Streams, PublishStep(r) \/ EndOfSteps(r) \/ Raise(r)
      PROVE  Rest
  <2>1. PICK item \in Nat \cup {NoMore, Failed} :
               queue' = [queue EXCEPT ![r] = Append(queue[r], item)]
    <3>1. produced[r] + 1 \in Nat
      BY <1>2 DEF TypeOK
    <3>2. QED
      BY <1>8, <3>1 DEF PublishStep, EndOfSteps, Raise, Publish
  <2>2. Append(queue[r], item) \in Seq(Nat \cup {NoMore, Failed})
    BY <1>2, AppendProperties DEF TypeOK
  <2>3. /\ UNCHANGED <<live, handlerVars, cancelled>>
        /\ produced' = produced \/ produced' = [produced EXCEPT ![r] = @ + 1]
    BY <1>8 DEF PublishStep, EndOfSteps, Raise, gateVars, producerVars
  <2>4. queue' \in [Streams -> Seq(Nat \cup {NoMore, Failed})]
    BY <1>2, <2>1, <2>2 DEF TypeOK
  <2>5. produced' \in [Streams -> Nat]
    <3>1. produced \in [Streams -> Nat] /\ produced[r] + 1 \in Nat
      BY <1>2 DEF TypeOK
    <3>2. QED
      BY <2>3, <3>1
  <2>6. QED
    BY <1>2, <2>3, <2>4, <2>5 DEF TypeOK, handlerVars
<1>9. CASE UNCHANGED vars
  BY <1>2, <1>9 DEF TypeOK, vars, gateVars, handlerVars, producerVars
<1>10. QED
  BY <1>3, <1>4, <1>5, <1>6, <1>7, <1>8, <1>9 DEF Next, Handler, Producer, Quiet

------------------------------------------------------------------------------

\* Before the first RPC arrives everything agrees.
LEMMA InitEstablishes == Init => IInv
<1> SUFFICES ASSUME Init PROVE IInv
  OBVIOUS
<1>1. MaxConcurrentRpcs \in Nat \ {0} /\ MaxWorkers \in Nat \ {0} /\ MaxSteps \in Nat
  BY GateAssumption, StreamAssumption
<1>2. /\ IsFiniteSet({}) /\ Cardinality({}) = 0
      /\ ToSet(<<>>) = {} /\ IsInjective(<<>>)
  BY FS_EmptySet DEF ToSet, IsInjective
<1>3. TypeOK
  BY <1>1 DEF Init, GateInit, TypeOK, Codes
<1>4. SemaphoreInv
  <2>1. InBlock = {} /\ {r \in Streams : pc[r] = "wait"} = {} /\ woken = {}
    BY DEF Init, GateInit, InBlock
  <2>2. woken \cup InBlock = {} /\ permits = MaxConcurrentRpcs /\ waiters = <<>>
    BY <2>1 DEF Init, GateInit
  <2>3. SemaphoreServes(Streams, {}, {})
    BY <1>1, <1>2, <2>1, <2>2 DEF SemaphoreServes
  <2>4. QED
    BY <2>1, <2>3 DEF SemaphoreInv
<1>5. PoolInv
  BY <1>1, <1>2 DEF Init, GateInit, PoolInv, PoolServes, PoolAt, Jobs
<1>6. HandlerInv
  BY DEF Init, GateInit, HandlerInv, HandlerAt
<1>7. QueueInv
  BY DEF Init, QueueInv, QueueAt
<1>8. QED
  BY <1>3, <1>4, <1>5, <1>6, <1>7 DEF IInv

\* In every reachable state the semaphore, the pool, the handlers and the
\* queues agree.
THEOREM Invariance == Spec => []IInv
<1>1. Init => IInv
  BY InitEstablishes
<1>2. IInv /\ [Next]_vars => IInv'
  BY TypeStep, SemaphoreStep, PoolStep, HandlerStep, QueueStep DEF IInv
<1>3. QED
  BY <1>1, <1>2, PTL DEF Spec

\* Every variable stays in its type.
THEOREM TypeCorrect == Spec => []TypeOK
<1>1. IInv => TypeOK
  BY DEF IInv
<1>2. QED
  BY <1>1, Invariance, PTL

\* However handlers leave the block, no permit is lost and none is invented.
THEOREM PermitsConserved == Spec => []PermitConservation
<1>1. IInv => PermitConservation
  BY DEF IInv, SemaphoreInv, SemaphoreServes, PermitConservation, Holders
<1>2. QED
  BY <1>1, Invariance, PTL

\* No RPC is left asleep beside a free permit.
THEOREM NoPermitStranded == Spec => []NoStrandedPermit
<1>1. Init => NoStrandedPermit
  BY DEF Init, GateInit, NoStrandedPermit
<1>2. NoStrandedPermit /\ [Next]_vars => NoStrandedPermit'
  <2> SUFFICES ASSUME NoStrandedPermit, [Next]_vars
               PROVE  NoStrandedPermit'
    OBVIOUS
  <2>1. ASSUME NEW r \in Streams, Enter(r) \/ Proceed(r) \/ HangUp(r) \/ Finalize(r)
                                  \/ TakeEnd(r) \/ TakeFailure(r)
        PROVE  NoStrandedPermit'
    <3>1. \/ Acquire \/ Park(r) \/ Resumed(r) \/ Release
          \/ LeaveAsleep(r) \/ LeaveWoken(r) \/ UNCHANGED semaphore
      BY <2>1 DEF Enter, Proceed, HangUp, HangUpAsleep, HangUpWoken, HangUpAtGet,
                  HangUpAtYield, Finalize, TakeEnd, TakeFailure, TakeLast, LeaveBlock
    <3>2. QED
      BY <3>1, NothingStranded
  <2>2. ASSUME NEW r \in Streams, Refuse(r) \/ Reject(r) \/ TakeDelta(r) \/ Written(r)
                                  \/ StartProducer(r) \/ Producer(r) \/ Raise(r)
        PROVE  NoStrandedPermit'
    BY <2>2, NothingStranded
    DEF Refuse, Reject, TakeDelta, Written, StartProducer, Producer, StartStep,
        PublishStep, EndOfSteps, Raise, gateVars, semaphore
  <2>3. CASE UNCHANGED vars
    BY <2>3, NothingStranded DEF vars, gateVars, semaphore
  <2>4. QED
    BY <2>1, <2>2, <2>3 DEF Next, Handler, Quiet
<1>3. QED
  BY <1>1, <1>2, PTL DEF Spec

\* The queue without bound never holds more than the clamped number of steps
\* and a marker, however slow the consumer.
THEOREM BacklogIsBounded == Spec => []BacklogBounded
<1>1. IInv => BacklogBounded
  <2> SUFFICES ASSUME IInv, NEW r \in Streams
               PROVE  Len(queue[r]) <= MaxSteps + 1
    BY DEF BacklogBounded
  <2>1. PICK n : n = Len(queue[r])
    OBVIOUS
  <2>2. /\ n \in Nat /\ DOMAIN queue[r] = 1..n /\ Len(sent[r]) \in Nat
        /\ steps[r] \in 0..MaxSteps /\ MaxSteps \in Nat
    BY <2>1, LenProperties, StreamAssumption DEF IInv, TypeOK
  <2>3. CASE n > 1
    <3>1. n - 1 \in DOMAIN queue[r] /\ n - 1 # n
      BY <2>2, <2>3
    <3>2. IsStep(r, n - 1)
      BY <2>1, <3>1 DEF IInv, QueueInv, QueueAt, IsMarker
    <3>3. Len(sent[r]) + (n - 1) <= steps[r]
      BY <3>2 DEF IsStep
    <3>4. n <= MaxSteps + 1
      BY <2>2, <3>3
    <3>5. QED
      BY <2>1, <3>4
  <2>4. CASE n <= 1
    BY <2>1, <2>2, <2>4
  <2>5. QED
    BY <2>2, <2>3, <2>4
<1>2. QED
  BY <1>1, Invariance, PTL

\* Once its handler is gone a producer begins no other step.
THEOREM AbandonedStops == Spec => NoStepAfterEnd
<1>1. IInv /\ [Next]_vars =>
        [\A r \in Streams : r \in burning' \ burning => pc[r] # "done"]_vars
  <2> SUFFICES ASSUME IInv, Next, NEW r \in Streams, r \in burning' \ burning
               PROVE  pc[r] # "done"
    OBVIOUS
  <2>1. StartStep(r)
    BY DEF Next, Refuse, Reject, Enter, Handler, Proceed, TakeDelta, Written, TakeEnd,
           TakeFailure, TakeLast, Finalize, HangUp, HangUpAsleep, HangUpWoken,
           HangUpAtGet, HangUpAtYield, StartProducer, Producer, StartStep, PublishStep,
           EndOfSteps, Raise, Quiet, vars, producerVars
  <2>2. r \in Jobs /\ ~cancelled[r]
    BY <2>1 DEF StartStep, Jobs
  <2>3. QED
    BY <2>2 DEF IInv, PoolInv, PoolAt
<1>2. QED
  BY <1>1, Invariance, PTL DEF Spec, NoStepAfterEnd


\* With at most as many threads as permits the steps that burn CPU at once are no
\* more than the permits, which is what service.py:45-46 wants of `_inflight`: the
\* pool is the bound.  stream_inflight shows that the hypothesis is needed.
THEOREM InflightBoundedByPool ==
  ASSUME MaxWorkers <= MaxConcurrentRpcs
  PROVE  Spec => []InflightBound
<1>1. IInv => InflightBound
  <2> SUFFICES ASSUME IInv PROVE InflightBound
    OBVIOUS
  <2>1. /\ burning \subseteq running /\ IsFiniteSet(running)
        /\ Cardinality(running) <= MaxWorkers
    BY DEF IInv, TypeOK, PoolInv, PoolServes
  <2>2. /\ IsFiniteSet(burning) /\ Cardinality(burning) <= Cardinality(running)
        /\ Cardinality(burning) \in Nat /\ Cardinality(running) \in Nat
    BY <2>1, FS_Subset, FS_CardinalityType
  <2>3. MaxWorkers \in Nat /\ MaxConcurrentRpcs \in Nat
    BY GateAssumption
  <2>4. QED
    BY <2>1, <2>2, <2>3 DEF InflightBound
<1>2. QED
  BY <1>1, Invariance, PTL

------------------------------------------------------------------------------

\* A handler that takes the end of its queue has sent every delta.
LEMMA EndMeansAllSent ==
  ASSUME IInv, NEW r \in Streams, TakeEnd(r)
  PROVE  outcome[r] = "none" /\ steps[r] > 0 /\ Len(sent[r]) = steps[r]
<1>1. /\ pc[r] = "get" /\ queue[r] # <<>> /\ Head(queue[r]) = NoMore
      /\ HandlerAt(r) /\ QueueAt(r) /\ TypeOK
      /\ NoMore \notin Nat /\ NoMore # Failed /\ MaxSteps \in Nat
  BY StreamAssumption DEF TakeEnd, TakeLast, IInv, HandlerInv, QueueInv
<1>2. outcome[r] = "none" /\ steps[r] \in Nat \ {0} /\ ~cancelled[r]
  BY <1>1 DEF HandlerAt, TypeOK
<1>3. 1 \in DOMAIN queue[r] /\ queue[r][1] = NoMore /\ Len(sent[r]) \in Nat
  BY <1>1, EmptySeq, LenProperties DEF TypeOK
<1>4. IsMarker(r, 1)
  <2>1. IsStep(r, 1) \/ IsMarker(r, 1)
    BY <1>1, <1>3, Zenon DEF QueueAt
  <2>2. ~IsStep(r, 1)
    BY <1>1, <1>3 DEF IsStep
  <2>3. QED
    BY <2>1, <2>2
<1>5. Len(sent[r]) + 1 = steps[r] + 1
  BY <1>2, <1>3, <1>4 DEF IsMarker
<1>6. QED
  BY <1>2, <1>3, <1>5

\* The stream a client sees is the one proto/prediction.proto promises: deltas
\* 1, 2, ... with their running sums, the last of them final, OK only after it.
THEOREM ImplementsContract == Spec => KeepsContract
<1>1. Init => Contract!Init
  BY DEF Init, Contract!Init
<1>2. IInv /\ [Next]_vars => [Contract!Next]_<<steps, sent, outcome>>
  <2> SUFFICES ASSUME IInv, [Next]_vars
               PROVE  Contract!Next \/ UNCHANGED <<steps, sent, outcome>>
    OBVIOUS
  <2>1. ASSUME NEW r \in Streams, Refuse(r) \/ Reject(r) \/ HangUp(r) \/ TakeFailure(r)
        PROVE  Contract!Break(r)
    <3>1. outcome[r] = "none"
      BY <2>1 DEF IInv, HandlerInv, HandlerAt, Refuse, Reject, HangUp, HangUpAsleep,
                  HangUpWoken, HangUpAtGet, HangUpAtYield, TakeFailure, TakeLast
    <3>2. QED
      BY <2>1, <3>1
      DEF Contract!Break, Refuse, Reject, HangUp, HangUpAsleep, HangUpWoken,
          HangUpAtGet, HangUpAtYield, TakeFailure, TakeLast, End
  <2>2. ASSUME NEW r \in Streams, Enter(r)
        PROVE  Contract!Open(r)
    <3>1. PICK n \in RequestedSteps : steps' = [steps EXCEPT ![r] = Clamp(n)]
      BY <2>2 DEF Enter
    <3>2. Clamp(n) \in 1..MaxSteps
      BY StreamAssumption DEF Clamp
    <3>3. outcome[r] = "none" /\ steps[r] = 0
      BY <2>2 DEF IInv, HandlerInv, HandlerAt, Enter
    <3>4. QED
      BY <2>2, <3>1, <3>2, <3>3 DEF Contract!Open, Enter
  <2>3. ASSUME NEW r \in Streams, TakeDelta(r)
        PROVE  Contract!Deliver(r)
    <3> DEFINE k == Len(sent[r]) + 1
               d == Delta(r, k, cumulative[r] + Value[k])
    <3>1. /\ sent' = [sent EXCEPT ![r] = Append(sent[r], d)]
          /\ k \in 1..steps[r]
      BY <2>3, TakenDelta
    <3>2. outcome[r] = "none" /\ Len(sent[r]) \in Nat /\ steps[r] \in Nat
          /\ sent[r] \in Seq(DeltaType) /\ cumulative[r] \in Int
      BY <2>3, LenProperties, StreamAssumption
      DEF TakeDelta, IInv, HandlerInv, HandlerAt, TypeOK, DeltaType
    <3>3. cumulative[r] = IF k = 1 THEN 0 ELSE sent[r][k - 1].cumulative
      <4>1. sent[r] = <<>> <=> Len(sent[r]) = 0
        BY <3>2, EmptySeq
      <4>2. cumulative[r] = IF sent[r] = <<>> THEN 0
                            ELSE sent[r][Len(sent[r])].cumulative
        BY DEF IInv, HandlerInv, HandlerAt
      <4>3. k - 1 = Len(sent[r]) /\ (k = 1 <=> Len(sent[r]) = 0)
        BY <3>2
      <4>4. QED
        BY <4>1, <4>2, <4>3, Zenon
    <3>4. d = Contract!Delta(r, Len(sent[r]) + 1)
      <4>1. Value[k] \in Int
        BY <2>3, TakenDelta, StreamAssumption
      <4>2. cumulative[r] + Value[k] = Value[k] + cumulative[r]
        BY <3>2, <4>1
      <4>3. QED
        BY <3>3, <4>2, Zenon DEF Delta, Contract!Delta
    <3>5. Len(sent[r]) < steps[r] /\ UNCHANGED <<steps, outcome>>
      BY <2>3, <3>1, <3>2 DEF TakeDelta
    <3> HIDE DEF d
    <3>6. QED
      BY <3>1, <3>2, <3>4, <3>5, Zenon DEF Contract!Deliver
  <2>4. ASSUME NEW r \in Streams, TakeEnd(r)
        PROVE  Contract!Complete(r)
    BY <2>4, EndMeansAllSent DEF Contract!Complete, TakeEnd, TakeLast, End
  <2>5. ASSUME NEW r \in Streams, Proceed(r) \/ Written(r) \/ Finalize(r)
                                  \/ StartProducer(r) \/ Producer(r) \/ Raise(r)
        PROVE  UNCHANGED <<steps, sent, outcome>>
    BY <2>5 DEF Proceed, Written, Finalize, StartProducer, Producer, StartStep,
                PublishStep, EndOfSteps, Raise, handlerVars
  <2>6. CASE UNCHANGED vars
    BY <2>6 DEF vars, handlerVars
  <2>7. QED
    BY <2>1, <2>2, <2>3, <2>4, <2>5, <2>6
    DEF Next, Handler, Quiet, Contract!Next
<1>3. QED
  BY <1>1, <1>2, Invariance, PTL DEF Spec, KeepsContract, Contract!Spec

\* What the contract means for a caller (DeltaStream_proofs), for this one.
ContractMeaning == INSTANCE DeltaStream_proofs WITH total <- steps

\* The deltas a caller was given are 1, 2, ... without a gap, and after OK it has
\* all of them, whatever the threads, the queue and the cancellations did.
THEOREM CallerGetsWhatIsPromised == Spec => []Contract!Promise
<1>1. MaxSteps \in Nat /\ \A k \in 1..MaxSteps : Value[k] \in Int
  BY StreamAssumption
<1>2. ContractMeaning!Spec => []ContractMeaning!Promise
  BY <1>1, ContractMeaning!PromiseKept
<1>3. KeepsContract => ContractMeaning!Spec
  BY DEF KeepsContract, Contract!Spec, ContractMeaning!Spec, Contract!Init,
         ContractMeaning!Init, Contract!Next, ContractMeaning!Next, Contract!Open,
         ContractMeaning!Open, Contract!Deliver, ContractMeaning!Deliver,
         Contract!Delta, ContractMeaning!Delta, Contract!Complete,
         ContractMeaning!Complete, Contract!Break, ContractMeaning!Break
<1>4. ContractMeaning!Promise => Contract!Promise
  BY DEF ContractMeaning!Promise, ContractMeaning!PromiseAt, ContractMeaning!Delta,
         Contract!Promise, Contract!PromiseAt, Contract!Delta
<1>5. QED
  BY <1>2, <1>3, <1>4, ImplementsContract, PTL

==============================================================================
