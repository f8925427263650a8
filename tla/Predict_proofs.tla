---------------------------- MODULE Predict_proofs ----------------------------
(* For any number of calls, streams, permits, workers, requests and
   configurations: the unary RPC conserves the permits it shares with the
   streams, starts no abandoned inference, fails open, and never answers with
   the result of another request.  Each part of the invariant IInv has a lemma,
   with one step per action or group of actions.                            *)
EXTENDS Predict, InferenceGate_proofs

\* The parked RPCs.
Parked == {c \in Calls : pc[c] = "wait"}

\* The gate serves these RPCs: what the lemmas about its operations conclude.
LEMMA SemaphoreInvFrom ==
  ASSUME NEW P, NEW B, SemaphoreServes(Calls, P, B)', P = Parked', B = InBlock'
  PROVE  SemaphoreInv'
BY DEF SemaphoreInv, SemaphoreServes, Parked

\* Waiters, woken RPCs and permits agree with where the calls and the streams
\* are.
LEMMA SemaphoreStep ==
  ASSUME IInv, [Next]_vars
  PROVE  SemaphoreInv'
<1>0. PICK P, B : P = Parked /\ B = InBlock
  OBVIOUS
<1>1. /\ SemaphoreServes(Calls, P, B)
      /\ pc \in [Calls -> {"idle", "wait", "get", "infer", "set", "done"}]
      /\ stream \in [Streams -> {"idle", "inside", "orphan", "done"}]
      /\ Calls \cap Streams = {}
      /\ P \subseteq Calls
  BY <1>0, PredictAssumption DEF IInv, TypeOK, SemaphoreInv, Parked
<1>2. P \cap B = {}
  BY <1>0, <1>1 DEF Parked, InBlock
<1>3. ASSUME UNCHANGED semaphore, Parked' = P, InBlock' = B
      PROVE  SemaphoreInv'
  BY <1>1, <1>3 DEF semaphore, SemaphoreInv, SemaphoreServes, Parked
\* A call moves to another place on the same side of the semaphore.
<1>4. ASSUME NEW c \in Calls, NEW place, UNCHANGED <<semaphore, stream>>,
             pc' = [pc EXCEPT ![c] = place],
             \/ pc[c] = "idle" /\ place = "done"
             \/ pc[c] \in {"get", "infer"} /\ place \in {"infer", "set"}
      PROVE  SemaphoreInv'
  <2>1. Parked' = P /\ InBlock' = B
    BY <1>0, <1>1, <1>4 DEF Parked, InBlock
  <2>2. QED
    BY <1>3, <1>4, <2>1
\* A call leaves the block.
<1>5. ASSUME NEW c \in Calls, Release, pc[c] \in {"get", "infer", "set"},
             pc' = [pc EXCEPT ![c] = "done"], UNCHANGED stream
      PROVE  SemaphoreInv'
  <2>1. c \in B
    BY <1>0, <1>5 DEF InBlock
  <2>2. SemaphoreServes(Calls, P, B \ {c})'
    BY <1>1, <1>2, <1>5, <2>1, ReleaseServes
  <2>3. Parked' = P
    BY <1>0, <1>1, <1>5 DEF Parked
  <2>4. InBlock' = B \ {c}
    BY <1>0, <1>1, <1>5 DEF InBlock
  <2>5. QED
    BY <2>2, <2>3, <2>4, SemaphoreInvFrom
<1>6. ASSUME NEW c \in Calls, Refuse(c) \/ Reject(c)
      PROVE  SemaphoreInv'
  BY <1>4, <1>6 DEF Refuse, Reject, End, GoTo, sidecar
<1>7. ASSUME NEW c \in Calls, Enter(c)
      PROVE  SemaphoreInv'
  <2>1. pc[c] = "idle" /\ c \notin P /\ c \notin B /\ stream' = stream
    BY <1>0, <1>1, <1>7 DEF Enter, Parked, InBlock, sidecar
  <2>2. CASE Acquire /\ GoTo(c, "get")
    <3>1. SemaphoreServes(Calls, P, B \cup {c})'
      BY <1>1, <2>1, <2>2, AcquireServes
    <3>2. Parked' = P
      BY <1>0, <1>1, <2>1, <2>2 DEF Parked, GoTo
    <3>3. InBlock' = B \cup {c}
      BY <1>0, <1>1, <2>1, <2>2 DEF InBlock, GoTo
    <3>4. QED
      BY <3>1, <3>2, <3>3, SemaphoreInvFrom
  <2>3. CASE Park(c) /\ GoTo(c, "wait")
    <3>1. SemaphoreServes(Calls, P \cup {c}, B)'
      BY <1>1, <2>1, <2>3, ParkServes
    <3>2. Parked' = P \cup {c}
      BY <1>0, <1>1, <2>1, <2>3 DEF Parked, GoTo
    <3>3. InBlock' = B
      BY <1>0, <1>1, <2>1, <2>3 DEF InBlock, GoTo
    <3>4. QED
      BY <3>1, <3>2, <3>3, SemaphoreInvFrom
  <2>4. QED
    BY <1>7, <2>2, <2>3 DEF Enter
<1>8. ASSUME NEW c \in Calls, Proceed(c)
      PROVE  SemaphoreInv'
  <2>1. SemaphoreServes(Calls, P \ {c}, B \cup {c})'
    BY <1>1, <1>2, <1>8, ResumedServes DEF Proceed
  <2>2. pc[c] = "wait" /\ pc' = [pc EXCEPT ![c] = "get"] /\ stream' = stream
    BY <1>8 DEF Proceed, GoTo, sidecar
  <2>3. Parked' = P \ {c}
    BY <1>0, <1>1, <2>2 DEF Parked
  <2>4. InBlock' = B \cup {c}
    BY <1>0, <1>1, <2>2 DEF InBlock
  <2>5. QED
    BY <2>1, <2>3, <2>4, SemaphoreInvFrom
<1>9. ASSUME NEW c \in Calls, Miss(c) \/ GetFails(c) \/ Discard(c)
      PROVE  SemaphoreInv'
  BY <1>4, <1>9 DEF Miss, GetFails, Discard, Compute, GoTo, sidecar
<1>10. ASSUME NEW c \in Calls, Collect(c)
       PROVE  SemaphoreInv'
  BY <1>4, <1>10 DEF Collect, GoTo, sidecar, gateVars, semaphore
<1>11. ASSUME NEW c \in Calls, \/ Hit(c) \/ GetRaises(c) \/ CollectFailure(c)
                               \/ Answer(c) \/ HangUpAtRedis(c) \/ HangUpAtInfer(c)
       PROVE  SemaphoreInv'
  BY <1>5, <1>11 DEF Hit, GetRaises, CollectFailure, Raises, Answer, HangUpAtRedis,
                     HangUpAtInfer, End, GoTo, sidecar
<1>12. ASSUME NEW c \in Calls, HangUpAsleep(c) \/ HangUpWoken(c)
       PROVE  SemaphoreInv'
  <2>1. /\ pc[c] = "wait" /\ pc' = [pc EXCEPT ![c] = "done"] /\ stream' = stream
        /\ LeaveAsleep(c) \/ LeaveWoken(c)
    BY <1>12 DEF HangUpAsleep, HangUpWoken, End, GoTo, sidecar
  <2>2. SemaphoreServes(Calls, P \ {c}, B)'
    BY <1>1, <1>2, <2>1, LeaveAsleepServes, LeaveWokenServes
  <2>3. Parked' = P \ {c}
    BY <1>0, <1>1, <2>1 DEF Parked
  <2>4. InBlock' = B
    BY <1>0, <1>1, <2>1 DEF InBlock
  <2>5. QED
    BY <2>2, <2>3, <2>4, SemaphoreInvFrom
<1>13. ASSUME UNCHANGED <<semaphore, pc, stream>>
       PROVE  SemaphoreInv'
  BY <1>0, <1>3, <1>13 DEF Parked, InBlock
<1>14. ASSUME NEW c \in Calls, \/ StartInference(c) \/ FinishInference(c)
                               \/ FailInference(c) \/ ExecuteSet(c) \/ LoseSet(c)
       PROVE  SemaphoreInv'
  <2>1. UNCHANGED <<semaphore, pc, stream>>
    BY <1>14 DEF StartInference, FinishInference, FailInference, Settle, ExecuteSet,
                 LoseSet, gateVars, semaphore, handlerVars, sidecar
  <2>2. QED
    BY <1>13, <2>1
<1>15. ASSUME NEW k \in Keys, Drop(k) \/ Overwrite(k)
       PROVE  SemaphoreInv'
  <2>1. UNCHANGED <<semaphore, pc, stream>>
    BY <1>15 DEF Drop, Overwrite, gateVars, semaphore, handlerVars, sidecar
  <2>2. QED
    BY <1>13, <2>1
<1>16. ASSUME NEW s \in Streams, StreamEnters(s)
       PROVE  SemaphoreInv'
  <2>1. /\ Acquire /\ stream[s] = "idle" /\ stream' = [stream EXCEPT ![s] = "inside"]
        /\ pc' = pc
    BY <1>16 DEF StreamEnters, MoveStream, handlerVars
  <2>2. s \notin P /\ s \notin B
    BY <1>0, <1>1, <2>1 DEF InBlock
  <2>3. SemaphoreServes(Calls, P, B \cup {s})'
    BY <1>1, <2>1, <2>2, AcquireServes
  <2>4. Parked' = P
    BY <1>0, <2>1 DEF Parked
  <2>5. InBlock' = B \cup {s}
    BY <1>0, <1>1, <2>1 DEF InBlock
  <2>6. QED
    BY <2>3, <2>4, <2>5, SemaphoreInvFrom
<1>17. ASSUME NEW s \in Streams, StreamAbandoned(s)
       PROVE  SemaphoreInv'
  <2>1. /\ UNCHANGED semaphore /\ stream[s] = "inside"
        /\ stream' = [stream EXCEPT ![s] = "orphan"] /\ pc' = pc
    BY <1>17 DEF StreamAbandoned, MoveStream, handlerVars
  <2>2. Parked' = P
    BY <1>0, <2>1 DEF Parked
  <2>3. InBlock' = B
    BY <1>0, <1>1, <2>1 DEF InBlock
  <2>4. QED
    BY <1>3, <2>1, <2>2, <2>3
<1>18. ASSUME NEW s \in Streams, StreamEnds(s) \/ StreamFinalized(s)
       PROVE  SemaphoreInv'
  <2>1. /\ Release /\ stream[s] \in {"inside", "orphan"}
        /\ stream' = [stream EXCEPT ![s] = "done"] /\ pc' = pc
    BY <1>18 DEF StreamEnds, StreamFinalized, MoveStream, handlerVars
  <2>2. s \in B
    BY <1>0, <2>1 DEF InBlock
  <2>3. SemaphoreServes(Calls, P, B \ {s})'
    BY <1>1, <1>2, <2>1, <2>2, ReleaseServes
  <2>4. Parked' = P
    BY <1>0, <2>1 DEF Parked
  <2>5. InBlock' = B \ {s}
    BY <1>0, <1>1, <2>1 DEF InBlock
  <2>6. QED
    BY <2>3, <2>4, <2>5, SemaphoreInvFrom
<1>19. CASE Restart
  <2>1. SemaphoreServes(Calls, {}, {})'
    BY <1>19, ResetServes DEF Restart
  <2>2. \A c \in Calls : pc'[c] \notin {"wait", "get", "infer", "set"}
    BY <1>1, <1>19 DEF Restart, InProgress
  <2>3. \A s \in Streams : stream'[s] \in {"idle", "done"}
    BY <1>1, <1>19 DEF Restart
  <2>4. Parked' = {} /\ InBlock' = {}
    BY <2>2, <2>3 DEF Parked, InBlock
  <2>5. QED
    BY <2>1, <2>4, SemaphoreInvFrom
<1>20. CASE UNCHANGED vars
  <2>1. UNCHANGED <<semaphore, pc, stream>>
    BY <1>20 DEF vars, gateVars, semaphore, handlerVars, sidecar
  <2>2. QED
    BY <1>13, <2>1
<1>21. QED
  BY <1>6, <1>7, <1>8, <1>9, <1>10, <1>11, <1>12, <1>14, <1>15, <1>16, <1>17,
     <1>18, <1>19, <1>20
  DEF Next, Handler, HangUp

------------------------------------------------------------------------------

Jobs == running \cup ToSet(pending)

\* The pool serves each call once; a queued job has a handler that waits for it.
LEMMA PoolStep ==
  ASSUME IInv, [Next]_vars
  PROVE  PoolInv'
<1>0. PICK J : J = Jobs
  OBVIOUS
<1>1. /\ PoolServes(Calls, J)
      /\ running \cap ToSet(pending) = {} /\ running \cup ToSet(pending) = J
      /\ \A x \in Calls : PoolAt(x)
  BY <1>0 DEF IInv, PoolInv, Jobs, PoolServes
<1>2. TypeOK
  BY DEF IInv
<1>3. ASSUME NEW K, PoolServes(Calls, K)', \A x \in Calls : PoolAt(x)'
      PROVE  PoolInv'
  <2>1. K = running' \cup ToSet(pending')
    BY <1>3 DEF PoolServes
  <2>2. QED
    BY <1>3, <2>1 DEF PoolInv, PoolServes
\* A call that has no job in the pool moves, or its result comes.
<1>4. ASSUME UNCHANGED pool, \A x \in Jobs : pc'[x] = pc[x] /\ result'[x] = result[x]
      PROVE  PoolInv'
  <2>1. UNCHANGED <<pending, running>>
    BY <1>4 DEF pool
  <2>2. PoolServes(Calls, J)'
    BY <1>1, <2>1 DEF PoolServes
  <2>3. ASSUME NEW x \in Calls
        PROVE  PoolAt(x)'
    BY <1>1, <1>4, <2>1, <2>3 DEF PoolAt, Jobs
  <2>4. QED
    BY <1>3, <2>2, <2>3
<1>5. ASSUME NEW c \in Calls, c \notin Jobs, NEW place, UNCHANGED pool,
             pc' = [pc EXCEPT ![c] = place],
             \A x \in Calls \ {c} : result'[x] = result[x]
      PROVE  PoolInv'
  <2>1. Jobs \subseteq Calls
    BY <1>0, <1>1 DEF PoolServes, ToSet
  <2>2. \A x \in Jobs : pc'[x] = pc[x] /\ result'[x] = result[x]
    BY <1>2, <1>5, <2>1 DEF TypeOK
  <2>3. QED
    BY <1>4, <1>5, <2>2
<1>6. ASSUME NEW c \in Calls, Refuse(c) \/ Reject(c) \/ Enter(c) \/ Proceed(c)
                              \/ HangUpAsleep(c) \/ HangUpWoken(c) \/ Hit(c)
                              \/ GetRaises(c) \/ Answer(c) \/ HangUpAtRedis(c)
      PROVE  PoolInv'
  <2>1. c \notin Jobs
    <3>1. pc[c] \in {"idle", "wait", "get", "set"}
      BY <1>6 DEF Refuse, Reject, Enter, Proceed, HangUpAsleep, HangUpWoken, Hit,
                  GetRaises, Answer, HangUpAtRedis
    <3>2. QED
      BY <1>1, <3>1 DEF PoolAt, Jobs
  <2>2. \E place : pc' = [pc EXCEPT ![c] = place]
    BY <1>6 DEF Refuse, Reject, Enter, Proceed, HangUpAsleep, HangUpWoken, Hit,
                GetRaises, Raises, Answer, HangUpAtRedis, End, GoTo
  <2>3. UNCHANGED pool
    BY <1>6 DEF Refuse, Reject, Enter, Proceed, HangUpAsleep, HangUpWoken, Hit,
                GetRaises, Raises, Answer, HangUpAtRedis, pool
  <2>4. \A x \in Calls \ {c} : result'[x] = result[x]
    BY <1>2, <1>6 DEF Refuse, Reject, Enter, Proceed, HangUpAsleep, HangUpWoken, Hit,
                      GetRaises, Raises, Answer, HangUpAtRedis, TypeOK
  <2>5. QED
    BY <1>5, <2>1, <2>2, <2>3, <2>4
<1>7. ASSUME NEW c \in Calls, Miss(c) \/ GetFails(c) \/ Discard(c)
      PROVE  PoolInv'
  <2>1. /\ Submit(c) /\ pc[c] = "get" /\ pc' = [pc EXCEPT ![c] = "infer"]
        /\ result' = result
    BY <1>7 DEF Miss, GetFails, Discard, Compute, GoTo
  <2>2. c \notin J /\ result[c] = NoValue
    BY <1>0, <1>1, <2>1 DEF PoolAt, Jobs, IInv, HandlerAt
  <2>3. PoolServes(Calls, J \cup {c})'
    BY <1>1, <2>1, <2>2, SubmitServes
  <2>4. running' = running /\ running' \cup ToSet(pending') = J \cup {c}
    BY <2>1, <2>3 DEF Submit, PoolServes
  <2>5. c \notin running' /\ pc'[c] = "infer" /\ result'[c] = NoValue
    BY <1>1, <1>2, <2>1, <2>2, <2>4 DEF TypeOK
  <2>6. PoolAt(c)'
    BY <2>5 DEF PoolAt
  <2>7. ASSUME NEW x \in Calls \ {c}
        PROVE  PoolAt(x)'
    <3>1. pc'[x] = pc[x] /\ result'[x] = result[x]
      BY <1>2, <2>1, <2>7 DEF TypeOK
    <3>2. x \in ToSet(pending') => x \in ToSet(pending)
      BY <1>1, <2>3, <2>4, <2>7 DEF PoolServes
    <3>3. QED
      BY <1>1, <2>4, <3>1, <3>2 DEF PoolAt
  <2>8. QED
    BY <1>3, <2>3, <2>6, <2>7
<1>8. ASSUME NEW c \in Calls, Collect(c) \/ CollectFailure(c)
      PROVE  PoolInv'
  <2>1. pc[c] = "infer" /\ result[c] # NoValue
    BY <1>8, PredictAssumption DEF Collect, CollectFailure
  <2>2. c \notin Jobs
    BY <1>1, <2>1 DEF PoolAt, Jobs
  <2>3. (\E place : pc' = [pc EXCEPT ![c] = place]) /\ UNCHANGED <<pool, result>>
    BY <1>8 DEF Collect, CollectFailure, Raises, End, GoTo, gateVars, pool
  <2>4. QED
    BY <1>5, <2>2, <2>3
<1>9. ASSUME NEW c \in Calls, HangUpAtInfer(c)
      PROVE  PoolInv'
  <2>1. /\ CancelJob(c) /\ pc' = [pc EXCEPT ![c] = "done"] /\ result' = result
    BY <1>9 DEF HangUpAtInfer, End, GoTo
  <2>2. /\ c \in ToSet(pending) => PoolServes(Calls, J \ {c})'
        /\ c \notin ToSet(pending) => PoolServes(Calls, J)'
        /\ running' = running /\ ToSet(pending') = ToSet(pending) \ {c}
    BY <1>1, <2>1, CancelJobServes
  <2>3. PICK K : PoolServes(Calls, K)'
    BY <2>2
  <2>4. ASSUME NEW x \in Calls
        PROVE  PoolAt(x)'
    <3>1. CASE x = c
      <4>1. x \notin ToSet(pending') /\ pc'[x] = "done"
        BY <1>2, <2>1, <2>2, <3>1 DEF TypeOK
      <4>2. QED
        BY <4>1 DEF PoolAt
    <3>2. CASE x # c
      <4>1. pc'[x] = pc[x] /\ result'[x] = result[x]
        BY <1>2, <2>1, <3>2 DEF TypeOK
      <4>2. QED
        BY <1>1, <2>2, <4>1 DEF PoolAt
    <3>3. QED
      BY <3>1, <3>2
  <2>5. QED
    BY <1>3, <2>3, <2>4
<1>10. ASSUME NEW c \in Calls, StartInference(c)
       PROVE  PoolInv'
  <2>1. StartJob(c) /\ UNCHANGED <<pc, result>>
    BY <1>10 DEF StartInference, handlerVars
  <2>2. /\ PoolServes(Calls, J)'
        /\ c \in ToSet(pending) /\ ToSet(pending') = ToSet(pending) \ {c}
        /\ running' = running \cup {c}
    BY <1>1, <2>1, StartJobServes DEF StartJob
  <2>3. ASSUME NEW x \in Calls
        PROVE  PoolAt(x)'
    BY <1>1, <2>1, <2>2 DEF PoolAt
  <2>4. QED
    BY <1>3, <2>2, <2>3
<1>11. ASSUME NEW c \in Calls, FinishInference(c) \/ FailInference(c)
       PROVE  PoolInv'
  <2>1. EndJob(c) /\ UNCHANGED pc
    BY <1>11 DEF FinishInference, FailInference, Settle
  <2>2. PoolServes(Calls, J \ {c})'
    BY <1>1, <2>1, EndJobServes
  <2>3. /\ c \in running /\ running' = running \ {c} /\ pending' = pending
    BY <2>1 DEF EndJob
  <2>4. ASSUME NEW x \in Calls
        PROVE  PoolAt(x)'
    <3>1. CASE x = c
      <4>1. x \notin running' /\ x \notin ToSet(pending')
        BY <1>1, <2>3, <3>1
      <4>2. QED
        BY <4>1 DEF PoolAt
    <3>2. CASE x # c
      <4>1. result'[x] = result[x]
        BY <1>2, <1>11, <3>2 DEF FinishInference, FailInference, Settle, TypeOK
      <4>2. QED
        BY <1>1, <2>1, <2>3, <4>1 DEF PoolAt
    <3>3. QED
      BY <3>1, <3>2
  <2>5. QED
    BY <1>3, <2>2, <2>4
<1>12. ASSUME UNCHANGED <<pool, pc, result>>
       PROVE  PoolInv'
  BY <1>4, <1>12
<1>13. ASSUME NEW c \in Calls, ExecuteSet(c) \/ LoseSet(c)
       PROVE  PoolInv'
  <2>1. UNCHANGED <<pool, pc, result>>
    BY <1>13 DEF ExecuteSet, LoseSet, gateVars, pool, handlerVars
  <2>2. QED
    BY <1>12, <2>1
<1>14. ASSUME NEW k \in Keys, Drop(k) \/ Overwrite(k)
       PROVE  PoolInv'
  <2>1. UNCHANGED <<pool, pc, result>>
    BY <1>14 DEF Drop, Overwrite, gateVars, pool, handlerVars
  <2>2. QED
    BY <1>12, <2>1
<1>15. ASSUME NEW s \in Streams, \/ StreamEnters(s) \/ StreamAbandoned(s)
                                 \/ StreamEnds(s) \/ StreamFinalized(s)
       PROVE  PoolInv'
  <2>1. UNCHANGED <<pool, pc, result>>
    BY <1>15 DEF StreamEnters, StreamAbandoned, StreamEnds, StreamFinalized,
                 MoveStream, pool, handlerVars
  <2>2. QED
    BY <1>12, <2>1
<1>16. CASE Restart
  <2>1. PoolServes(Calls, {})'
    BY <1>16, ResetServes DEF Restart
  <2>2. running' = {} /\ ToSet(pending') = {}
    BY <2>1 DEF PoolServes
  <2>3. \A x \in Calls : PoolAt(x)'
    BY <2>2 DEF PoolAt
  <2>4. QED
    BY <1>3, <2>1, <2>3
<1>17. CASE UNCHANGED vars
  <2>1. UNCHANGED <<pool, pc, result>>
    BY <1>17 DEF vars, gateVars, pool, handlerVars
  <2>2. QED
    BY <1>12, <2>1
<1>18. QED
  BY <1>6, <1>7, <1>8, <1>9, <1>10, <1>11, <1>13, <1>14, <1>15, <1>16, <1>17
  DEF Next, Handler, HangUp

------------------------------------------------------------------------------

\* What a handler has and has sent agrees with its place and its status.
LEMMA HandlerStep ==
  ASSUME IInv, [Next]_vars
  PROVE  \A x \in Calls : HandlerAt(x)'
<1> SUFFICES ASSUME NEW x \in Calls
             PROVE  HandlerAt(x)'
  OBVIOUS
<1>1. TypeOK /\ HandlerAt(x)
  BY DEF IInv
<1>2. ASSUME pc'[x] = pc[x], outcome'[x] = outcome[x], result'[x] = result[x],
             x \in writes' => x \in writes
      PROVE  HandlerAt(x)'
  BY <1>1, <1>2 DEF HandlerAt
<1>3. ASSUME NEW c \in Calls, x # c,
             pc' = pc \/ \E place : pc' = [pc EXCEPT ![c] = place],
             outcome' = outcome \/ \E code : outcome' = [outcome EXCEPT ![c] = code],
             result' = result \/ \E value : result' = [result EXCEPT ![c] = value],
             writes' \subseteq writes \cup {c}
      PROVE  HandlerAt(x)'
  <2>1. pc'[x] = pc[x] /\ outcome'[x] = outcome[x] /\ result'[x] = result[x]
    BY <1>1, <1>3 DEF TypeOK
  <2>2. QED
    BY <1>2, <1>3, <2>1
\* A handler ends, with a status that claims nothing about a result.
<1>4. ASSUME NEW c \in Calls, NEW code, code \notin {"none", "OK"}, End(c, code),
             code = "UNKNOWN" => result[c] = Failed \/ Undecodable # {},
             UNCHANGED <<result, writes>>
      PROVE  HandlerAt(x)'
  <2>1. CASE x = c
    <3>1. pc'[x] = "done" /\ outcome'[x] = code /\ result'[x] = result[x]
      BY <1>1, <1>4, <2>1 DEF End, GoTo, TypeOK
    <3>2. QED
      BY <1>1, <1>4, <2>1, <3>1 DEF HandlerAt
  <2>2. CASE x # c
    BY <1>3, <1>4, <2>2 DEF End, GoTo
  <2>3. QED
    BY <2>1, <2>2
<1>5. ASSUME NEW c \in Calls, \/ Refuse(c) \/ Reject(c) \/ HangUp(c)
      PROVE  HandlerAt(x)'
  BY <1>4, <1>5 DEF Refuse, Reject, HangUp, HangUpAsleep, HangUpWoken, HangUpAtRedis,
                    HangUpAtInfer
<1>6. ASSUME NEW c \in Calls, GetRaises(c)
      PROVE  HandlerAt(x)'
  <2>1. Undecodable # {}
    BY <1>6 DEF GetRaises
  <2>2. QED
    BY <1>4, <1>6, <2>1 DEF GetRaises, Raises
<1>7. ASSUME NEW c \in Calls, CollectFailure(c)
      PROVE  HandlerAt(x)'
  BY <1>4, <1>7 DEF CollectFailure, Raises
<1>8. ASSUME NEW c \in Calls, Hit(c)
      PROVE  HandlerAt(x)'
  <2>1. CASE x = c
    <3>1. /\ pc'[x] = "done" /\ outcome'[x] = "OK" /\ writes' = writes
          /\ result'[x] \in Values
      BY <1>1, <1>8, <2>1 DEF Hit, End, GoTo, TypeOK
    <3>2. QED
      BY <3>1 DEF HandlerAt
  <2>2. CASE x # c
    BY <1>3, <1>8, <2>2 DEF Hit, End, GoTo
  <2>3. QED
    BY <2>1, <2>2
<1>9. ASSUME NEW c \in Calls, Answer(c)
      PROVE  HandlerAt(x)'
  <2>1. CASE x = c
    <3>1. /\ pc'[x] = "done" /\ outcome'[x] = "OK" /\ writes' = writes
          /\ pc[x] = "set" /\ result'[x] = result[x]
      BY <1>1, <1>9, <2>1 DEF Answer, End, GoTo, TypeOK
    <3>2. QED
      BY <1>1, <3>1 DEF HandlerAt
  <2>2. CASE x # c
    BY <1>3, <1>9, <2>2 DEF Answer, End, GoTo
  <2>3. QED
    BY <2>1, <2>2
<1>10. ASSUME NEW c \in Calls, \/ Enter(c) \/ Proceed(c) \/ Miss(c) \/ GetFails(c)
                               \/ Discard(c)
       PROVE  HandlerAt(x)'
  <2>1. PICK place \in {"wait", "get", "infer"} : pc' = [pc EXCEPT ![c] = place]
    BY <1>10 DEF Enter, Proceed, Miss, GetFails, Discard, Compute, GoTo
  <2>2. UNCHANGED <<outcome, result, writes>> /\ pc[c] \in {"idle", "wait", "get"}
    BY <1>10 DEF Enter, Proceed, Miss, GetFails, Discard, Compute
  <2>3. CASE x = c
    <3>1. pc'[x] = place
      BY <1>1, <2>1, <2>3 DEF TypeOK
    <3>2. QED
      BY <1>1, <2>2, <2>3, <3>1 DEF HandlerAt
  <2>4. CASE x # c
    BY <1>3, <2>1, <2>2, <2>4
  <2>5. QED
    BY <2>3, <2>4
<1>11. ASSUME NEW c \in Calls, Collect(c)
       PROVE  HandlerAt(x)'
  <2>1. CASE x = c
    <3>1. /\ pc'[x] = "set" /\ UNCHANGED <<outcome, result>>
          /\ pc[x] = "infer" /\ result[x] \in Values
      BY <1>1, <1>11, <2>1 DEF Collect, GoTo, TypeOK
    <3>2. QED
      BY <1>1, <3>1 DEF HandlerAt
  <2>2. CASE x # c
    BY <1>3, <1>11, <2>2 DEF Collect, GoTo
  <2>3. QED
    BY <2>1, <2>2
<1>12. ASSUME NEW c \in Calls, FinishInference(c) \/ FailInference(c)
       PROVE  HandlerAt(x)'
  <2>1. UNCHANGED <<pc, outcome, writes>>
    BY <1>12 DEF FinishInference, FailInference, Settle
  <2>2. CASE x = c /\ pc[c] = "infer"
    BY <1>1, <2>1, <2>2 DEF HandlerAt
  <2>3. CASE x # c \/ pc[c] # "infer"
    <3>1. result'[x] = result[x]
      BY <1>1, <1>12, <2>3 DEF FinishInference, FailInference, Settle, TypeOK
    <3>2. QED
      BY <1>2, <2>1, <3>1
  <2>4. QED
    BY <2>2, <2>3
<1>13. ASSUME UNCHANGED handlerVars, writes' \subseteq writes
       PROVE  HandlerAt(x)'
  BY <1>2, <1>13 DEF handlerVars
<1>14. ASSUME NEW c \in Calls, StartInference(c) \/ ExecuteSet(c) \/ LoseSet(c)
       PROVE  HandlerAt(x)'
  BY <1>13, <1>14 DEF StartInference, ExecuteSet, LoseSet
<1>15. ASSUME NEW k \in Keys, Drop(k) \/ Overwrite(k)
       PROVE  HandlerAt(x)'
  BY <1>13, <1>15 DEF Drop, Overwrite
<1>16. ASSUME NEW s \in Streams, \/ StreamEnters(s) \/ StreamAbandoned(s)
                                 \/ StreamEnds(s) \/ StreamFinalized(s)
       PROVE  HandlerAt(x)'
  BY <1>13, <1>16 DEF StreamEnters, StreamAbandoned, StreamEnds, StreamFinalized,
                      MoveStream
<1>17. CASE Restart
  <2>1. UNCHANGED <<result, writes>>
    BY <1>17 DEF Restart
  <2>2. CASE x \in InProgress
    <3>1. pc'[x] = "done" /\ outcome'[x] = "UNAVAILABLE"
      BY <1>17, <2>2 DEF Restart
    <3>2. QED
      BY <1>1, <2>1, <3>1 DEF HandlerAt
  <2>3. CASE x \notin InProgress
    <3>1. pc'[x] = pc[x] /\ outcome'[x] = outcome[x]
      BY <1>17, <2>3 DEF Restart
    <3>2. QED
      BY <1>2, <2>1, <3>1
  <2>4. QED
    BY <2>2, <2>3
<1>18. CASE UNCHANGED vars
  BY <1>13, <1>18 DEF vars
<1>19. QED
  BY <1>5, <1>6, <1>7, <1>8, <1>9, <1>10, <1>11, <1>12, <1>14, <1>15, <1>16,
     <1>17, <1>18
  DEF Next, Handler

------------------------------------------------------------------------------

\* Requests with the same fingerprint have the same results: the key tells
\* apart everything the model computes from.
LEMMA SameFingerprint ==
  ASSUME NEW p, NEW q, Fingerprint(p) = Fingerprint(q), NEW conf
  PROVE  Infer(conf, p) = Infer(conf, q)
<1>1. p.input = q.input
  BY DEF Fingerprint
<1>2. QED
  BY <1>1 DEF Infer

\* A result, wherever it is kept, is one of the request it is kept for.
LEMMA CacheStep ==
  ASSUME IInv, [Next]_vars
  PROVE  CacheInv'
<1>1. TypeOK /\ CacheInv /\ \A c \in Calls : HandlerAt(c)
  BY DEF IInv
<1>2. ASSUME NEW c \in Calls, request' = request, result'[c] = result[c]
      PROVE  FreshAt(c)'
  BY <1>1, <1>2 DEF CacheInv, FreshAt
<1>3. ASSUME UNCHANGED <<request, result>>
      PROVE  \A c \in Calls : FreshAt(c)'
  BY <1>2, <1>3
<1> DEFINE EntriesFresh ==
      \A q \in Requests : redis'[Fingerprint(q)] \in Values =>
        \E conf \in Configs : redis'[Fingerprint(q)] = Infer(conf, q)
<1>4. ASSUME \A c \in Calls : FreshAt(c)', EntriesFresh
      PROVE  CacheInv'
  BY <1>4 DEF CacheInv
<1>5. ASSUME redis' = redis
      PROVE  EntriesFresh
  BY <1>1, <1>5 DEF CacheInv
\* An entry that is no result, or a result of the key's request, is stored.
<1>6. ASSUME NEW k \in Keys, NEW entry, Store(k, entry),
             \A q \in Requests :
               Fingerprint(q) = k /\ entry \in Values =>
                 \E conf \in Configs : entry = Infer(conf, q)
      PROVE  EntriesFresh
  <2> SUFFICES ASSUME NEW q \in Requests, redis'[Fingerprint(q)] \in Values
               PROVE  \E conf \in Configs : redis'[Fingerprint(q)] = Infer(conf, q)
    OBVIOUS
  <2>1. Fingerprint(q) \in Keys /\ redis' = [redis EXCEPT ![k] = entry]
    BY <1>6 DEF Keys, Store
  <2>2. redis'[Fingerprint(q)] = IF Fingerprint(q) = k THEN entry
                                                       ELSE redis[Fingerprint(q)]
    BY <1>1, <2>1 DEF TypeOK
  <2>3. QED
    BY <1>1, <1>6, <2>2 DEF CacheInv
<1> HIDE DEF EntriesFresh
<1>7. ASSUME NEW c \in Calls, Hit(c)
      PROVE  CacheInv'
  <2>1. /\ request' = request /\ redis' = redis /\ redis[Key(c)] \in Values
        /\ result' = [result EXCEPT ![c] = redis[Key(c)]]
    BY <1>7 DEF Hit, sidecar
  <2>2. request[c] \in Requests
    BY <1>1 DEF TypeOK
  <2>3. \E conf \in Configs : redis[Key(c)] = Infer(conf, request[c])
    BY <1>1, <2>1, <2>2 DEF CacheInv, Key
  <2>4. result'[c] = redis[Key(c)]
    BY <1>1, <2>1 DEF TypeOK
  <2>5. FreshAt(c)'
    BY <2>1, <2>3, <2>4 DEF FreshAt
  <2>6. \A x \in Calls \ {c} : result'[x] = result[x]
    BY <1>1, <2>1 DEF TypeOK
  <2>7. QED
    BY <1>2, <1>4, <1>5, <2>1, <2>5, <2>6
<1>8. ASSUME NEW c \in Calls, NEW value, Settle(c, value),
             value = Infer(config, request[c]) \/ value = Failed
      PROVE  CacheInv'
  <2>1. /\ request' = request /\ redis' = redis
        /\ result' = IF pc[c] = "infer" THEN [result EXCEPT ![c] = value] ELSE result
    BY <1>8 DEF Settle, sidecar
  <2>2. ASSUME NEW x \in Calls
        PROVE  FreshAt(x)'
    <3>1. CASE x = c /\ pc[c] = "infer"
      <4>1. result'[x] = value
        BY <1>1, <2>1, <3>1 DEF TypeOK
      <4>2. config \in Configs /\ Failed \notin Values
        BY <1>1, PredictAssumption DEF TypeOK
      <4>3. QED
        BY <1>8, <2>1, <3>1, <4>1, <4>2 DEF FreshAt
    <3>2. CASE x # c \/ pc[c] # "infer"
      <4>1. result'[x] = result[x]
        BY <1>1, <2>1, <3>2 DEF TypeOK
      <4>2. QED
        BY <1>2, <2>1, <4>1
    <3>3. QED
      BY <3>1, <3>2
  <2>3. QED
    BY <1>4, <1>5, <2>1, <2>2
<1>9. ASSUME NEW c \in Calls, FinishInference(c) \/ FailInference(c)
      PROVE  CacheInv'
  BY <1>8, <1>9 DEF FinishInference, FailInference
<1>10. ASSUME NEW c \in Calls, ExecuteSet(c)
       PROVE  CacheInv'
  <2>1. /\ UNCHANGED <<request, result>> /\ Store(Key(c), result[c])
        /\ result[c] \in Values
    BY <1>1, <1>10 DEF ExecuteSet, HandlerAt, sidecar, handlerVars
  <2>2. request[c] \in Requests /\ Key(c) \in Keys
    BY <1>1 DEF TypeOK, Key, Keys
  <2>3. PICK conf \in Configs : result[c] = Infer(conf, request[c])
    BY <1>1, <2>1 DEF CacheInv, FreshAt
  <2>4. ASSUME NEW q \in Requests, Fingerprint(q) = Key(c)
        PROVE  result[c] = Infer(conf, q)
    BY <2>3, <2>4, SameFingerprint DEF Key
  <2>5. EntriesFresh
    BY <1>6, <2>1, <2>2, <2>4
  <2>6. QED
    BY <1>3, <1>4, <2>1, <2>5
<1>11. ASSUME NEW k \in Keys, Drop(k) \/ Overwrite(k)
       PROVE  CacheInv'
  <2>1. UNCHANGED <<request, result>>
    BY <1>11 DEF Drop, Overwrite, sidecar, handlerVars
  <2>2. PICK entry : Store(k, entry) /\ entry \notin Values
    BY <1>11, PredictAssumption DEF Drop, Overwrite
  <2>3. EntriesFresh
    BY <1>6, <2>2
  <2>4. QED
    BY <1>3, <1>4, <2>1, <2>3
<1>12. ASSUME UNCHANGED <<request, result, redis>>
       PROVE  CacheInv'
  BY <1>3, <1>4, <1>5, <1>12
<1>13. ASSUME NEW c \in Calls, \/ Refuse(c) \/ Reject(c) \/ Enter(c) \/ Proceed(c)
                               \/ Miss(c) \/ GetFails(c) \/ Discard(c) \/ GetRaises(c)
                               \/ Collect(c) \/ CollectFailure(c) \/ Answer(c)
                               \/ StartInference(c) \/ LoseSet(c)
       PROVE  CacheInv'
  BY <1>12, <1>13
  DEF Refuse, Reject, Enter, Proceed, Miss, GetFails, Discard, Compute, GetRaises,
      Raises, Collect, CollectFailure, Answer, StartInference, LoseSet, sidecar,
      handlerVars
<1>14. ASSUME NEW c \in Calls, HangUp(c)
       PROVE  CacheInv'
  BY <1>12, <1>14
  DEF HangUp, HangUpAsleep, HangUpWoken, HangUpAtRedis, HangUpAtInfer, sidecar
<1>15. ASSUME NEW s \in Streams, \/ StreamEnters(s) \/ StreamAbandoned(s)
                                 \/ StreamEnds(s) \/ StreamFinalized(s)
       PROVE  CacheInv'
  BY <1>12, <1>15 DEF StreamEnters, StreamAbandoned, StreamEnds, StreamFinalized,
                      MoveStream, handlerVars
<1>16. CASE Restart
  BY <1>12, <1>16 DEF Restart
<1>17. CASE UNCHANGED vars
  BY <1>12, <1>17 DEF vars, handlerVars, sidecar
<1>18. QED
  BY <1>7, <1>9, <1>10, <1>11, <1>13, <1>14, <1>15, <1>16, <1>17 DEF Next, Handler

------------------------------------------------------------------------------

\* Every variable keeps its type.
LEMMA TypeStep ==
  ASSUME IInv, [Next]_vars
  PROVE  TypeOK'
<1>1. /\ permits' \in 0..MaxConcurrentRpcs
      /\ waiters' \in Seq(Calls) /\ woken' \subseteq Calls
      /\ pending' \in Seq(Calls) /\ running' \subseteq Calls
  BY SemaphoreStep, PoolStep DEF SemaphoreInv, SemaphoreServes, PoolInv, PoolServes
<1> DEFINE Places == {"idle", "wait", "get", "infer", "set", "done"}
           Results == Values \cup {NoValue, Failed}
           Entries == Values \cup Foreign \cup {NoValue}
           Rest ==
             /\ live' \subseteq Calls \cup Streams
             /\ pc' \in [Calls -> Places]
             /\ outcome' \in [Calls -> Codes]
             /\ request' \in [Calls -> Requests]
             /\ result' \in [Calls -> Results]
             /\ config' \in Configs
             /\ redis' \in [Keys -> Entries]
             /\ writes' \subseteq Calls
             /\ stream' \in [Streams -> {"idle", "inside", "orphan", "done"}]
<1> SUFFICES Rest
  BY <1>1 DEF TypeOK
<1>2. /\ live \subseteq Calls \cup Streams
      /\ pc \in [Calls -> Places]
      /\ outcome \in [Calls -> Codes]
      /\ request \in [Calls -> Requests]
      /\ result \in [Calls -> Results]
      /\ config \in Configs
      /\ redis \in [Keys -> Entries]
      /\ writes \subseteq Calls
      /\ stream \in [Streams -> {"idle", "inside", "orphan", "done"}]
  BY DEF IInv, TypeOK
<1> HIDE DEF Results, Entries
\* A call moves, ends, or has a result; nothing else of the sidecar changes.
<1>3. ASSUME NEW c \in Calls, NEW place \in Places, NEW code \in Codes,
             NEW value \in Results,
             live' \subseteq live \cup {c}, writes' \subseteq writes \cup {c},
             pc' = pc \/ pc' = [pc EXCEPT ![c] = place],
             outcome' = outcome \/ outcome' = [outcome EXCEPT ![c] = code],
             result' = result \/ result' = [result EXCEPT ![c] = value],
             UNCHANGED <<sidecar, redis>>
      PROVE  Rest
  <2>1. pc' \in [Calls -> Places]
    BY <1>2, <1>3
  <2>2. outcome' \in [Calls -> Codes]
    BY <1>2, <1>3
  <2>3. result' \in [Calls -> Results]
    BY <1>2, <1>3
  <2>4. QED
    BY <1>2, <1>3, <2>1, <2>2, <2>3 DEF sidecar
<1>4. ASSUME NEW c \in Calls, Refuse(c) \/ Reject(c) \/ HangUp(c) \/ Answer(c)
                              \/ GetRaises(c) \/ CollectFailure(c)
      PROVE  Rest
  <2>1. PICK code \in Codes : End(c, code)
    BY <1>4 DEF Refuse, Reject, HangUp, HangUpAsleep, HangUpWoken, HangUpAtRedis,
                HangUpAtInfer, Answer, GetRaises, CollectFailure, Raises, Codes
  <2>2. UNCHANGED <<sidecar, result, redis, writes>>
    BY <1>4 DEF Refuse, Reject, HangUp, HangUpAsleep, HangUpWoken, HangUpAtRedis,
                HangUpAtInfer, Answer, GetRaises, CollectFailure, Raises
  <2>3. result[c] \in Results
    BY <1>2
  <2>4. QED
    BY <1>3, <2>1, <2>2, <2>3 DEF End, GoTo
<1>5. ASSUME NEW c \in Calls, Hit(c)
      PROVE  Rest
  <2>1. redis[Key(c)] \in Results /\ "OK" \in Codes
    BY <1>5 DEF Hit, Results, Codes
  <2>2. QED
    BY <1>3, <1>5, <2>1 DEF Hit, End, GoTo
<1>6. ASSUME NEW c \in Calls, FinishInference(c) \/ FailInference(c)
      PROVE  Rest
  <2>1. Infer(config, request[c]) \in Results /\ Failed \in Results
    BY <1>2 DEF Values, Results
  <2>2. PICK value \in Results : Settle(c, value)
    BY <1>6, <2>1 DEF FinishInference, FailInference
  <2>3. "done" \in Places /\ "OK" \in Codes
    BY DEF Codes
  <2>4. UNCHANGED <<live, pc, outcome, sidecar, redis, writes>>
    BY <2>2 DEF Settle
  <2>5. result' = result \/ result' = [result EXCEPT ![c] = value]
    BY <2>2 DEF Settle
  <2>6. QED
    BY <1>3, <2>3, <2>4, <2>5
<1>7. ASSUME NEW c \in Calls, \/ Enter(c) \/ Proceed(c) \/ Miss(c) \/ GetFails(c)
                              \/ Discard(c) \/ Collect(c)
      PROVE  Rest
  <2>1. PICK place \in Places : pc' = [pc EXCEPT ![c] = place]
    BY <1>7 DEF Enter, Proceed, Miss, GetFails, Discard, Compute, Collect, GoTo
  <2>2. UNCHANGED <<outcome, result, sidecar, redis>>
    BY <1>7 DEF Enter, Proceed, Miss, GetFails, Discard, Compute, Collect
  <2>3. live' \subseteq live \cup {c} /\ writes' \subseteq writes \cup {c}
    BY <1>7 DEF Enter, Proceed, Miss, GetFails, Discard, Compute, Collect, gateVars
  <2>4. QED
    BY <1>2, <2>1, <2>2, <2>3 DEF sidecar
<1>8. ASSUME NEW c \in Calls, StartInference(c) \/ LoseSet(c)
      PROVE  Rest
  <2>1. UNCHANGED <<live, handlerVars, sidecar, redis>> /\ writes' \subseteq writes
    BY <1>8 DEF StartInference, LoseSet, gateVars
  <2>2. QED
    BY <1>2, <2>1 DEF handlerVars, sidecar
\* Redis stores an entry.
<1>9. ASSUME NEW k \in Keys, NEW entry \in Entries, Store(k, entry),
             UNCHANGED <<live, handlerVars, sidecar>>, writes' \subseteq writes
      PROVE  Rest
  BY <1>2, <1>9 DEF Store, handlerVars, sidecar
<1>10. ASSUME NEW c \in Calls, ExecuteSet(c)
       PROVE  Rest
  <2>1. result[c] \in Entries
    BY <1>10 DEF ExecuteSet, IInv, HandlerAt, Entries
  <2>2. Key(c) \in Keys
    BY <1>2 DEF Key, Keys
  <2>3. QED
    BY <1>9, <1>10, <2>1, <2>2 DEF ExecuteSet, gateVars
<1>11. ASSUME NEW k \in Keys, Drop(k) \/ Overwrite(k)
       PROVE  Rest
  <2>1. PICK entry \in Entries : Store(k, entry)
    BY <1>11 DEF Drop, Overwrite, Entries
  <2>2. QED
    BY <1>9, <1>11, <2>1 DEF Drop, Overwrite, gateVars
<1>12. ASSUME NEW s \in Streams, \/ StreamEnters(s) \/ StreamAbandoned(s)
                                 \/ StreamEnds(s) \/ StreamFinalized(s)
       PROVE  Rest
  <2>1. PICK to \in {"inside", "orphan", "done"} : stream' = [stream EXCEPT ![s] = to]
    BY <1>12 DEF StreamEnters, StreamAbandoned, StreamEnds, StreamFinalized, MoveStream
  <2>2. live' \subseteq live \cup {s}
    BY <1>12 DEF StreamEnters, StreamAbandoned, StreamEnds, StreamFinalized
  <2>3. UNCHANGED <<handlerVars, request, config, redis, writes>>
    BY <1>12 DEF StreamEnters, StreamAbandoned, StreamEnds, StreamFinalized, MoveStream
  <2>4. QED
    BY <1>2, <2>1, <2>2, <2>3 DEF handlerVars
<1>13. CASE Restart
  <2>1. pc' \in [Calls -> Places]
    BY <1>2, <1>13 DEF Restart
  <2>2. outcome' \in [Calls -> Codes]
    BY <1>2, <1>13 DEF Restart, Codes
  <2>3. stream' \in [Streams -> {"idle", "inside", "orphan", "done"}]
    BY <1>13 DEF Restart
  <2>4. QED
    BY <1>2, <1>13, <2>1, <2>2, <2>3 DEF Restart, GateReset
<1>14. CASE UNCHANGED vars
  BY <1>2, <1>14 DEF vars, gateVars, handlerVars, sidecar
<1>15. QED
  BY <1>4, <1>5, <1>6, <1>7, <1>8, <1>10, <1>11, <1>12, <1>13, <1>14 DEF Next, Handler

------------------------------------------------------------------------------

\* Before the first call arrives everything agrees.
LEMMA InitEstablishes == Init => IInv
<1> SUFFICES ASSUME Init PROVE IInv
  OBVIOUS
<1>1. MaxConcurrentRpcs \in Nat \ {0} /\ MaxWorkers \in Nat \ {0}
  BY GateAssumption
<1>2. /\ IsFiniteSet({}) /\ Cardinality({}) = 0
      /\ ToSet(<<>>) = {} /\ IsInjective(<<>>)
  BY FS_EmptySet DEF ToSet, IsInjective
<1>3. TypeOK
  BY <1>1 DEF Init, GateInit, TypeOK, Codes
<1>4. SemaphoreInv
  <2>1. InBlock = {} /\ {c \in Calls : pc[c] = "wait"} = {} /\ woken = {}
    BY DEF Init, GateInit, InBlock
  <2>2. woken \cup InBlock = {} /\ permits = MaxConcurrentRpcs /\ waiters = <<>>
    BY <2>1 DEF Init, GateInit
  <2>3. SemaphoreServes(Calls, {}, {})
    BY <1>1, <1>2, <2>1, <2>2 DEF SemaphoreServes
  <2>4. QED
    BY <2>1, <2>3 DEF SemaphoreInv
<1>5. PoolInv
  BY <1>1, <1>2 DEF Init, GateInit, PoolInv, PoolServes, PoolAt
<1>6. CacheInv
  <2>1. NoValue \notin Values
    BY PredictAssumption
  <2>2. \A c \in Calls : FreshAt(c)
    BY <2>1 DEF Init, FreshAt
  <2>3. ASSUME NEW q \in Requests
        PROVE  redis[Fingerprint(q)] = NoValue
    BY DEF Init, Keys
  <2>4. QED
    BY <2>1, <2>2, <2>3 DEF CacheInv
<1>7. \A c \in Calls : HandlerAt(c)
  BY DEF Init, HandlerAt
<1>8. QED
  BY <1>3, <1>4, <1>5, <1>6, <1>7 DEF IInv

\* In every reachable state the semaphore, the pool, the handlers, the cache and
\* Redis agree, whatever restarts, losses and foreign writes lie behind it.
THEOREM Invariance == Spec => []IInv
<1>1. Init => IInv
  BY InitEstablishes
<1>2. IInv /\ [Next]_vars => IInv'
  BY TypeStep, SemaphoreStep, PoolStep, HandlerStep, CacheStep DEF IInv
<1>3. QED
  BY <1>1, <1>2, PTL DEF Spec

\* Every variable stays in its type.
THEOREM TypeCorrect == Spec => []TypeOK
<1>1. IInv => TypeOK
  BY DEF IInv
<1>2. QED
  BY <1>1, Invariance, PTL

\* Whatever way a handler leaves, and whatever streams share the semaphore, no
\* permit is lost and none is given back twice.
THEOREM PermitsConserved == Spec => []PermitConservation
<1>1. IInv => PermitConservation
  BY DEF IInv, SemaphoreInv, SemaphoreServes, PermitConservation, Holders
<1>2. QED
  BY <1>1, Invariance, PTL

\* No call is left asleep beside a free permit.
THEOREM NoPermitStranded == Spec => []NoStrandedPermit
<1>1. Init => NoStrandedPermit
  BY DEF Init, GateInit, NoStrandedPermit
<1>2. NoStrandedPermit /\ [Next]_vars => NoStrandedPermit'
  <2> SUFFICES ASSUME NoStrandedPermit, [Next]_vars
               PROVE  NoStrandedPermit'
    OBVIOUS
  <2>1. ASSUME NEW r, \/ Acquire \/ Park(r) \/ Resumed(r) \/ Release
                      \/ LeaveAsleep(r) \/ LeaveWoken(r) \/ UNCHANGED semaphore
        PROVE  NoStrandedPermit'
    BY <2>1, NothingStranded
  <2>2. ASSUME NEW c \in Calls, Enter(c) \/ Proceed(c) \/ HangUp(c) \/ Hit(c)
                                \/ GetRaises(c) \/ CollectFailure(c) \/ Answer(c)
        PROVE  NoStrandedPermit'
    BY <2>1, <2>2 DEF Enter, Proceed, HangUp, HangUpAsleep, HangUpWoken, HangUpAtRedis,
                      HangUpAtInfer, Hit, GetRaises, CollectFailure, Raises, Answer
  <2>3. ASSUME NEW c \in Calls, \/ Refuse(c) \/ Reject(c) \/ Miss(c) \/ GetFails(c)
                                \/ Discard(c) \/ Collect(c) \/ StartInference(c)
                                \/ FinishInference(c) \/ FailInference(c)
                                \/ ExecuteSet(c) \/ LoseSet(c)
        PROVE  NoStrandedPermit'
    <3>1. UNCHANGED semaphore
      BY <2>3 DEF Refuse, Reject, Miss, GetFails, Discard, Compute, Collect,
                  StartInference, FinishInference, FailInference, Settle, ExecuteSet,
                  LoseSet, gateVars, semaphore
    <3>2. QED
      BY <2>1, <3>1
  <2>4. ASSUME NEW k \in Keys, Drop(k) \/ Overwrite(k)
        PROVE  NoStrandedPermit'
    <3>1. UNCHANGED semaphore
      BY <2>4 DEF Drop, Overwrite, gateVars, semaphore
    <3>2. QED
      BY <2>1, <3>1
  <2>5. ASSUME NEW s \in Streams, \/ StreamEnters(s) \/ StreamAbandoned(s)
                                  \/ StreamEnds(s) \/ StreamFinalized(s)
        PROVE  NoStrandedPermit'
    BY <2>1, <2>5 DEF StreamEnters, StreamAbandoned, StreamEnds, StreamFinalized
  <2>6. CASE Restart
    BY <2>6 DEF Restart, GateReset, NoStrandedPermit
  <2>7. CASE UNCHANGED vars
    <3>1. UNCHANGED semaphore
      BY <2>7 DEF vars, gateVars, semaphore
    <3>2. QED
      BY <2>1, <3>1
  <2>8. QED
    BY <2>2, <2>3, <2>4, <2>5, <2>6, <2>7 DEF Next, Handler
<1>3. QED
  BY <1>1, <1>2, PTL DEF Spec

\* If no foreign entry makes cache.get raise, the cache fails open: a call that
\* ends with UNKNOWN is one whose model raised.  predict_undecodable shows that
\* the hypothesis is needed.
THEOREM CallsFailOpen ==
  ASSUME Undecodable = {}
  PROVE  Spec => []FailOpen
<1>1. IInv => FailOpen
  BY DEF IInv, HandlerAt, FailOpen
<1>2. QED
  BY <1>1, Invariance, PTL

\* A job whose caller left while it was queued never takes a thread.
THEOREM AbandonedNeverStart == Spec => NoAbandonedStart
<1>1. IInv /\ [Next]_vars =>
        [\A c \in Calls : c \in running' \ running => pc[c] = "infer"]_vars
  <2> SUFFICES ASSUME IInv, Next, NEW c \in Calls, c \in running' \ running
               PROVE  pc[c] = "infer"
    OBVIOUS
  <2>1. PICK d \in Calls : StartInference(d)
    <3>1. ~Restart
      BY DEF Restart, GateReset
    <3>2. ~\E s \in Streams : \/ StreamEnters(s) \/ StreamAbandoned(s)
                              \/ StreamEnds(s) \/ StreamFinalized(s)
      BY DEF StreamEnters, StreamAbandoned, StreamEnds, StreamFinalized, MoveStream,
             pool
    <3>3. ~\E k \in Keys : Drop(k) \/ Overwrite(k)
      BY DEF Drop, Overwrite, gateVars
    <3>4. ~\E d \in Calls : Handler(d)
      BY DEF Handler, Proceed, Hit, Miss, GetFails, Discard, Compute, Submit, GetRaises,
             Raises, Collect, CollectFailure, Answer, pool, gateVars
    <3>5. ~\E d \in Calls : HangUp(d)
      BY DEF HangUp, HangUpAsleep, HangUpWoken, HangUpAtRedis, HangUpAtInfer, CancelJob,
             pool
    <3>6. ~\E d \in Calls : \/ Refuse(d) \/ Reject(d) \/ Enter(d) \/ FinishInference(d)
                            \/ FailInference(d) \/ ExecuteSet(d) \/ LoseSet(d)
      BY DEF Refuse, Reject, Enter, FinishInference, FailInference, Settle, EndJob,
             ExecuteSet, LoseSet, pool, gateVars
    <3>7. QED
      BY <3>1, <3>2, <3>3, <3>4, <3>5, <3>6 DEF Next
  <2>2. StartJob(d) /\ running' = running \cup {d}
    BY <2>1 DEF StartInference, StartJob
  <2>3. PoolServes(Calls, running \cup ToSet(pending)) /\ PoolAt(c)
    BY DEF IInv, PoolInv
  <2>4. c = d /\ d \in ToSet(pending)
    BY <2>2, <2>3, StartJobServes
  <2>5. QED
    BY <2>3, <2>4 DEF PoolAt
<1>2. QED
  BY <1>1, Invariance, PTL DEF Spec, NoAbandonedStart

\* An answer, from the model or from Redis, is the result of the request it
\* answers, under one of the configurations the sidecar has run with.
Answered == \A c \in Calls :
  outcome[c] = "OK" => \E conf \in Configs : result[c] = Infer(conf, request[c])

\* Neither a late SET, nor a foreign entry, nor a restart makes a call answer
\* with the result of another request.
THEOREM AnswersBelongToRequests == Spec => []Answered
<1>1. IInv => Answered
  BY DEF IInv, HandlerAt, CacheInv, FreshAt, Answered
<1>2. QED
  BY <1>1, Invariance, PTL

\* While the model's configuration stays the same, a cached answer is identical
\* to a freshly computed one.  predict_reconfigured shows that the hypothesis is
\* needed.
THEOREM CacheIsTransparent ==
  ASSUME \A a, b \in Configs : a = b
  PROVE  Spec => CacheTransparent
<1>1. IInv /\ IInv' /\ [Next]_vars =>
        [\A c \in Calls : outcome'[c] = "OK" /\ outcome[c] # "OK"
                          => result'[c] = Infer(config, request[c])]_vars
  <2> SUFFICES ASSUME IInv, IInv', Next, NEW c \in Calls,
                      outcome'[c] = "OK", outcome[c] # "OK"
               PROVE  result'[c] = Infer(config, request[c])
    OBVIOUS
  <2>1. request' = request
    BY DEF Next, Handler, Refuse, Reject, Enter, Proceed, Hit, Miss, GetFails, Discard,
           Compute, GetRaises, Raises, Collect, CollectFailure, Answer, HangUp,
           HangUpAsleep, HangUpWoken, HangUpAtRedis, HangUpAtInfer, StartInference,
           FinishInference, FailInference, Settle, ExecuteSet, LoseSet, StreamEnters,
           StreamAbandoned, StreamEnds, StreamFinalized, MoveStream, Drop, Overwrite,
           Restart, sidecar
  <2>2. result'[c] \in Values
    BY DEF IInv, HandlerAt
  <2>3. PICK conf \in Configs : result'[c] = Infer(conf, request'[c])
    BY <2>2 DEF IInv, CacheInv, FreshAt
  <2>4. conf = config
    BY DEF IInv, TypeOK
  <2>5. QED
    BY <2>1, <2>3, <2>4
<1>2. QED
  BY <1>1, Invariance, PTL DEF Spec, CacheTransparent

==============================================================================
