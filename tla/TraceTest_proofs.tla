--------------------------- MODULE TraceTest_proofs ---------------------------
(* For any budget, interval, lag and limit of fetch: the polling ends in time,
   its verdict agrees with the answers of Jaeger, and a healthy pipeline that
   fits into the budget is never reported broken.  Each part of IInv has a lemma,
   with one step per action.                                                 *)
EXTENDS TraceTest, TLAPS

\* The time a query is given.
LEMMA LimitBound == TypeOK => Limit \in Nat /\ 0 < Limit /\ Limit <= FetchLimit
BY TimeAssumption DEF Limit

\* Every variable keeps its type.
LEMMA TypeStep ==
  ASSUME TypeOK, [Next]_vars
  PROVE  TypeOK'
<1> USE DEF TypeOK
<1>0. Limit \in Nat /\ Interval \in Nat
  BY LimitBound, TimeAssumption
<1>1. CASE Call
  <2>1. UNCHANGED <<environment, others, pollVars>> /\ pc' \in {"flush", "done"} /\ reply' \in {reply, 502}
    BY <1>1 DEF Call, CallFails, CallSucceeds, Reply
  <2>2. spans' \in [Own -> {"none", "queued", "exported", "indexed", "lost"}]
    BY <1>1 DEF Call, CallFails, CallSucceeds
  <2>3. QED
    BY <2>1, <2>2 DEF environment, pollVars
<1>2. CASE Flushing
  BY <1>0, <1>2
  DEF Flushing, Flush, FlushFails, Reply, SendQuery, Indexed, Own, Services, environment, pollVars
<1>3. CASE Tick
  BY <1>3 DEF Tick, environment
<1>4. CASE Answer
  <2>1. PICK services \in SUBSET Services :
          /\ \/ UNCHANGED <<lastSeen, shown>>
             \/ lastSeen' = services /\ shown' = services
          /\ \/ pc' = "done" /\ reply' = 200 /\ due' = due
             \/ pc' = "pause" /\ due' = clock + Interval /\ reply' = reply
    BY <1>4 DEF Answer, Reply, Pause
  <2>2. UNCHANGED <<environment, others, spans, clock, known>>
    BY <1>4 DEF Answer
  <2>3. QED
    BY <1>0, <2>1, <2>2 DEF environment
<1>5. CASE QueryFails
  BY <1>0, <1>5 DEF QueryFails, Pause, environment
<1>6. CASE Resume
  <2>1. Indexed \subseteq Services
    BY DEF Indexed, Services
  <2>2. /\ UNCHANGED <<environment, others, spans, clock, lastSeen, shown>>
        /\ \/ pc' = "query" /\ due' = clock + Limit /\ known' = Indexed /\ reply' = reply
           \/ pc' = "done" /\ reply' \in {200, 503} /\ due' = due /\ known' = known
    BY <1>6 DEF Resume, SendQuery, Reply
  <2>3. QED
    BY <1>0, <2>1, <2>2 DEF environment
<1>7. ASSUME NEW s \in Own, Index(s) \/ Lose(s)
      PROVE  TypeOK'
  BY <1>7 DEF Index, Lose, environment, pollVars
<1>8. CASE OthersChange \/ UNCHANGED vars
  BY <1>8 DEF OthersChange, vars, environment, pollVars
<1>9. QED
  BY <1>1, <1>2, <1>3, <1>4, <1>5, <1>6, <1>7, <1>8 DEF Next

\* No query is sent after the budget.
LEMMA TimeStep ==
  ASSUME TypeOK, TimeInv, [Next]_vars
  PROVE  TimeInv'
<1>0. /\ Limit \in Nat /\ Interval \in Nat \ {0} /\ Timeout \in Nat \ {0}
      /\ clock \in Nat /\ due \in Nat
  BY LimitBound, TimeAssumption DEF TypeOK
<1>1. CASE Call
  BY <1>0, <1>1
  DEF Call, CallFails, CallSucceeds, Reply, environment, pollVars, TimeInv, Limit
<1>2. CASE Flushing
  BY <1>0, <1>2
  DEF Flushing, Flush, FlushFails, Reply, SendQuery, environment, pollVars, TimeInv, Limit
<1>3. CASE Tick
  BY <1>0, <1>3 DEF Tick, environment, TimeInv, Limit
<1>4. CASE Answer
  <2>1. /\ pc = "query"
        /\ \/ pc' = "done" /\ due' = due
           \/ pc' = "pause" /\ due' = clock + Interval
        /\ UNCHANGED <<healthy, clock>>
    BY <1>4 DEF Answer, Reply, Pause, environment
  <2>2. QED
    BY <1>0, <2>1 DEF TimeInv, Limit
<1>5. CASE QueryFails
  BY <1>0, <1>5 DEF QueryFails, Pause, environment, TimeInv, Limit
<1>6. CASE Resume
  BY <1>0, <1>6 DEF Resume, SendQuery, Reply, environment, TimeInv, Limit
<1>7. ASSUME NEW s \in Own, Index(s) \/ Lose(s)
      PROVE  TimeInv'
  BY <1>7 DEF Index, Lose, environment, pollVars, TimeInv, Limit
<1>8. CASE OthersChange \/ UNCHANGED vars
  BY <1>8 DEF OthersChange, vars, environment, pollVars, TimeInv, Limit
<1>9. QED
  BY <1>1, <1>2, <1>3, <1>4, <1>5, <1>6, <1>7, <1>8 DEF Next

\* Nothing is seen that was not exported, and nothing seen is forgotten.
LEMMA SeenStep ==
  ASSUME TypeOK, SeenInv, [Next]_vars
  PROVE  SeenInv'
<1>1. CASE Call
  <2>1. UNCHANGED <<environment, others, pollVars>> /\ reply = 0
        /\ \/ pc' = "done" /\ reply' = 502
           \/ pc' = "flush" /\ reply' = reply
    BY <1>1 DEF Call, CallFails, CallSucceeds, Reply, SeenInv
  <2>2. Exportable' = Exportable
    BY <2>1 DEF Exportable, environment
  <2>3. \A s \in Own : spans'[s] # "none" => s \in Exportable
    BY <1>1 DEF Call, CallFails, CallSucceeds, SeenInv
  <2>4. QED
    BY <2>1, <2>2, <2>3 DEF SeenInv, pollVars, environment
<1>2. CASE Flushing
  <2>1. /\ UNCHANGED <<environment, others, lastSeen, shown>> /\ pc = "flush"
        /\ \/ pc' = "query" /\ known' = Indexed /\ reply' = reply
           \/ pc' = "done" /\ known' = known /\ reply' = 500
    BY <1>2 DEF Flushing, Flush, FlushFails, SendQuery, Reply, pollVars
  <2>2. Exportable' = Exportable
    BY <2>1 DEF Exportable, environment
  <2>3. \A s \in Own : spans'[s] # "none" => s \in Exportable
    <3>1. \A s \in Own : spans'[s] # "none" => spans[s] # "none"
      BY <1>2 DEF Flushing, Flush, FlushFails, TypeOK, Own
    <3>2. QED
      BY <3>1 DEF SeenInv
  <2>4. joined \/ known' \subseteq Exportable
    BY <2>1 DEF SeenInv, Indexed
  <2>5. QED
    BY <2>1, <2>2, <2>3, <2>4 DEF SeenInv, environment
<1>3. CASE Tick
  BY <1>3 DEF Tick, environment, SeenInv, Exportable
<1>4. CASE Answer
  <2>1. PICK services \in SUBSET Services :
          /\ services \subseteq known \cup Indexed
          /\ IF services = {} THEN UNCHANGED <<lastSeen, shown>>
             ELSE lastSeen' = services /\ shown' = services
          /\ IF Until(services) THEN pc' = "done" /\ reply' = 200
             ELSE pc' = "pause" /\ reply' = reply
    BY <1>4 DEF Answer, Reply, Pause
  <2>2. pc = "query" /\ UNCHANGED <<environment, others, spans, clock, known>>
    BY <1>4 DEF Answer
  <2>3. joined \/ services \subseteq Exportable
    BY <2>1 DEF SeenInv, Indexed
  <2>4. /\ joined \/ lastSeen' \subseteq Exportable
        /\ lastSeen' = shown'
    BY <2>1, <2>3 DEF SeenInv
  <2>5. /\ reply' # 0 <=> pc' = "done"
        /\ reply' = 200 => lastSeen' # {}
        /\ reply' = 503 => lastSeen' = {}
    BY <2>1, <2>2 DEF SeenInv, Until
  <2>6. QED
    BY <2>2, <2>4, <2>5 DEF SeenInv, Exportable, environment
<1>5. CASE QueryFails
  BY <1>5 DEF QueryFails, Pause, environment, SeenInv, Exportable
<1>6. CASE Resume
  <2>1. /\ UNCHANGED <<environment, others, spans, lastSeen, shown>> /\ pc = "pause"
        /\ \/ pc' = "query" /\ reply' = reply /\ known' = Indexed
           \/ pc' = "done" /\ known' = known
              /\ reply' = IF lastSeen # {} THEN 200 ELSE 503
    BY <1>6 DEF Resume, SendQuery, Reply
  <2>2. Exportable' = Exportable
    BY <2>1 DEF Exportable, environment
  <2>3. joined \/ known' \subseteq Exportable
    BY <2>1 DEF SeenInv, Indexed
  <2>4. reply' # 0 <=> pc' = "done"
    BY <2>1 DEF SeenInv
  <2>5. /\ reply' = 200 => lastSeen # {}
        /\ reply' = 503 => lastSeen = {}
    BY <2>1 DEF SeenInv
  <2>6. QED
    BY <2>1, <2>2, <2>3, <2>4, <2>5 DEF SeenInv, environment
<1>7. ASSUME NEW s \in Own, Index(s) \/ Lose(s)
      PROVE  SeenInv'
  <2>1. UNCHANGED <<environment, others, pc, pollVars, reply>> /\ spans[s] # "none"
    BY <1>7 DEF Index, Lose
  <2>2. Exportable' = Exportable
    BY <2>1 DEF Exportable, environment
  <2>3. \A t \in Own : spans'[t] # "none" => t \in Exportable
    BY <1>7, <2>1 DEF Index, Lose, SeenInv, TypeOK
  <2>4. QED
    BY <2>1, <2>2, <2>3 DEF SeenInv, pollVars, environment
<1>8. CASE OthersChange \/ UNCHANGED vars
  BY <1>8 DEF OthersChange, vars, environment, pollVars, SeenInv, Exportable
<1>9. QED
  BY <1>1, <1>2, <1>3, <1>4, <1>5, <1>6, <1>7, <1>8 DEF Next

\* A healthy pipeline is seen whole before the budget is over.
LEMMA LagStep ==
  ASSUME TypeOK, TimeInv, LagInv, [Next]_vars
  PROVE  LagInv'
<1>0. /\ Lag \in Nat /\ QueryTime \in Nat /\ Interval \in Nat /\ Timeout \in Nat
      /\ clock \in Nat /\ due \in Nat
  BY TimeAssumption DEF TypeOK
<1>1. UNCHANGED environment
  BY DEF Next, Call, CallFails, CallSucceeds, Flushing, Flush, FlushFails, Tick, Answer,
         QueryFails, Resume, OthersChange, Index, Lose, vars
<1> SUFFICES ASSUME healthy, sampled, propagated, Lag + QueryTime + Interval < Timeout
             PROVE  LagInv'
  BY <1>1 DEF LagInv, environment
<1> USE DEF Own
<1>2. CASE Call
  <2>1. CASE CallFails
    BY <2>1 DEF CallFails, Reply, LagInv
  <2>2. CASE CallSucceeds
    <3>1. pc' = "flush" /\ Exportable = Own
      BY <2>2 DEF CallSucceeds, Exportable
    <3>2. spans' = [s \in Own |-> IF s = "gateway" THEN "queued" ELSE "exported"]
      BY <2>2, <3>1 DEF CallSucceeds
    <3>3. spans'["gateway"] = "queued" /\ spans'["sidecar"] = "exported"
      BY <3>2
    <3>4. QED
      BY <3>1, <3>3 DEF LagInv
  <2>3. QED
    BY <1>2, <2>1, <2>2 DEF Call
<1>3. CASE Flushing
  <2>1. /\ spans["gateway"] = "queued" /\ spans["sidecar"] \in {"exported", "indexed"}
        /\ clock = 0
    BY <1>3 DEF Flushing, Flush, FlushFails, LagInv, TimeInv
  <2>2. /\ spans' = [spans EXCEPT !["gateway"] = "exported"]
        /\ pc' = "query" /\ clock' = clock /\ due' = clock + QueryTime
        /\ known' = Indexed /\ others' = others
    BY <1>3, <2>1 DEF Flushing, Flush, FlushFails, SendQuery, Limit
  <2>3. /\ spans'["gateway"] = "exported" /\ spans'["sidecar"] = spans["sidecar"]
    BY <2>2 DEF TypeOK
  <2>4. known' \subseteq Indexed'
    BY <2>1, <2>2, <2>3 DEF Indexed
  <2>5. QED
    BY <1>0, <2>1, <2>2, <2>3, <2>4 DEF LagInv
<1>4. CASE Tick
  BY <1>0, <1>4 DEF Tick, LagInv, Indexed
<1>5. CASE Answer
  <2>1. PICK services \in SUBSET Services :
          /\ known \cap Indexed \subseteq services
          /\ services # {} => lastSeen' = services
          /\ IF Until(services) THEN pc' = "done" /\ reply' = 200
             ELSE pc' = "pause" /\ due' = clock + Interval
    BY <1>5 DEF Answer, Reply, Pause
  <2>2. /\ pc = "query" /\ spans' = spans /\ clock' = clock
        /\ known \subseteq Indexed /\ Indexed' = Indexed
        /\ Own \subseteq known \/ due <= Lag + QueryTime
        /\ clock <= due
    BY <1>5 DEF Answer, LagInv, Indexed, TimeInv
  <2>3. CASE Until(services)
    BY <2>1, <2>2, <2>3 DEF LagInv, CrossService, Verified, Until
  <2>4. CASE ~Until(services)
    <3>1. ~(Own \subseteq known)
      BY <2>1, <2>2, <2>4 DEF Until
    <3>2. pc' = "pause" /\ due' = clock + Interval /\ due' <= Lag + QueryTime + Interval
      BY <1>0, <2>1, <2>2, <2>4, <3>1
    <3>3. QED
      BY <2>2, <3>2 DEF LagInv
  <2>5. QED
    BY <2>3, <2>4
<1>6. CASE QueryFails
  BY <1>6 DEF QueryFails
<1>7. CASE Resume
  <2>1. /\ clock = due /\ due <= Lag + QueryTime + Interval
        /\ UNCHANGED <<others, spans, clock, lastSeen>>
        /\ pc = "pause"
    BY <1>7 DEF Resume, LagInv
  <2>2. pc' = "query" /\ due' = clock + QueryTime /\ known' = Indexed
    BY <1>0, <1>7, <2>1 DEF Resume, SendQuery, Limit
  <2>3. Indexed' = Indexed
    BY <2>1 DEF Indexed
  <2>4. Own \subseteq known' \/ due' <= Lag + QueryTime
    BY <1>0, <2>1, <2>2 DEF LagInv
  <2>5. QED
    BY <2>1, <2>2, <2>3, <2>4 DEF LagInv
<1>8. ASSUME NEW s \in Own, Index(s) \/ Lose(s)
      PROVE  LagInv'
  <2>1. Index(s)
    BY <1>8 DEF Lose
  <2>2. /\ spans[s] = "exported" /\ spans' = [spans EXCEPT ![s] = "indexed"]
        /\ UNCHANGED <<others, pc, pollVars, reply>>
    BY <2>1 DEF Index
  <2>3. /\ \A t \in Own : spans'[t] = IF t = s THEN "indexed" ELSE spans[t]
        /\ Indexed \subseteq Indexed'
    BY <2>2 DEF TypeOK, Indexed
  <2>4. CASE pc = "flush"
    BY <2>2, <2>3, <2>4 DEF LagInv
  <2>5. CASE pc \in {"query", "pause"}
    <3>1. /\ \A t \in Own : spans'[t] \in {"exported", "indexed"}
          /\ clock <= Lag \/ Own \subseteq Indexed'
      <4>1. \A t \in Own : spans'[t] \in {"exported", "indexed"}
        BY <2>3, <2>5 DEF LagInv
      <4>2. clock <= Lag \/ Own \subseteq Indexed
        BY <2>5 DEF LagInv
      <4>3. QED
        BY <2>3, <4>1, <4>2
    <3>2. pc = "query" => known \subseteq Indexed'
      BY <2>3 DEF LagInv
    <3>3. QED
      BY <2>2, <2>5, <3>1, <3>2 DEF pollVars, LagInv
  <2>6. CASE pc \notin {"flush", "query", "pause"}
    BY <2>2, <2>6 DEF pollVars, LagInv, CrossService, Verified
  <2>7. QED
    BY <2>4, <2>5, <2>6
<1>9. CASE OthersChange
  <2>1. /\ pc # "done" /\ others \subseteq others'
        /\ UNCHANGED <<pc, spans, pollVars, reply>>
    BY <1>9 DEF OthersChange
  <2>2. Indexed \subseteq Indexed'
    BY <2>1 DEF Indexed
  <2>3. QED
    BY <2>1, <2>2 DEF LagInv, pollVars
<1>10. CASE UNCHANGED vars
  BY <1>10 DEF vars, pollVars, Indexed, LagInv, CrossService, Verified
<1>11. QED
  BY <1>2, <1>3, <1>4, <1>5, <1>6, <1>7, <1>8, <1>9, <1>10 DEF Next

------------------------------------------------------------------------------

\* The route and the pipeline keep the inductive invariant (trace-test.ts,
\* jaeger.ts), for all limits and intervals.
THEOREM Invariance == Spec => []IInv
<1>1. Init => IInv
  BY TimeAssumption
  DEF Init, IInv, TypeOK, TimeInv, SeenInv, LagInv, Limit, Exportable, Own, environment
<1>2. IInv /\ [Next]_vars => IInv'
  BY TypeStep, TimeStep, SeenStep, LagStep DEF IInv
<1>3. QED
  BY <1>1, <1>2, PTL DEF Spec

\* Every variable keeps its type.
THEOREM TypeCorrect == Spec => []TypeOK
<1>1. IInv => TypeOK
  BY DEF IInv
<1>2. QED
  BY <1>1, Invariance, PTL

\* The polling never runs past its budget by more than a query and a pause.
THEOREM PollingEndsInTime == Spec => []EndsInTime
<1>1. IInv => EndsInTime
  BY LimitBound, TimeAssumption DEF IInv, TimeInv, EndsInTime, TypeOK
<1>2. QED
  BY <1>1, Invariance, PTL

\* 200 and 503 say what the answers of Jaeger said and, in a trace that began with
\* the request, cross_service means that the context crossed the hop.
THEOREM VerdictIsHonest == Spec => []VerdictHonest
<1>1. IInv => VerdictHonest
  <2> SUFFICES ASSUME IInv PROVE VerdictHonest
    OBVIOUS
  <2>1. SeenInv
    BY DEF IInv
  <2>2. Verified => lastSeen = shown /\ shown # {}
    BY <2>1 DEF SeenInv, Verified
  <2>3. reply = 503 => shown = {}
    BY <2>1 DEF SeenInv
  <2>4. CrossService /\ ~joined => propagated
    BY <2>1 DEF SeenInv, CrossService, Exportable, Own
  <2>5. QED
    BY <2>2, <2>3, <2>4 DEF VerdictHonest
<1>2. QED
  BY <1>1, Invariance, PTL

\* If the lag, a query and a pause fit into the budget, a healthy pipeline is
\* reported healthy, whatever else the trace contains.
THEOREM NoAlarmIsFalse ==
  ASSUME Lag + QueryTime + Interval < Timeout
  PROVE  Spec => []NoFalseAlarm
<1>1. IInv => NoFalseAlarm
  BY DEF IInv, SeenInv, LagInv, NoFalseAlarm
<1>2. QED
  BY <1>1, Invariance, PTL

\* With a healthy pipeline the route has no outcome the README does not know
\* (README.md:179-181): 500 is the flush that rejects, as in trace_test_flush.
THEOREM HealthyOutcomeIsDocumented == Spec => [](healthy => DocumentedOutcome)
<1>1. Init => (healthy => DocumentedOutcome)
  BY DEF Init, DocumentedOutcome
<1>2. (healthy => DocumentedOutcome) /\ [Next]_vars => (healthy => DocumentedOutcome)'
  <2> SUFFICES ASSUME healthy => DocumentedOutcome, [Next]_vars, healthy'
               PROVE  DocumentedOutcome'
    OBVIOUS
  <2>1. healthy' = healthy
    BY DEF Next, Call, CallFails, CallSucceeds, Flushing, Flush, FlushFails, Tick,
           Answer, QueryFails, Resume, OthersChange, Index, Lose, environment, vars
  <2>2. reply' = reply \/ reply' \in {200, 502, 503}
    <3>1. ~FlushFails
      BY <2>1 DEF FlushFails
    <3>2. CASE Answer
      BY <3>2 DEF Answer, Reply
    <3>3. CASE Resume
      BY <3>3 DEF Resume, Reply
    <3>4. CASE CallFails
      BY <3>4 DEF CallFails, Reply
    <3>5. CASE CallSucceeds \/ Flush \/ Tick \/ QueryFails
      BY <3>5 DEF CallSucceeds, Flush, Tick, QueryFails
    <3>6. CASE \E s \in Own : Index(s) \/ Lose(s)
      BY <3>6 DEF Index, Lose, pollVars
    <3>7. CASE OthersChange \/ UNCHANGED vars
      BY <3>7 DEF OthersChange, vars
    <3>8. QED
      BY <3>1, <3>2, <3>3, <3>4, <3>5, <3>6, <3>7 DEF Next, Call, Flushing
  <2>3. QED
    BY <2>1, <2>2 DEF DocumentedOutcome
<1>3. QED
  BY <1>1, <1>2, PTL DEF Spec

==============================================================================
