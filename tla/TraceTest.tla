------------------------------ MODULE TraceTest ------------------------------
(* GET /trace-test of the gateway (api/src/routes/trace-test.ts): a call to the
   sidecar under a span, a forced flush of the gateway's batch processor, and
   the polling of Jaeger's query API by `waitForTrace` (api/src/jaeger.ts), while
   the spans of the two services reach the index independently.

   Time counts from the start of the polling, in units of which the constants
   are multiples.  The pipeline is healthy, from the collectors to the query
   API, or it may fail anywhere; the traceparent may not survive the gRPC hop.
   The request may join the trace of a traced caller, which perhaps is not
   sampled: the index may then hold spans of that trace already, those of the
   caller or those of an earlier request to either service.                  *)
EXTENDS Integers

CONSTANTS Timeout,     \* traceTestTimeoutMs
          Interval,    \* traceTestPollIntervalMs
          Lag,         \* until a healthy pipeline has made every span queryable
          QueryTime,   \* until a healthy query API has answered
          FetchLimit   \* until fetch gives up by itself, its phases taken together

ASSUME TimeAssumption ==
  /\ {Timeout, Interval, Lag, QueryTime, FetchLimit} \subseteq Nat \ {0}
  /\ QueryTime <= FetchLimit

VARIABLES healthy, sampled, propagated,   \* the environment, for one request
          joined,     \* the request came with a traceparent
          others,     \* services with spans of other requests of the trace in the index
          pc,         \* where the route is
          spans,      \* spans[s]: where the spans of this request in service s are
          clock,      \* Date.now() - startedAt
          due,        \* when the query or the pause is over at the latest
          known,      \* services in the index when the query was sent
          lastSeen,   \* services of lastSeen; {} for null
          shown,      \* services of the last answer that contained spans; {} before
          reply       \* HTTP status; 0 before

environment == <<healthy, sampled, propagated, joined>>
pollVars == <<clock, due, known, lastSeen, shown>>
vars == <<environment, others, pc, spans, pollVars, reply>>

Own == {"gateway", "sidecar"}
Services == Own \cup {"caller"}
Indexed == {s \in Own : spans[s] = "indexed"} \cup others

\* The default sampler records every trace that begins here.
Init == /\ healthy \in BOOLEAN /\ sampled \in BOOLEAN /\ propagated \in BOOLEAN
        /\ joined \in BOOLEAN /\ (sampled \/ joined)
        /\ others \in SUBSET Services /\ (joined \/ others = {})
        /\ pc = "call"
        /\ spans = [s \in Own |-> "none"]
        /\ clock = 0 /\ due = 0 /\ known = {} /\ lastSeen = {} /\ shown = {}
        /\ reply = 0

------------------------------------------------------------------------------
(* The call and the flush. *)

Reply(http) == pc' = "done" /\ reply' = http

\* Mutant of CallFails: the route answers with the gRPC status, UNAVAILABLE.
CallFailsUnmapped == /\ pc = "call"
                     /\ Reply(14)
                     /\ UNCHANGED <<environment, others, spans, pollVars>>

CallFails == /\ pc = "call"
             /\ Reply(502)
             /\ UNCHANGED <<environment, others, spans, pollVars>>

\* The services whose spans of this request are part of its trace: both if it is
\* sampled, the sidecar only if the context arrives there.
Exportable == {s \in Own : sampled /\ (s = "sidecar" => propagated)}

\* The spans that have ended are queued, those of the sidecar in a batch
\* processor of its own.
CallSucceeds ==
  /\ pc = "call"
  /\ pc' = "flush"
  /\ spans' = [s \in Own |-> IF s \notin Exportable THEN "none"
                            ELSE IF s = "gateway" THEN "queued" ELSE "exported"]
  /\ UNCHANGED <<environment, others, pollVars, reply>>

Limit == IF healthy THEN QueryTime ELSE FetchLimit

SendQuery == pc' = "query" /\ due' = clock + Limit /\ known' = Indexed

\* Mutant of Flush: the flush is not awaited.
FlushNotAwaited == /\ pc = "flush"
                   /\ SendQuery
                   /\ UNCHANGED <<environment, others, spans, clock, lastSeen, shown, reply>>

\* A queue that is full has dropped the spans, and the flush does not tell.
Flush == /\ pc = "flush"
         /\ \/ spans' = [spans EXCEPT !.gateway = IF @ = "queued" THEN "exported" ELSE @]
            \/ /\ ~healthy /\ spans["gateway"] = "queued"
               /\ spans' = [spans EXCEPT !.gateway = "lost"]
         /\ SendQuery
         /\ UNCHANGED <<environment, others, clock, lastSeen, shown, reply>>

\* forceFlush() rejects when the export fails; the route does not catch it, and
\* the error handler of the application answers.
FlushFails == /\ pc = "flush" /\ ~healthy /\ spans["gateway"] = "queued"
              /\ Reply(500)
              /\ spans' = [spans EXCEPT !.gateway = "lost"]
              /\ UNCHANGED <<environment, others, pollVars>>

------------------------------------------------------------------------------
(* The pipeline. *)

Index(s) == /\ spans[s] = "exported"
            /\ spans' = [spans EXCEPT ![s] = "indexed"]
            /\ UNCHANGED <<environment, others, pc, pollVars, reply>>

\* The spans of the other requests of a trace that was joined arrive at any time,
\* and only a pipeline that fails loses them.
OthersChange == /\ joined /\ pc # "done"
                /\ others' \in SUBSET Services
                /\ healthy => others \subseteq others'
                /\ UNCHANGED <<environment, pc, spans, pollVars, reply>>

\* A collector that is away, or a Jaeger that restarts with an empty store.
Lose(s) == /\ ~healthy /\ spans[s] \in {"exported", "indexed"}
           /\ spans' = [spans EXCEPT ![s] = "lost"]
           /\ UNCHANGED <<environment, others, pc, pollVars, reply>>

Tick == /\ pc \in {"query", "pause"} /\ clock < due
        /\ healthy => (clock < Lag \/ \A s \in Own : spans[s] # "exported")
        /\ clock' = clock + 1
        /\ UNCHANGED <<environment, others, pc, spans, due, known, lastSeen, shown, reply>>

------------------------------------------------------------------------------
(* The polling. *)

Pause == pc' = "pause" /\ due' = clock + Interval

\* Mutant of Until: the default predicate, any span at all.
UntilAny(services) == services # {}

\* `until`: this service is there, and another one.
Until(services) == "gateway" \in services /\ services # {"gateway"}

\* The answer shows the index as it was at some moment of the query.
Answer == /\ pc = "query"
          /\ \E services \in SUBSET Services :
               /\ services \subseteq known \cup Indexed
               /\ known \cap Indexed \subseteq services
               /\ IF services = {} THEN UNCHANGED <<lastSeen, shown>>
                  ELSE lastSeen' = services /\ shown' = services
               /\ IF Until(services) THEN Reply(200) /\ UNCHANGED due
                  ELSE Pause /\ UNCHANGED reply
          /\ UNCHANGED <<environment, others, spans, clock, known>>

\* Mutant of QueryFails: fetch has no limit of its own.
QueryNeverFails == FALSE

\* Mutant of QueryFails: a failed query clears what was seen before.
QueryFailsForgetting == /\ pc = "query" /\ ~healthy
                        /\ Pause
                        /\ lastSeen' = {}
                        /\ UNCHANGED <<environment, others, spans, clock, known, shown, reply>>

\* Whatever fetchTrace throws: a refused connection, a status of 500, a body that
\* does not parse, the limit of fetch.
QueryFails == /\ pc = "query" /\ ~healthy
              /\ Pause
              /\ UNCHANGED <<environment, others, spans, clock, known, lastSeen, shown, reply>>

\* Mutant of Resume: the budget is compared after one query more.
ResumeLate ==
  /\ pc = "pause" /\ clock = due
  /\ IF clock - Interval < Timeout
     THEN SendQuery /\ UNCHANGED reply
     ELSE Reply(IF lastSeen # {} THEN 200 ELSE 503) /\ UNCHANGED <<due, known>>
  /\ UNCHANGED <<environment, others, spans, clock, lastSeen, shown>>

\* The timer of the pause, and the condition of the loop.
Resume == /\ pc = "pause" /\ clock = due
          /\ IF clock < Timeout
             THEN SendQuery /\ UNCHANGED reply
             ELSE Reply(IF lastSeen # {} THEN 200 ELSE 503) /\ UNCHANGED <<due, known>>
          /\ UNCHANGED <<environment, others, spans, clock, lastSeen, shown>>

------------------------------------------------------------------------------
Call == CallFails \/ CallSucceeds
Flushing == Flush \/ FlushFails

Next == \/ Call \/ Flushing \/ Tick \/ Answer \/ QueryFails \/ Resume
        \/ OthersChange \/ \E s \in Own : Index(s) \/ Lose(s)
        \/ pc = "done" /\ UNCHANGED vars

Spec == Init /\ [][Next]_vars

\* The call has a deadline, the flush a timeout, fetch a limit; a query API is
\* assumed to answer only when it is healthy.
FairSpec == /\ Spec
            /\ WF_vars(Call) /\ WF_vars(Flushing) /\ WF_vars(Resume) /\ WF_vars(Tick)
            /\ WF_vars(QueryFails) /\ WF_vars(healthy /\ Answer)
            /\ \A s \in Own : WF_vars(healthy /\ Index(s))

------------------------------------------------------------------------------
(* Properties. *)

\* Every variable has its type (trace-test.ts:26-124, jaeger.ts:94-99).
TypeOK ==
  /\ healthy \in BOOLEAN /\ sampled \in BOOLEAN /\ propagated \in BOOLEAN
  /\ joined \in BOOLEAN /\ others \subseteq Services
  /\ pc \in {"call", "flush", "query", "pause", "done"}
  /\ spans \in [Own -> {"none", "queued", "exported", "indexed", "lost"}]
  /\ clock \in Nat /\ due \in Nat
  /\ known \subseteq Services /\ lastSeen \subseteq Services
  /\ shown \subseteq Services
  /\ reply \in {0, 200, 500, 502, 503}

Verified == reply = 200

\* cross_service of the answer.
CrossService == Verified /\ "gateway" \in lastSeen /\ lastSeen # {"gateway"}

\* With a healthy pipeline the answer is never a false alarm: however late the
\* spans of either service arrive within the lag, and whatever else is in the
\* trace, cross_service is reported, unless the call itself failed
\* (trace-test.ts:83-92, README.md:179-181).
NoFalseAlarm ==
  reply # 0 /\ healthy /\ sampled /\ propagated => CrossService \/ reply = 502

\* A verdict says no more and no less than the answers of Jaeger did: 200 if and
\* only if some answer had spans, the last of these is reported, and, in a trace
\* that began with this request, cross_service is reported only if the context
\* crossed the hop (jaeger.ts:97-99, trace-test.ts:112-115).
VerdictHonest ==
  /\ Verified => lastSeen = shown /\ shown # {}
  /\ reply = 503 => shown = {}
  /\ CrossService /\ ~joined => propagated

\* The polling overruns its budget by a pause and one query at most, a query that
\* is only limited by fetch itself (jaeger.ts:101-113).
EndsInTime == clock < Timeout + FetchLimit + Interval

\* The route answers, although Jaeger never may.
RouteEnds == <>(reply # 0)

\* The inductive invariant behind the theorems.  A query is sent within the budget
\* and is over after its limit, a pause follows it.
TimeInv ==
  /\ pc \in {"call", "flush"} => clock = 0
  /\ pc = "query" => clock <= due /\ due < Timeout + Limit
  /\ pc = "pause" => clock <= due /\ due < Timeout + Limit + Interval
  /\ clock < Timeout + Limit + Interval

\* Whatever was seen was recorded and, in a trace that began here, comes from a
\* span of this request that was exported.
SeenInv ==
  /\ \A s \in Own : spans[s] # "none" => s \in Exportable
  /\ joined \/ (others = {} /\ known \subseteq Exportable /\ lastSeen \subseteq Exportable)
  /\ lastSeen = shown
  /\ reply # 0 <=> pc = "done"
  /\ reply = 200 => lastSeen # {}
  /\ reply = 503 => lastSeen = {}

\* With a healthy pipeline and room for it in the budget, a query that misses a
\* span was sent early enough for another one to follow.
LagInv ==
  healthy /\ sampled /\ propagated /\ Lag + QueryTime + Interval < Timeout =>
    /\ pc = "flush" =>
         spans["gateway"] = "queued" /\ spans["sidecar"] \in {"exported", "indexed"}
    /\ pc \in {"query", "pause"} =>
         /\ \A s \in Own : spans[s] \in {"exported", "indexed"}
         /\ clock <= Lag \/ Own \subseteq Indexed
    /\ pc = "query" => /\ known \subseteq Indexed
                       /\ Own \subseteq known \/ due <= Lag + QueryTime
    /\ pc = "pause" => due <= Lag + QueryTime + Interval
    /\ pc = "done" => CrossService \/ reply = 502

IInv == TypeOK /\ TimeInv /\ SeenInv /\ LagInv

\* The README knows three outcomes: 200, 503 if the trace never appeared, 502 if
\* the call to the sidecar failed (README.md:179-181).
DocumentedOutcome == reply \in {0, 200, 502, 503}

==============================================================================
