------------------------------- MODULE Gateway -------------------------------
(* The gateway process from start to exit: the warm-up and the ordered shutdown
   of api/src/server.ts, POST /predict with the retry policy and the deadline of
   api/src/grpc-client.ts, the readiness probe, and the spans of the requests.

   The sidecar comes and goes at any time, and so do the callers: a caller that
   hangs up takes its connection away but not the call made for it, which
   nobody cancels.  Of grpc-js the model keeps what the
   code relies on: a call waits while the channel connects and fails at once in
   TRANSIENT_FAILURE; a connection that is lost leaves the channel IDLE until a
   call, or the warm-up, wakes it; after a failed attempt to connect the channel
   stays in TRANSIENT_FAILURE until it succeeds; a channel that is closed fails
   the calls without a connection and leaves the others to their connection.  *)
EXTENDS Integers, Sequences

CONSTANTS Requests,       \* requests to POST /predict and GET /stream
          MaxAttempts,    \* maxAttempts of the retry policy
          SidecarCodes    \* statuses with which the sidecar itself answers

ASSUME GatewayAssumption ==
  /\ MaxAttempts \in Nat \ {0}
  /\ SidecarCodes \subseteq {"OK", "INVALID_ARGUMENT", "NOT_FOUND", "RESOURCE_EXHAUSTED",
                             "UNIMPLEMENTED", "INTERNAL", "UNKNOWN"}

VARIABLES phase,     \* how far main() and shutdown() are
          waiting,   \* the warm-up is inside waitForReady, not in its delay
          expired,   \* SIDECAR_WAIT_MS is over
          exit,      \* how the process ended
          channel,   \* connectivity state of the channel
          up,        \* the sidecar can be reached
          gone,      \* requests whose caller hung up before the answer
          pc,        \* where a request is
          sends,     \* attempts of a request that reached the sidecar
          codes,     \* statuses of the attempts of a request that have ended
          reply,     \* HTTP status its caller got, unless it is a stream; 0 before
          span       \* what became of its spans

processVars == <<phase, waiting, expired, exit>>
channelVars == <<channel, up>>
requestVars == <<gone, pc, sends, codes, reply, span>>
vars == <<processVars, channelVars, requestVars>>

Init == /\ phase = "warming" /\ waiting = TRUE /\ expired = FALSE /\ exit = "running"
        /\ channel = "IDLE" /\ up \in BOOLEAN
        /\ gone = {}
        /\ pc = [r \in Requests |-> "idle"]
        /\ sends = [r \in Requests |-> 0]
        /\ codes = [r \in Requests |-> <<>>]
        /\ reply = [r \in Requests |-> 0]
        /\ span = [r \in Requests |-> "none"]

\* Requests whose unary call is open, and whose call of either kind is.
Asking == {r \in Requests : pc[r] \in {"queued", "sent", "backoff"}}
Calling == {r \in Requests : pc[r] \notin {"idle", "done"}}
Running == exit = "running"

------------------------------------------------------------------------------
(* Start. *)

Exit(how) == phase' = "exited" /\ exit' = how

\* main() rejects: the port is taken.
Fatal == Exit("failed")

\* The loop is left, and its deadline forgotten.
Listen == /\ \/ phase' = "serving" /\ UNCHANGED exit
             \/ Fatal
          /\ expired' = FALSE

SidecarReady == /\ phase = "warming" /\ waiting /\ channel = "READY"
                /\ Listen
                /\ UNCHANGED <<waiting, channelVars, requestVars>>

\* Mutant of WaitFails: the deadline is left to waitForReady alone.
WaitFailsAgain == /\ phase = "warming" /\ waiting
                  /\ waiting' = FALSE
                  /\ UNCHANGED <<phase, expired, exit, channelVars, requestVars>>

\* waitForReady gives up, perhaps a moment before the deadline it was given.
WaitFails == /\ phase = "warming" /\ waiting
             /\ IF expired THEN Listen /\ UNCHANGED waiting
                ELSE waiting' = FALSE /\ UNCHANGED <<phase, expired, exit>>
             /\ UNCHANGED <<channelVars, requestVars>>

DelayOver == /\ phase = "warming" /\ ~waiting
             /\ waiting' = TRUE
             /\ UNCHANGED <<phase, expired, exit, channelVars, requestVars>>

Expire == /\ phase = "warming" /\ ~expired
          /\ expired' = TRUE
          /\ UNCHANGED <<phase, waiting, exit, channelVars, requestVars>>

------------------------------------------------------------------------------
(* The channel and the sidecar. *)

NeedsConnection == \/ phase = "warming" /\ waiting
                   \/ \E r \in Requests : pc[r] = "queued"

\* A call that needs a connection, or waitForReady, wakes an idle channel; the
\* call of a stream, which is not followed here, may need one or not.
Wake == /\ Running /\ channel = "IDLE"
        /\ NeedsConnection \/ \E r \in Requests : pc[r] = "streaming"
        /\ channel' = "CONNECTING"
        /\ UNCHANGED <<processVars, up, requestVars>>

Connect == /\ Running /\ channel \in {"CONNECTING", "TRANSIENT_FAILURE"} /\ up
           /\ channel' = "READY"
           /\ UNCHANGED <<processVars, up, requestVars>>

ConnectFails == /\ Running /\ channel = "CONNECTING" /\ ~up
                /\ channel' = "TRANSIENT_FAILURE"
                /\ UNCHANGED <<processVars, up, requestVars>>

Disconnect == /\ Running /\ channel = "READY"
              /\ channel' = "IDLE"
              /\ UNCHANGED <<processVars, up, requestVars>>

SidecarToggles == /\ Running
                  /\ up' = ~up
                  /\ UNCHANGED <<processVars, channel, requestVars>>

------------------------------------------------------------------------------
(* Requests. *)

\* Mutant of HttpStatusForGrpc: the number of the gRPC status is sent as it is.
HttpStatusForGrpcUnmapped(code) ==
  CASE code = "OK" -> 200 [] code = "UNAVAILABLE" -> 14 [] OTHER -> 4

\* httpStatusForGrpc, and the 200 of an answer.
HttpStatusForGrpc(code) ==
  CASE code = "OK" -> 200
    [] code = "INVALID_ARGUMENT" -> 400
    [] code = "NOT_FOUND" -> 404
    [] code = "RESOURCE_EXHAUSTED" -> 429
    [] code = "UNIMPLEMENTED" -> 501
    [] code = "UNAVAILABLE" -> 503
    [] code = "DEADLINE_EXCEEDED" -> 504
    [] OTHER -> 502

\* Nothing is left to do: the last span has ended and waits in the batch
\* processor, which drops it once its own shutdown has begun.
Finish(r) ==
  /\ pc' = [pc EXCEPT ![r] = "done"]
  /\ span' = [span EXCEPT ![r] = IF phase = "stopping" THEN "dropped" ELSE "queued"]

\* What is written to a connection that is gone reaches nobody.
Reply(r, http) == /\ Finish(r)
                  /\ reply' = [reply EXCEPT ![r] = IF r \in gone THEN @ ELSE http]

\* A body that does not parse or does not match the schema.
BadRequest(r) == /\ phase = "serving" /\ pc[r] = "idle"
                 /\ Reply(r, 400)
                 /\ UNCHANGED <<processVars, channelVars, gone, sends, codes>>

Accept(r) == /\ phase = "serving" /\ pc[r] = "idle"
             /\ pc' = [pc EXCEPT ![r] = "queued"]
             /\ span' = [span EXCEPT ![r] = "open"]
             /\ UNCHANGED <<processVars, channelVars, gone, sends, codes, reply>>

\* POST /predict has no listener for it: the call goes on.
HangUp(r) == /\ Running /\ r \in Asking \ gone
             /\ gone' = gone \cup {r}
             /\ UNCHANGED <<processVars, channelVars, pc, sends, codes, reply, span>>

\* A request on a connection that was kept alive while the server closes.
RefuseClosing(r) == /\ phase = "closing" /\ pc[r] = "idle"
                    /\ Reply(r, 503)
                    /\ UNCHANGED <<processVars, channelVars, gone, sends, codes>>

Send(r) == /\ Running /\ pc[r] = "queued" /\ channel = "READY"
           /\ pc' = [pc EXCEPT ![r] = "sent"]
           /\ sends' = [sends EXCEPT ![r] = @ + 1]
           /\ UNCHANGED <<processVars, channelVars, gone, codes, reply, span>>

\* Mutant of Retryable: whatever is not an answer is tried again.
RetryableWidely(code) == code \notin {"OK", "INVALID_ARGUMENT"}

\* retryableStatusCodes
Retryable(code) == code = "UNAVAILABLE"

EndsWith(r, code) == /\ codes' = [codes EXCEPT ![r] = Append(@, code)]
                     /\ UNCHANGED <<processVars, channelVars, gone, sends>>

CallEnds(r, code) == EndsWith(r, code) /\ Reply(r, HttpStatusForGrpc(code))

AttemptEnds(r, code) ==
  IF Retryable(code) /\ Len(codes[r]) + 1 < MaxAttempts
  THEN /\ EndsWith(r, code)
       /\ pc' = [pc EXCEPT ![r] = "backoff"] /\ UNCHANGED <<reply, span>>
  ELSE CallEnds(r, code)

SidecarAnswers(r) == /\ Running /\ pc[r] = "sent"
                     /\ \E code \in SidecarCodes : AttemptEnds(r, code)

\* The connection goes with the call on it: the sidecar may have computed it.  A
\* call whose response headers had come is committed, and not tried again.
CallLost(r) == /\ Running /\ pc[r] = "sent"
               /\ AttemptEnds(r, "UNAVAILABLE") \/ CallEnds(r, "UNAVAILABLE")

\* On a channel that was closed there may, or may not, be another pause first.
PickFails(r) ==
  /\ Running /\ pc[r] = "queued"
  /\ \/ channel = "TRANSIENT_FAILURE" /\ AttemptEnds(r, "UNAVAILABLE")
     \/ /\ channel = "SHUTDOWN"
        /\ AttemptEnds(r, "UNAVAILABLE") \/ CallEnds(r, "UNAVAILABLE")

BackoffOver(r) == /\ Running /\ pc[r] = "backoff"
                  /\ pc' = [pc EXCEPT ![r] = "queued"]
                  /\ UNCHANGED <<processVars, channelVars, gone, sends, codes, reply, span>>

\* Mutant of Deadline: only an attempt the sidecar has received is bounded.
DeadlineOfAttempt(r) == /\ Running /\ pc[r] = "backoff"
                        /\ Reply(r, HttpStatusForGrpc("DEADLINE_EXCEEDED"))
                        /\ UNCHANGED <<processVars, channelVars, gone, sends, codes>>

\* One deadline for all attempts and the pauses between them.
Deadline(r) == /\ Running /\ r \in Asking
               /\ Reply(r, HttpStatusForGrpc("DEADLINE_EXCEEDED"))
               /\ UNCHANGED <<processVars, channelVars, gone, sends, codes>>

\* A stream opens with its headers, whatever becomes of its call (SseBridge).
StreamOpens(r) == /\ phase = "serving" /\ pc[r] = "idle"
                  /\ pc' = [pc EXCEPT ![r] = "streaming"]
                  /\ span' = [span EXCEPT ![r] = "open"]
                  /\ UNCHANGED <<processVars, channelVars, gone, sends, codes, reply>>

\* Its route ends, or its client leaves, and with them its call.
StreamCloses(r) == /\ Running /\ pc[r] = "streaming"
                   /\ Finish(r)
                   /\ UNCHANGED <<processVars, channelVars, gone, sends, codes, reply>>

\* The spans in one place of the batch processor, all moved to another.
Moved(from, to) == [r \in Requests |-> IF span[r] = from THEN to ELSE span[r]]

\* The timer of the batch processor: an export that fails drops its spans.
BatchExport == /\ Running
               /\ \E r \in Requests : span[r] = "queued"
               /\ span' \in {Moved("queued", "exported"), Moved("queued", "dropped")}
               /\ UNCHANGED <<processVars, channelVars, gone, pc, sends, codes, reply>>

------------------------------------------------------------------------------
(* Shutdown. *)

\* SIGTERM or SIGINT; a second one is ignored.
Signal == /\ phase = "serving"
          /\ phase' = "closing"
          /\ UNCHANGED <<waiting, expired, exit, channelVars, requestVars>>

\* A signal before listen() finds no handler; SIGKILL never does.
Kill == /\ Running
        /\ Exit("killed")
        /\ UNCHANGED <<waiting, expired, channelVars, requestVars>>

\* Everything queued goes out, the channel is closed before.
CloseChannel == /\ phase' = "flushing" /\ channel' = "SHUTDOWN"
                /\ span' = Moved("queued", "flushing")
                /\ UNCHANGED <<waiting, expired, exit, up, gone, pc, sends, codes, reply>>

\* Mutant of AppClosed: app.close() is not awaited.
AppClosedAtOnce == phase = "closing" /\ CloseChannel

\* app.close() waits for connections: no answer is owed to anybody who is still
\* there, but the calls of those who left may be open.  Then, in one stretch,
\* the channel is closed and the flush begins.
AppClosed == /\ phase = "closing" /\ Calling \subseteq gone
             /\ CloseChannel

\* What has ended during the flush is left for the one of provider.shutdown().
Flush == /\ phase = "flushing"
         /\ phase' = "stopping"
         /\ span' = [r \in Requests |-> CASE span[r] = "flushing" -> "exported"
                                         [] span[r] = "queued" -> "flushing"
                                         [] OTHER -> span[r]]
         /\ UNCHANGED <<waiting, expired, exit, channelVars, gone, pc, sends, codes, reply>>

\* Mutant of FlushFails: flushTraces() swallows the rejection.
FlushFailsSilently ==
  /\ phase = "flushing"
  /\ phase' = "stopping" /\ span' = Moved("flushing", "lost")
  /\ UNCHANGED <<waiting, expired, exit, channelVars, gone, pc, sends, codes, reply>>

FlushFails == /\ phase = "flushing"
              /\ Exit("failed") /\ span' = Moved("flushing", "lost")
              /\ UNCHANGED <<waiting, expired, channelVars, gone, pc, sends, codes, reply>>

\* The end of provider.shutdown().
TracingStopped ==
  /\ phase = "stopping"
  /\ \/ Exit("clean") /\ span' = Moved("flushing", "exported")
     \/ Exit("failed") /\ span' = Moved("flushing", "lost")
  /\ UNCHANGED <<waiting, expired, channelVars, gone, pc, sends, codes, reply>>

------------------------------------------------------------------------------
Start == SidecarReady \/ WaitFails \/ DelayOver
Shutdown == AppClosed \/ Flush \/ FlushFails \/ TracingStopped
Call(r) == Send(r) \/ PickFails(r) \/ BackoffOver(r)

Next == \/ Start \/ Expire \/ Shutdown \/ Signal \/ Kill
        \/ Wake \/ Connect \/ ConnectFails \/ Disconnect \/ SidecarToggles
        \/ \E r \in Requests : \/ BadRequest(r) \/ Accept(r) \/ RefuseClosing(r)
                               \/ Call(r) \/ SidecarAnswers(r) \/ CallLost(r)
                               \/ Deadline(r) \/ HangUp(r)
                               \/ StreamOpens(r) \/ StreamCloses(r)
        \/ BatchExport
        \/ ~Running /\ UNCHANGED vars

Spec == Init /\ [][Next]_vars

\* The event loop with its timers, and connecting; that a stream closes is
\* SseBridge!RouteEnds.  Neither the sidecar nor a signal is ever assumed.
FairSpec == /\ Spec
            /\ WF_vars(Start) /\ WF_vars(Expire) /\ WF_vars(Shutdown)
            /\ WF_vars(Connect) /\ WF_vars(NeedsConnection /\ Wake)
            /\ \A r \in Requests : /\ WF_vars(Call(r)) /\ WF_vars(Deadline(r))
                                   /\ WF_vars(StreamCloses(r))

------------------------------------------------------------------------------
(* Properties. *)

Codes == SidecarCodes \cup {"UNAVAILABLE"}

\* Every variable has its type (server.ts:16-63, predict.ts:28-75).
TypeOK ==
  /\ phase \in {"warming", "serving", "closing", "flushing", "stopping", "exited"}
  /\ waiting \in BOOLEAN /\ expired \in BOOLEAN
  /\ exit \in {"running", "clean", "failed", "killed"}
  /\ (exit = "running") <=> (phase # "exited")
  /\ channel \in {"IDLE", "CONNECTING", "READY", "TRANSIENT_FAILURE", "SHUTDOWN"}
  /\ up \in BOOLEAN
  /\ gone \subseteq Requests
  /\ pc \in [Requests -> {"idle", "queued", "sent", "backoff", "streaming", "done"}]
  /\ sends \in [Requests -> 0..MaxAttempts]
  /\ codes \in [Requests -> Seq(Codes)]
  /\ reply \in [Requests -> {0, 200, 400, 404, 429, 501, 502, 503, 504}]
  /\ span \in [Requests -> {"none", "open", "queued", "flushing", "exported",
                             "dropped", "lost"}]

\* A verdict is an answer of the sidecar itself.
Tries(r) == Len(codes[r])
LastCode(r) == codes[r][Tries(r)]
Verdict(r) == Tries(r) > 0 /\ LastCode(r) # "UNAVAILABLE"
Exhausted(r) == Tries(r) = MaxAttempts /\ LastCode(r) = "UNAVAILABLE"

TruthAt(r) ==
  /\ \A i \in 1..(Tries(r) - 1) : codes[r][i] = "UNAVAILABLE"
  /\ Tries(r) <= MaxAttempts /\ sends[r] <= Tries(r) + 1
  /\ reply[r] = 200 => Verdict(r) /\ LastCode(r) = "OK"
  /\ reply[r] = 503 => Exhausted(r) \/ Tries(r) = 0 \/ sends[r] > 0
  /\ reply[r] = 504 => ~Verdict(r) /\ ~Exhausted(r)
  /\ Verdict(r) \/ Exhausted(r) => pc[r] = "done"

\* What the caller may conclude from a status, whatever was retried behind it:
\* 200 is an answer of the sidecar, 504 means that no attempt had one, 503 that
\* every attempt found the sidecar unavailable, that the gateway was closing, or
\* that the sidecar had the call when it became unavailable; and nothing the
\* sidecar decided was ever asked twice (grpc-client.ts:55-57).
AnswerTellsTheTruth == \A r \in Requests : TruthAt(r)

\* A process that was not killed ends with no request open but those whose caller
\* hung up, and when it reports success every span of the other requests has left
\* the batch processor, none of them in a flush that failed (server.ts:47-58).
GracefulExit ==
  /\ exit \in {"clean", "failed"} => Calling \subseteq gone
  /\ exit = "clean" =>
       \A r \in Requests \ gone : span[r] \in {"none", "exported", "dropped"}

\* The inductive invariant behind the theorems.  Where a request is, what it sent
\* and what became of its spans agree.
RequestAt(r) ==
  /\ pc[r] \in {"idle", "streaming"} => codes[r] = <<>> /\ sends[r] = 0
  /\ pc[r] \in {"queued", "backoff"} => sends[r] <= Tries(r)
  /\ pc[r] = "sent" => sends[r] > 0
  /\ pc[r] # "done" => reply[r] = 0
  /\ pc[r] = "idle" <=> span[r] = "none"
  /\ pc[r] = "done" <=> span[r] \notin {"none", "open"}

\* Once shutdown() is past app.close(), only calls of callers who left are open, and
\* only their spans still come to the batch processor.
ProcessInv ==
  /\ phase = "warming" => \A r \in Requests : pc[r] = "idle"
  /\ channel = "SHUTDOWN" => phase \in {"flushing", "stopping", "exited"}
  /\ channel = "SHUTDOWN" \/ phase \in {"flushing", "stopping"} \/ exit \in {"clean", "failed"}
       => Calling \subseteq gone
  /\ phase \in {"flushing", "stopping"} \/ exit = "clean"
       => \A r \in Requests \ gone : span[r] # "queued"
  /\ phase # "exited" => \A r \in Requests : span[r] # "lost"
  /\ exit = "clean" => \A r \in Requests : span[r] \notin {"flushing", "lost"}

IInv == /\ TypeOK /\ AnswerTellsTheTruth /\ ProcessInv
        /\ \A r \in Requests : RequestAt(r)

\* The warm-up ends and the port is bound, unless the process gives up, however
\* long the sidecar is away (server.ts:19-20).
ListensAnyway == phase = "warming" ~> phase # "warming"

\* Every accepted request comes to its end, although the sidecar may never answer
\* and its caller may be gone: only a kill cuts it off, or an exit that does not
\* wait for a caller who left (grpc-client.ts:71-73, server.ts:50).
RequestsAnswered ==
  \A r \in Requests :
    pc[r] = "queued" ~> (pc[r] = "done" \/ exit = "killed" \/ (~Running /\ r \in gone))

\* A shutdown that has begun ends, whether the collector takes the spans or not.
ShutdownEnds == phase = "closing" ~> phase = "exited"

\* Mutant of Ready: an idle channel counts as not ready.
ReadyWhenConnected == channel = "READY"

\* What /readyz answers: an idle channel is ready, since only traffic wakes it.
Ready == channel \in {"READY", "IDLE"}

\* While the sidecar can be reached a serving gateway does not stay out of
\* rotation, even if no request ever arrives (health.ts:18-22).
ReadinessRecovers ==
  (phase = "serving" /\ up) ~> (Ready \/ ~up \/ phase # "serving")

==============================================================================
