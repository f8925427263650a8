------------------------------ MODULE SseBridge ------------------------------
(* GET /stream of the gateway (api/src/routes/stream.ts) over the async
   generator `streamPredictions` (api/src/grpc-client.ts): the deltas of one
   gRPC stream become the SSE `message` events of one HTTP response.

   Four parties move independently: the sidecar, of which only its contract
   (DeltaStream) is used; the call as grpc-js keeps it, with its buffer, its
   deadline and its retries; the route, one action per stretch between two
   awaits; and the client, who reads slowly or hangs up.

   A response whose socket is destroyed accepts writes and drops them, is never
   short of room and never emits `drain`.                                    *)
EXTENDS Integers, Sequences

CONSTANTS Streams,      \* the requests
          MaxSteps,     \* MAX_STEPS of the sidecar
          Value,        \* Value[k]: what the model computes at step k
          MaxAttempts,  \* maxAttempts of the retry policy
          HighWater     \* frames a socket buffers before it asks for `drain`

ASSUME BridgeAssumption ==
  /\ MaxSteps \in Nat \ {0}
  /\ Value \in [1..MaxSteps -> Int]
  /\ MaxAttempts \in Nat \ {0}
  /\ HighWater \in Nat \ {0}

VARIABLES total, sent, outcome,  \* the sidecar's side of the current attempt
          attempts,     \* attempts of the call so far; 0 before the call
          arrived,      \* deltas that reached the buffer of the call
          status,       \* status of the call; "none" while it is open
          pc,           \* where the route is
          delivered,    \* deltas the route took and wrote
          aborted,      \* the AbortSignal
          ended,        \* writableEnded: reply.raw.end() was called
          messages,     \* `message` events the socket accepted, in order
          closing,      \* `end` and `error` events the socket accepted
          unread,       \* frames in the socket's buffer
          gone          \* the client hung up and the socket is destroyed

sidecarVars == <<total, sent, outcome>>
callVars == <<attempts, arrived, status>>
routeVars == <<pc, delivered, aborted, ended>>
socketVars == <<messages, closing, unread, gone>>
vars == <<sidecarVars, callVars, routeVars, socketVars>>

Sidecar == INSTANCE DeltaStream

Init == /\ Sidecar!Init
        /\ attempts = [r \in Streams |-> 0]
        /\ arrived = [r \in Streams |-> 0]
        /\ status = [r \in Streams |-> "none"]
        /\ pc = [r \in Streams |-> "idle"]
        /\ delivered = [r \in Streams |-> 0]
        /\ aborted = [r \in Streams |-> FALSE]
        /\ ended = [r \in Streams |-> FALSE]
        /\ messages = [r \in Streams |-> <<>>]
        /\ closing = [r \in Streams |-> <<>>]
        /\ unread = [r \in Streams |-> 0]
        /\ gone = [r \in Streams |-> FALSE]

------------------------------------------------------------------------------
(* The sidecar: it may go on for a while after the gateway gave the call up. *)

SidecarMoves(r) == /\ attempts[r] > 0
                   /\ \/ Sidecar!Open(r)
                      \/ Sidecar!Deliver(r)
                      \/ Sidecar!Complete(r)
                      \/ Sidecar!Break(r)
                   /\ UNCHANGED <<callVars, routeVars, socketVars>>

------------------------------------------------------------------------------
(* The call. *)

Open(r) == attempts[r] > 0 /\ status[r] = "none"

Arrive(r) == /\ Open(r) /\ arrived[r] < Len(sent[r])
             /\ arrived' = [arrived EXCEPT ![r] = @ + 1]
             /\ UNCHANGED <<sidecarVars, attempts, status, routeVars, socketVars>>

\* Mutant of StatusArrives: OK overtakes the deltas, too.
StatusArrivesEarly(r) ==
  /\ Open(r) /\ outcome[r] # "none"
  /\ status' = [status EXCEPT ![r] = outcome[r]]
  /\ UNCHANGED <<sidecarVars, attempts, arrived, routeVars, socketVars>>

\* OK waits for the deltas before it; grpc-js reports an error at once, and drops
\* those it has not handed to the iterator's buffer.
StatusArrives(r) == /\ Open(r) /\ outcome[r] # "none"
                    /\ outcome[r] = "OK" => arrived[r] = Len(sent[r])
                    /\ status' = [status EXCEPT ![r] = outcome[r]]
                    /\ UNCHANGED <<sidecarVars, attempts, arrived, routeVars, socketVars>>

\* Mutant of Deadline: the call is made without one.
DeadlineUnset(r) == FALSE

\* `deadline(config.grpcStreamDeadlineMs)`, over all attempts.
Deadline(r) == /\ Open(r)
               /\ status' = [status EXCEPT ![r] = "DEADLINE_EXCEEDED"]
               /\ UNCHANGED <<sidecarVars, attempts, arrived, routeVars, socketVars>>

\* grpc-js commits an attempt with its first response headers, which travel
\* with the first delta, and never retries it afterwards.
Committed(r) == arrived[r] > 0

\* Mutant of Retry: one attempt too many.
RetryOnceMore(r) == /\ Open(r) /\ ~Committed(r) /\ attempts[r] <= MaxAttempts
                    /\ attempts' = [attempts EXCEPT ![r] = @ + 1]
                    /\ total' = [total EXCEPT ![r] = 0]
                    /\ sent' = [sent EXCEPT ![r] = <<>>]
                    /\ outcome' = [outcome EXCEPT ![r] = "none"]
                    /\ UNCHANGED <<arrived, status, routeVars, socketVars>>

\* A call that is retried begins from nothing at the sidecar.
Retry(r) == /\ Open(r) /\ ~Committed(r) /\ attempts[r] < MaxAttempts
            /\ attempts' = [attempts EXCEPT ![r] = @ + 1]
            /\ total' = [total EXCEPT ![r] = 0]
            /\ sent' = [sent EXCEPT ![r] = <<>>]
            /\ outcome' = [outcome EXCEPT ![r] = "none"]
            /\ UNCHANGED <<arrived, status, routeVars, socketVars>>

Unavailable(r) == /\ Open(r) /\ (Committed(r) \/ attempts[r] = MaxAttempts)
                  /\ status' = [status EXCEPT ![r] = "UNAVAILABLE"]
                  /\ UNCHANGED <<sidecarVars, attempts, arrived, routeVars, socketVars>>

------------------------------------------------------------------------------
(* The route. *)

\* A query string that does not match the schema: a 400, and no call.
Reject(r) == /\ pc[r] = "idle"
             /\ pc' = [pc EXCEPT ![r] = "refused"]
             /\ UNCHANGED <<sidecarVars, callVars, delivered, aborted, ended, socketVars>>

\* The listener for `close`, the headers and the call, with no await between.
Start(r) == /\ pc[r] = "idle"
            /\ pc' = [pc EXCEPT ![r] = "pull"]
            /\ attempts' = [attempts EXCEPT ![r] = 1]
            /\ UNCHANGED <<sidecarVars, arrived, status, delivered, aborted, ended, socketVars>>

\* Mutant of Throttled: the return value of write is ignored.
ThrottledNever(r) == FALSE

\* writableNeedDrain, after a frame more.
Throttled(r) == ~gone[r] /\ unread[r] + 1 >= HighWater

Forward(r) ==
  /\ pc[r] = "pull" /\ ~ended[r] /\ delivered[r] < arrived[r]
  /\ delivered' = [delivered EXCEPT ![r] = @ + 1]
  /\ IF gone[r]
     THEN UNCHANGED <<messages, unread>>
     ELSE /\ messages' = [messages EXCEPT ![r] = Append(@, sent[r][delivered'[r]])]
          /\ unread' = [unread EXCEPT ![r] = @ + 1]
  /\ pc' = [pc EXCEPT ![r] = IF Throttled(r) THEN "drain" ELSE "pull"]
  /\ UNCHANGED <<sidecarVars, callVars, aborted, ended, closing, gone>>

Drain(r) == /\ pc[r] = "drain" /\ ~gone[r] /\ unread[r] = 0
            /\ pc' = [pc EXCEPT ![r] = "pull"]
            /\ UNCHANGED <<sidecarVars, callVars, delivered, aborted, ended, socketVars>>

\* A last event, unless nobody can read it, and the `finally`.
Close(r, event) ==
  /\ IF gone[r] \/ ended[r]
     THEN UNCHANGED <<closing, unread>>
     ELSE /\ closing' = [closing EXCEPT ![r] =
                           Append(@, [event |-> event, delivered |-> delivered[r]])]
          /\ unread' = [unread EXCEPT ![r] = @ + 1]
  /\ aborted' = [aborted EXCEPT ![r] = TRUE]
  /\ ended' = [ended EXCEPT ![r] = TRUE]
  /\ pc' = [pc EXCEPT ![r] = "done"]

\* The iterator hands out what is buffered before it looks at the status.
Exhausted(r) == pc[r] = "pull" /\ delivered[r] = arrived[r]

\* Mutant of Swallowed: every CANCELLED is taken for the gateway's own.
SwallowedAlways(r) == status[r] = "CANCELLED"

\* A cancellation of our own is the end of the stream, not an error.
Swallowed(r) == aborted[r] /\ status[r] = "CANCELLED"

EndOfStream(r) == /\ Exhausted(r) /\ (status[r] = "OK" \/ Swallowed(r))
                  /\ Close(r, "end")
                  /\ UNCHANGED <<sidecarVars, callVars, delivered, messages, gone>>

\* Mutant of Fail: the error is logged and the response just ended.
FailSilently(r) == /\ Exhausted(r) /\ status[r] \notin {"none", "OK"} /\ ~Swallowed(r)
                   /\ aborted' = [aborted EXCEPT ![r] = TRUE]
                   /\ ended' = [ended EXCEPT ![r] = TRUE]
                   /\ pc' = [pc EXCEPT ![r] = "done"]
                   /\ UNCHANGED <<sidecarVars, callVars, delivered, socketVars>>

\* The headers are out, so that the failure is an `error` event.
Fail(r) == /\ Exhausted(r) /\ status[r] \notin {"none", "OK"} /\ ~Swallowed(r)
           /\ Close(r, "error")
           /\ UNCHANGED <<sidecarVars, callVars, delivered, messages, gone>>

------------------------------------------------------------------------------
(* The client. *)

Read(r) == /\ ~gone[r] /\ unread[r] > 0
           /\ unread' = [unread EXCEPT ![r] = @ - 1]
           /\ UNCHANGED <<sidecarVars, callVars, routeVars, messages, closing, gone>>

\* Mutant of CancelCall: the generator was not given the signal.
CancelCallNever(r) == UNCHANGED status

\* onAbort: cancelling a call that has its status changes nothing.
CancelCall(r) == status' = [status EXCEPT ![r] = IF @ = "none" THEN "CANCELLED" ELSE @]

HangUp(r) == /\ pc[r] \in {"pull", "drain"} /\ ~gone[r]
             /\ gone' = [gone EXCEPT ![r] = TRUE]
             /\ aborted' = [aborted EXCEPT ![r] = TRUE]
             /\ CancelCall(r)
             /\ UNCHANGED <<sidecarVars, attempts, arrived, pc, delivered, ended,
                            messages, closing, unread>>

------------------------------------------------------------------------------
Call(r) == Arrive(r) \/ StatusArrives(r) \/ Deadline(r) \/ Retry(r) \/ Unavailable(r)
Route(r) == Forward(r) \/ Drain(r) \/ EndOfStream(r) \/ Fail(r)

\* A route whose client left during the wait for `drain` waits for ever.
Stuck(r) == pc[r] = "drain" /\ gone[r]

\* Nothing is left to do for any request.
Quiet == /\ \A r \in Streams : /\ pc[r] \in {"refused", "done"} \/ Stuck(r)
                               /\ attempts[r] > 0 => outcome[r] # "none"
                               /\ gone[r] \/ unread[r] = 0
         /\ UNCHANGED vars

Next == \/ \E r \in Streams : \/ SidecarMoves(r) \/ Call(r)
                              \/ Reject(r) \/ Start(r) \/ Route(r)
                              \/ Read(r) \/ HangUp(r)
        \/ Quiet

Spec == Init /\ [][Next]_vars

\* The event loop, the deadline of the call and a client who reads or leaves;
\* nothing is assumed of the sidecar or of the network.
FairSpec == /\ Spec
            /\ \A r \in Streams : /\ WF_vars(Route(r))
                                  /\ WF_vars(Deadline(r))
                                  /\ WF_vars(Read(r))

------------------------------------------------------------------------------
(* Properties. *)

SidecarCodes == {"none", "OK", "INVALID_ARGUMENT", "RESOURCE_EXHAUSTED", "CANCELLED", "INTERNAL"}

\* Every variable has its type (the state of stream.ts:40-64).
TypeOK ==
  /\ total \in [Streams -> 0..MaxSteps]
  /\ sent \in [Streams -> Seq([step : 1..MaxSteps, cumulative : Int, final : BOOLEAN])]
  /\ outcome \in [Streams -> SidecarCodes]
  /\ attempts \in [Streams -> 0..MaxAttempts]
  /\ arrived \in [Streams -> 0..MaxSteps]
  /\ status \in [Streams -> SidecarCodes \cup {"DEADLINE_EXCEEDED", "UNAVAILABLE"}]
  /\ pc \in [Streams -> {"idle", "refused", "pull", "drain", "done"}]
  /\ delivered \in [Streams -> 0..MaxSteps]
  /\ aborted \in [Streams -> BOOLEAN] /\ ended \in [Streams -> BOOLEAN]
  /\ messages \in [Streams -> Seq([step : 1..MaxSteps, cumulative : Int, final : BOOLEAN])]
  /\ closing \in [Streams -> Seq([event : {"end", "error"}, delivered : 0..MaxSteps])]
  /\ unread \in [Streams -> Nat] /\ gone \in [Streams -> BOOLEAN]

\* A client that stays is told exactly once how the stream ended, and the count
\* in that event is the number of messages it was sent (tests/src/stream.test.mjs:92-93).
OneTerminalEvent ==
  \A r \in Streams :
    /\ Len(closing[r]) <= 1
    /\ pc[r] = "done" /\ ~gone[r] => Len(closing[r]) = 1
    /\ \A i \in DOMAIN closing[r] : closing[r][i].delivered = Len(messages[r])

\* A call is open only while its route works on it for a client who is there:
\* a disconnect at any point cancels it (README.md:169-170, grpc-client.ts:122).
NoAbandonedCall ==
  \A r \in Streams : Open(r) => pc[r] \in {"pull", "drain"} /\ ~gone[r]

\* Backpressure: however slowly the client reads, the socket holds no more than
\* its high-water mark (stream.ts:89-93).
SocketBounded == \A r \in Streams : unread[r] <= HighWater

\* The client of the SSE stream is given what the proto file promises a caller of
\* the gRPC stream: the deltas in order with their running sums, `end` only after
\* the last one, and nothing after `end` or `error`.  The stream is open to the
\* client once the call is committed; every failure counts as one.
ClientTotal == [r \in Streams |-> IF Committed(r) THEN total[r] ELSE 0]
ClientOutcome ==
  [r \in Streams |->
    IF closing[r] # <<>> /\ closing[r][1].event = "end" THEN "OK"
    ELSE IF closing[r] # <<>> \/ gone[r] THEN "INTERNAL"
    ELSE "none"]
ClientStream == INSTANCE DeltaStream WITH total <- ClientTotal,
                                          sent <- messages,
                                          outcome <- ClientOutcome
KeepsContract == ClientStream!Spec

\* What that comes to for the client (stream.ts:66-110): the `message` events are
\* the deltas 1, 2, ... and after `end` all of them were there, the last one final.
ClientIsPromised == ClientStream!Promise

\* The inductive invariant behind the theorems.  The sidecar keeps its contract
\* within an attempt.
SidecarAt(r) == Sidecar!PromiseAt(r)

\* The call hands out what was sent, and its status last.
CallAt(r) ==
  /\ attempts[r] = 0 <=> pc[r] \in {"idle", "refused"}
  /\ attempts[r] = 0 => total[r] = 0 /\ outcome[r] = "none" /\ status[r] = "none"
  /\ arrived[r] <= Len(sent[r])
  /\ status[r] = "OK" => outcome[r] = "OK" /\ arrived[r] = Len(sent[r])
  /\ Open(r) => pc[r] \in {"pull", "drain"} /\ ~gone[r]

\* The route takes the deltas in order, and ends once.
RouteAt(r) ==
  /\ delivered[r] <= arrived[r]
  /\ ended[r] <=> pc[r] = "done"
  /\ aborted[r] => gone[r] \/ pc[r] = "done"
  /\ gone[r] => attempts[r] > 0 /\ closing[r] = <<>>
  /\ Len(messages[r]) <= delivered[r]
  /\ ~gone[r] => Len(messages[r]) = delivered[r]
  /\ \A i \in 1..Len(messages[r]) : messages[r][i] = sent[r][i]
  /\ Len(closing[r]) = IF pc[r] = "done" /\ ~gone[r] THEN 1 ELSE 0
  /\ \A i \in DOMAIN closing[r] :
       /\ closing[r][i].delivered = delivered[r]
       /\ closing[r][i].event = "end" => status[r] = "OK" /\ delivered[r] = arrived[r]

\* Whoever is about to write has room for a frame more.
SocketAt(r) ==
  /\ unread[r] <= HighWater
  /\ pc[r] \in {"idle", "refused", "pull"} => gone[r] \/ unread[r] < HighWater

IInv ==
  TypeOK /\ \A r \in Streams : SidecarAt(r) /\ CallAt(r) /\ RouteAt(r) /\ SocketAt(r)

\* Every route that calls the sidecar ends although the sidecar may never
\* answer, unless its client leaves while the route waits for `drain`.
RouteEnds ==
  \A r \in Streams : pc[r] = "pull" ~> (pc[r] = "done" \/ Stuck(r))

==============================================================================
