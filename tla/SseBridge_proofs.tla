--------------------------- MODULE SseBridge_proofs ---------------------------
(* For any number of requests, steps, attempts and any high-water mark: the
   client of GET /stream sees what the proto file promises a caller of the gRPC
   stream, and one terminal event; no call is left behind and the socket is
   bounded.  The invariant of a request is proved actor by actor: the sidecar,
   the call, the route, the client.                                          *)
EXTENDS SseBridge, SequenceTheorems, TLAPS

\* Names for the types of a delta and of a terminal event, and for what the
\* invariant says of one request.
DeltaType == [step : 1..MaxSteps, cumulative : Int, final : BOOLEAN]
EventType == [event : {"end", "error"}, delivered : 0..MaxSteps]
At(r) == SidecarAt(r) /\ CallAt(r) /\ RouteAt(r) /\ SocketAt(r)

\* The step leaves a request alone.
Untouched(q) ==
  /\ total'[q] = total[q] /\ sent'[q] = sent[q] /\ outcome'[q] = outcome[q]
  /\ attempts'[q] = attempts[q] /\ arrived'[q] = arrived[q] /\ status'[q] = status[q]
  /\ pc'[q] = pc[q] /\ delivered'[q] = delivered[q]
  /\ aborted'[q] = aborted[q] /\ ended'[q] = ended[q]
  /\ messages'[q] = messages[q] /\ closing'[q] = closing[q]
  /\ unread'[q] = unread[q] /\ gone'[q] = gone[q]

Spares(r) == \A q \in Streams \ {r} : Untouched(q)

\* What is known of such a request stays true.
LEMMA UntouchedKeeps ==
  ASSUME NEW q \in Streams, At(q), Untouched(q)
  PROVE  At(q)'
<1>1. SidecarAt(q)'
  BY DEF At, Untouched, SidecarAt, Sidecar!PromiseAt, Sidecar!Delta
<1>2. CallAt(q)'
  BY DEF At, Untouched, CallAt, Open
<1>3. RouteAt(q)'
  BY DEF At, Untouched, RouteAt
<1>4. SocketAt(q)'
  BY DEF At, Untouched, SocketAt
<1>5. QED
  BY <1>1, <1>2, <1>3, <1>4 DEF At

\* A delta of the sidecar has its type.
LEMMA DeltaTyped ==
  ASSUME TypeOK, NEW r \in Streams, NEW k \in 1..MaxSteps, k - 1 <= Len(sent[r])
  PROVE  Sidecar!Delta(r, k) \in DeltaType
<1>1. sent[r] \in Seq(DeltaType) /\ Value[k] \in Int /\ total[r] \in 0..MaxSteps
  BY BridgeAssumption DEF TypeOK, DeltaType
<1>2. k # 1 => sent[r][k - 1].cumulative \in Int
  <2>1. k # 1 => k - 1 \in 1..Len(sent[r])
    BY BridgeAssumption
  <2>2. k # 1 => sent[r][k - 1] \in DeltaType
    BY <1>1, <2>1, ElementOfSeq
  <2>3. QED
    BY <2>2 DEF DeltaType
<1>3. Value[k] + (IF k = 1 THEN 0 ELSE sent[r][k - 1].cumulative) \in Int
  BY <1>1, <1>2
<1>4. QED
  BY <1>3, Zenon DEF Sidecar!Delta, DeltaType

\* A delta that the sidecar sends continues its stream.
LEMMA DeliverKeeps ==
  ASSUME TypeOK, NEW r \in Streams, SidecarAt(r), Sidecar!Deliver(r)
  PROVE  /\ SidecarAt(r)'
         /\ sent' \in [Streams -> Seq(DeltaType)]
         /\ Len(sent'[r]) = Len(sent[r]) + 1
         /\ \A i \in 1..Len(sent[r]) : sent'[r][i] = sent[r][i]
         /\ \A q \in Streams \ {r} : sent'[q] = sent[q]
<1> DEFINE n == Len(sent[r])
           d == Sidecar!Delta(r, n + 1)
           t == Append(sent[r], d)
<1>1. /\ sent[r] \in Seq(DeltaType) /\ sent \in [Streams -> Seq(DeltaType)] /\ n \in Nat
      /\ total[r] \in 0..MaxSteps /\ MaxSteps \in Nat
  BY LenProperties, BridgeAssumption DEF TypeOK, DeltaType
<1>2. /\ outcome[r] = "none" /\ n < total[r] /\ sent' = [sent EXCEPT ![r] = t]
      /\ total' = total /\ outcome' = outcome
  BY DEF Sidecar!Deliver
<1>3. d \in DeltaType
  <2>1. n + 1 \in 1..MaxSteps /\ (n + 1) - 1 <= Len(sent[r])
    BY <1>1, <1>2
  <2>2. QED
    BY <2>1, DeltaTyped
<1> HIDE DEF d
<1>4. /\ t \in Seq(DeltaType) /\ Len(t) = n + 1 /\ t[n + 1] = d
      /\ \A i \in 1..n : t[i] = sent[r][i]
  BY <1>1, <1>3, AppendProperties
<1> HIDE DEF t
<1>5. sent'[r] = t
  BY <1>1, <1>2
<1>6. ASSUME NEW i \in 1..(n + 1)
      PROVE  sent'[r][i] = Sidecar!Delta(r, i)'
  <2>1. i # 1 => i - 1 \in 1..n
    BY <1>1
  <2>2. i # 1 => sent'[r][i - 1] = sent[r][i - 1]
    BY <1>4, <1>5, <2>1
  <2>3. Sidecar!Delta(r, i)' = Sidecar!Delta(r, i)
    <3>1. (IF i = 1 THEN 0 ELSE sent'[r][i - 1].cumulative)
            = (IF i = 1 THEN 0 ELSE sent[r][i - 1].cumulative)
      BY <2>2
    <3>2. QED
      BY <1>2, <3>1, Zenon DEF Sidecar!Delta
  <2>4. CASE i = n + 1
    BY <1>4, <1>5, <2>3, <2>4 DEF d
  <2>5. CASE i # n + 1
    <3>1. i \in 1..n
      BY <1>1, <2>5
    <3>2. sent[r][i] = Sidecar!Delta(r, i)
      BY <3>1 DEF SidecarAt, Sidecar!PromiseAt
    <3>3. QED
      BY <1>4, <1>5, <2>3, <3>1, <3>2
  <2>6. QED
    BY <2>4, <2>5
<1>7. SidecarAt(r)'
  <2>1. Len(sent'[r]) <= total'[r]
    BY <1>1, <1>2, <1>4, <1>5
  <2>2. \A i \in 1..Len(sent'[r]) : sent'[r][i] = Sidecar!Delta(r, i)'
    BY <1>4, <1>5, <1>6
  <2>3. outcome'[r] # "OK"
    BY <1>2
  <2>4. QED
    BY <2>1, <2>2, <2>3 DEF SidecarAt, Sidecar!PromiseAt
<1>8. QED
  BY <1>1, <1>2, <1>4, <1>5, <1>7

\* Whatever the sidecar does, what the gateway has received stays as it was.
LEMMA SidecarStep ==
  ASSUME TypeOK, NEW r \in Streams, At(r), SidecarMoves(r)
  PROVE  /\ At(r)' /\ Spares(r) /\ TypeOK'
         /\ UNCHANGED <<callVars, routeVars, socketVars>>
<1>0. /\ attempts[r] > 0 /\ outcome[r] = "none"
      /\ UNCHANGED <<callVars, routeVars, socketVars>>
  BY DEF SidecarMoves, Sidecar!Open, Sidecar!Deliver, Sidecar!Complete, Sidecar!Break
<1>1. /\ sent \in [Streams -> Seq(DeltaType)] /\ Len(sent[r]) \in Nat
      /\ total[r] \in 0..MaxSteps /\ MaxSteps \in Nat /\ attempts[r] \in Nat
      /\ arrived[r] \in Nat
  <2>1. sent \in [Streams -> Seq(DeltaType)] /\ Len(sent[r]) \in Nat
    BY LenProperties DEF TypeOK, DeltaType
  <2>2. /\ total[r] \in 0..MaxSteps /\ MaxSteps \in Nat /\ attempts[r] \in Nat
        /\ arrived[r] \in Nat
    BY BridgeAssumption DEF TypeOK
  <2>3. QED
    BY <2>1, <2>2
<1>2. /\ SidecarAt(r)' /\ sent' \in [Streams -> Seq(DeltaType)]
      /\ Len(sent[r]) <= Len(sent'[r])
      /\ \A i \in 1..Len(sent[r]) : sent'[r][i] = sent[r][i]
      /\ \A q \in Streams \ {r} : sent'[q] = sent[q]
  <2>1. CASE Sidecar!Deliver(r)
    BY <1>1, <2>1, DeliverKeeps DEF At
  <2>2. CASE Sidecar!Open(r)
    <3>1. /\ total[r] = 0 /\ sent' = sent /\ outcome' = outcome
          /\ total'[r] \in 1..MaxSteps
      BY <2>2 DEF Sidecar!Open, TypeOK
    <3>2. Len(sent[r]) = 0
      BY <1>1, <3>1 DEF At, SidecarAt, Sidecar!PromiseAt
    <3>3. Len(sent'[r]) = 0 /\ outcome'[r] # "OK"
      BY <1>0, <3>1, <3>2
    <3>4. QED
      BY <1>1, <3>1, <3>2, <3>3 DEF SidecarAt, Sidecar!PromiseAt
  <2>3. CASE Sidecar!Complete(r) \/ Sidecar!Break(r)
    <3>1. /\ total' = total /\ sent' = sent
          /\ outcome'[r] = "OK" => Len(sent[r]) = total[r] /\ total[r] > 0
      BY <2>3 DEF Sidecar!Complete, Sidecar!Break, TypeOK, SidecarCodes
    <3>2. SidecarAt(r)'
      BY <3>1 DEF At, SidecarAt, Sidecar!PromiseAt, Sidecar!Delta
    <3>3. QED
      BY <1>1, <3>1, <3>2
  <2>4. QED
    BY <2>1, <2>2, <2>3 DEF SidecarMoves
<1>3. CallAt(r)'
  <2>1. Len(sent'[r]) \in Nat
    BY <1>2, LenProperties
  <2>2. arrived[r] <= Len(sent'[r])
    BY <1>1, <1>2, <2>1 DEF At, CallAt
  <2>3. status[r] # "OK"
    BY <1>0 DEF At, CallAt
  <2>4. QED
    BY <1>0, <1>1, <2>2, <2>3 DEF At, CallAt, Open, callVars, routeVars, socketVars
<1>4. RouteAt(r)'
  <2>1. Len(messages[r]) <= Len(sent[r])
    <3>1. /\ Len(messages[r]) \in Nat /\ delivered[r] \in Nat
          /\ Len(messages[r]) <= delivered[r] /\ delivered[r] <= arrived[r]
          /\ arrived[r] <= Len(sent[r])
      BY LenProperties DEF At, RouteAt, CallAt, TypeOK
    <3>2. QED
      BY <1>1, <3>1
  <2>2. \A i \in 1..Len(messages[r]) : messages[r][i] = sent'[r][i]
    BY <1>1, <1>2, <2>1 DEF At, RouteAt
  <2>3. QED
    BY <1>0, <2>2 DEF At, RouteAt, callVars, routeVars, socketVars
<1>5. SocketAt(r)'
  BY <1>0 DEF At, SocketAt, routeVars, socketVars
<1>6. Spares(r)
  BY <1>0, <1>2
  DEF Spares, Untouched, callVars, routeVars, socketVars, SidecarMoves, Sidecar!Open,
      Sidecar!Deliver, Sidecar!Complete, Sidecar!Break, TypeOK
<1>7. TypeOK'
  <2>1. total' \in [Streams -> 0..MaxSteps]
    <3>1. total' = total \/ \E n \in 0..MaxSteps : total' = [total EXCEPT ![r] = n]
      BY <1>1 DEF SidecarMoves, Sidecar!Open, Sidecar!Deliver, Sidecar!Complete,
                  Sidecar!Break
    <3>2. QED
      BY <3>1 DEF TypeOK
  <2>2. outcome' \in [Streams -> SidecarCodes]
    <3>1. outcome' = outcome \/ \E code \in SidecarCodes : outcome' = [outcome EXCEPT ![r] = code]
      BY DEF SidecarMoves, Sidecar!Open, Sidecar!Deliver, Sidecar!Complete,
             Sidecar!Break, SidecarCodes
    <3>2. QED
      BY <3>1 DEF TypeOK
  <2>3. QED
    BY <1>0, <1>2, <2>1, <2>2 DEF TypeOK, DeltaType, callVars, routeVars, socketVars
<1>8. QED
  BY <1>0, <1>2, <1>3, <1>4, <1>5, <1>6, <1>7 DEF At

\* The call moves deltas and statuses, and starts over only while nothing came.
LEMMA CallStep ==
  ASSUME TypeOK, NEW r \in Streams, At(r), Call(r)
  PROVE  /\ At(r)' /\ Spares(r) /\ TypeOK'
         /\ UNCHANGED <<routeVars, socketVars>>
<1>0. /\ Open(r) /\ attempts[r] > 0 /\ status[r] = "none"
      /\ UNCHANGED <<routeVars, socketVars>>
  BY DEF Call, Arrive, StatusArrives, Deadline, Retry, Unavailable, Open
<1>1. /\ sent[r] \in Seq(DeltaType) /\ Len(sent[r]) \in Nat
      /\ messages[r] \in Seq(DeltaType) /\ Len(messages[r]) \in Nat
  BY LenProperties DEF TypeOK, DeltaType
<1>2. /\ total[r] \in 0..MaxSteps /\ MaxSteps \in Nat \ {0} /\ MaxAttempts \in Nat \ {0}
      /\ attempts[r] \in 0..MaxAttempts /\ arrived[r] \in 0..MaxSteps
      /\ delivered[r] \in 0..MaxSteps
  BY BridgeAssumption DEF TypeOK
<1>3. /\ Len(sent[r]) <= total[r] /\ arrived[r] <= Len(sent[r])
      /\ delivered[r] <= arrived[r] /\ Len(messages[r]) <= delivered[r]
      /\ pc[r] \in {"pull", "drain"} /\ ~gone[r] /\ closing[r] = <<>>
  <2>1. Len(closing[r]) = 0 => closing[r] = <<>>
    BY EmptySeq DEF TypeOK
  <2>2. QED
    BY <1>0, <2>1 DEF At, SidecarAt, Sidecar!PromiseAt, CallAt, RouteAt
<1>4. CASE Arrive(r)
  <2>1. /\ arrived' = [arrived EXCEPT ![r] = arrived[r] + 1] /\ arrived[r] < Len(sent[r])
        /\ UNCHANGED <<sidecarVars, attempts, status>>
    BY <1>4 DEF Arrive
  <2>2. arrived[r] + 1 \in 0..MaxSteps /\ arrived'[r] = arrived[r] + 1
    <3>1. arrived[r] + 1 \in 0..MaxSteps
      BY <1>1, <1>2, <1>3, <2>1
    <3>2. arrived'[r] = arrived[r] + 1
      BY <2>1 DEF TypeOK
    <3>3. QED
      BY <3>1, <3>2
  <2>3. TypeOK'
    BY <1>0, <2>1, <2>2 DEF TypeOK, sidecarVars, routeVars, socketVars
  <2>4. SidecarAt(r)' /\ CallAt(r)' /\ SocketAt(r)'
    BY <1>0, <1>1, <1>2, <1>3, <2>1, <2>2
    DEF At, SidecarAt, Sidecar!PromiseAt, CallAt, SocketAt, Open, Sidecar!Delta, sidecarVars, routeVars, socketVars
  <2>5. RouteAt(r)'
    BY <1>0, <1>1, <1>2, <1>3, <2>1, <2>2 DEF At, RouteAt, sidecarVars, routeVars, socketVars
  <2>6. Spares(r)
    BY <1>0, <2>1 DEF Spares, Untouched, sidecarVars, routeVars, socketVars
  <2>7. QED
    BY <1>0, <2>3, <2>4, <2>5, <2>6 DEF At
<1>5. CASE StatusArrives(r) \/ Deadline(r) \/ Unavailable(r)
  <2>1. PICK code \in (SidecarCodes \ {"none"}) \cup {"DEADLINE_EXCEEDED", "UNAVAILABLE"} :
          /\ status' = [status EXCEPT ![r] = code]
          /\ code = "OK" => outcome[r] = "OK" /\ arrived[r] = Len(sent[r])
    <3>1. CASE StatusArrives(r)
      BY <3>1 DEF StatusArrives, TypeOK
    <3>2. CASE Deadline(r) \/ Unavailable(r)
      BY <3>2 DEF Deadline, Unavailable
    <3>3. QED
      BY <1>5, <3>1, <3>2
  <2>2. UNCHANGED <<sidecarVars, attempts, arrived>>
    BY <1>5 DEF StatusArrives, Deadline, Unavailable
  <2>3. status'[r] = code /\ code # "none"
    BY <2>1 DEF TypeOK, SidecarCodes
  <2>4. TypeOK'
    <3>1. status' \in [Streams -> SidecarCodes \cup {"DEADLINE_EXCEEDED", "UNAVAILABLE"}]
      BY <2>1 DEF TypeOK
    <3>2. QED
      BY <1>0, <2>2, <3>1 DEF TypeOK, sidecarVars, routeVars, socketVars
  <2>5. SidecarAt(r)' /\ CallAt(r)' /\ SocketAt(r)'
    BY <1>0, <1>2, <2>1, <2>2, <2>3
    DEF At, SidecarAt, Sidecar!PromiseAt, CallAt, SocketAt, Open, Sidecar!Delta, sidecarVars, routeVars, socketVars
  <2>6. RouteAt(r)'
    BY <1>0, <1>3, <2>2 DEF At, RouteAt, sidecarVars, routeVars, socketVars
  <2>7. Spares(r)
    BY <1>0, <2>1, <2>2 DEF Spares, Untouched, sidecarVars, routeVars, socketVars
  <2>8. QED
    BY <1>0, <2>4, <2>5, <2>6, <2>7 DEF At
<1>6. CASE Retry(r)
  <2>1. /\ ~Committed(r) /\ attempts[r] < MaxAttempts
        /\ attempts' = [attempts EXCEPT ![r] = attempts[r] + 1]
        /\ total' = [total EXCEPT ![r] = 0]
        /\ sent' = [sent EXCEPT ![r] = <<>>]
        /\ outcome' = [outcome EXCEPT ![r] = "none"]
        /\ UNCHANGED <<arrived, status>>
    BY <1>6 DEF Retry
  <2>2. /\ attempts'[r] = attempts[r] + 1 /\ total'[r] = 0 /\ sent'[r] = <<>>
        /\ outcome'[r] = "none"
    BY <2>1 DEF TypeOK
  <2>3. arrived[r] = 0 /\ delivered[r] = 0 /\ Len(messages[r]) = 0
    BY <1>1, <1>2, <1>3, <2>1 DEF Committed
  <2>4. Len(sent'[r]) = 0
    BY <2>2
  <2>5. TypeOK'
    <3>1. attempts' \in [Streams -> 0..MaxAttempts] /\ total' \in [Streams -> 0..MaxSteps]
      BY <1>2, <2>1 DEF TypeOK
    <3>2. sent' \in [Streams -> Seq(DeltaType)]
      <4>1. sent \in [Streams -> Seq(DeltaType)] /\ <<>> \in Seq(DeltaType)
        BY EmptySeq DEF TypeOK, DeltaType
      <4>2. QED
        BY <2>1, <4>1
    <3>3. outcome' \in [Streams -> SidecarCodes]
      BY <2>1 DEF TypeOK, SidecarCodes
    <3>4. QED
      BY <1>0, <2>1, <3>1, <3>2, <3>3 DEF TypeOK, DeltaType, routeVars, socketVars
  <2>6. SidecarAt(r)'
    BY <1>2, <2>2, <2>4 DEF SidecarAt, Sidecar!PromiseAt
  <2>7. CallAt(r)'
    BY <1>0, <1>2, <1>3, <2>1, <2>2, <2>3, <2>4 DEF At, CallAt, Open, routeVars, socketVars
  <2>8. RouteAt(r)'
    BY <1>0, <1>2, <1>3, <2>1, <2>2, <2>3 DEF At, RouteAt, routeVars, socketVars
  <2>9. SocketAt(r)'
    BY <1>0 DEF At, SocketAt, routeVars, socketVars
  <2>10. Spares(r)
    BY <1>0, <2>1 DEF Spares, Untouched, routeVars, socketVars
  <2>11. QED
    BY <1>0, <2>5, <2>6, <2>7, <2>8, <2>9, <2>10 DEF At
<1>7. QED
  BY <1>4, <1>5, <1>6 DEF Call

\* Before and after a call there is nothing to close.
LEMMA StartStep ==
  ASSUME TypeOK, NEW r \in Streams, At(r), Reject(r) \/ Start(r)
  PROVE  /\ At(r)' /\ Spares(r) /\ TypeOK'
         /\ UNCHANGED <<sidecarVars, arrived, status, socketVars>>
<1>0. /\ pc[r] = "idle"
      /\ UNCHANGED <<sidecarVars, arrived, status, delivered, aborted, ended, socketVars>>
  BY DEF Reject, Start, callVars
<1>1. /\ attempts[r] = 0 /\ total[r] = 0 /\ outcome[r] = "none" /\ status[r] = "none"
      /\ ~gone[r]
  BY <1>0 DEF At, CallAt, RouteAt
<1>2. \/ pc'[r] = "refused" /\ attempts' = attempts
      \/ pc'[r] = "pull" /\ attempts'[r] = 1
  BY DEF Reject, Start, callVars, TypeOK
<1>3. TypeOK'
  <2>1. pc' \in [Streams -> {"idle", "refused", "pull", "drain", "done"}]
    BY DEF Reject, Start, TypeOK
  <2>2. attempts' \in [Streams -> 0..MaxAttempts]
    <3>1. 1 \in 0..MaxAttempts
      BY BridgeAssumption
    <3>2. attempts' = attempts \/ attempts' = [attempts EXCEPT ![r] = 1]
      BY DEF Reject, Start, callVars
    <3>3. QED
      BY <3>1, <3>2 DEF TypeOK
  <2>3. QED
    BY <1>0, <2>1, <2>2 DEF TypeOK, sidecarVars, socketVars
<1>4. SidecarAt(r)'
  BY <1>0 DEF At, SidecarAt, Sidecar!PromiseAt, Sidecar!Delta, sidecarVars
<1>5. CallAt(r)'
  BY <1>0, <1>1, <1>2 DEF At, CallAt, Open, sidecarVars, socketVars
<1>6. RouteAt(r)'
  BY <1>0, <1>1, <1>2 DEF At, RouteAt, sidecarVars, socketVars
<1>7. SocketAt(r)'
  BY <1>0, <1>2 DEF At, SocketAt, socketVars
<1>8. Spares(r)
  <2>1. /\ attempts' = attempts \/ attempts' = [attempts EXCEPT ![r] = 1]
        /\ \E place \in {"refused", "pull"} : pc' = [pc EXCEPT ![r] = place]
    BY DEF Reject, Start, callVars
  <2>2. \A q \in Streams \ {r} : attempts'[q] = attempts[q] /\ pc'[q] = pc[q]
    BY <2>1 DEF TypeOK
  <2>3. QED
    BY <1>0, <2>2 DEF Spares, Untouched, sidecarVars, socketVars
<1>9. QED
  BY <1>0, <1>3, <1>4, <1>5, <1>6, <1>7, <1>8 DEF At

\* A delta is forwarded to a socket that has room for it, or that is gone.
LEMMA ForwardStep ==
  ASSUME TypeOK, NEW r \in Streams, At(r), Forward(r)
  PROVE  /\ At(r)' /\ Spares(r) /\ TypeOK'
         /\ UNCHANGED <<sidecarVars, callVars, aborted, ended, closing, gone>>
<1> DEFINE k == delivered[r] + 1
           t == Append(messages[r], sent[r][k])
<1>0. /\ pc[r] = "pull" /\ ~ended[r] /\ delivered[r] < arrived[r]
      /\ delivered' = [delivered EXCEPT ![r] = k]
      /\ UNCHANGED <<sidecarVars, callVars, aborted, ended, closing, gone>>
      /\ pc' = [pc EXCEPT ![r] = IF Throttled(r) THEN "drain" ELSE "pull"]
  BY DEF Forward
<1>1. /\ delivered[r] \in 0..MaxSteps /\ arrived[r] \in 0..MaxSteps /\ MaxSteps \in Nat
      /\ HighWater \in Nat \ {0} /\ unread[r] \in Nat
  BY BridgeAssumption DEF TypeOK
<1>2. /\ sent[r] \in Seq(DeltaType) /\ Len(sent[r]) \in Nat
      /\ messages[r] \in Seq(DeltaType) /\ Len(messages[r]) \in Nat
  BY LenProperties DEF TypeOK, DeltaType
<1>3. /\ k \in 1..Len(sent[r]) /\ k \in 0..MaxSteps /\ k <= arrived[r]
      /\ delivered'[r] = k
  <2>1. k <= arrived[r] /\ arrived[r] <= Len(sent[r])
    BY <1>0, <1>1 DEF At, CallAt
  <2>2. delivered'[r] = k
    BY <1>0 DEF TypeOK
  <2>3. QED
    BY <1>1, <1>2, <2>1, <2>2
<1>4. sent[r][k] \in DeltaType
  BY <1>2, <1>3, ElementOfSeq
<1>5. /\ t \in Seq(DeltaType) /\ Len(t) = Len(messages[r]) + 1
      /\ t[Len(messages[r]) + 1] = sent[r][k]
      /\ \A i \in 1..Len(messages[r]) : t[i] = messages[r][i]
  BY <1>2, <1>4, AppendProperties
<1>6. IF gone[r] THEN UNCHANGED <<messages, unread>>
      ELSE /\ messages' = [messages EXCEPT ![r] = t]
           /\ unread' = [unread EXCEPT ![r] = unread[r] + 1]
  <2>1. gone[r] => UNCHANGED <<messages, unread>>
    BY DEF Forward
  <2>2. ~gone[r] => /\ messages' = [messages EXCEPT ![r] =
                                      Append(messages[r], sent[r][delivered'[r]])]
                    /\ unread' = [unread EXCEPT ![r] = unread[r] + 1]
    BY DEF Forward
  <2>3. QED
    BY <1>3, <2>1, <2>2
<1> HIDE DEF t, k
<1>7. TypeOK'
  <2>1. delivered' \in [Streams -> 0..MaxSteps]
    BY <1>0, <1>3 DEF TypeOK
  <2>2. messages' \in [Streams -> Seq(DeltaType)]
    <3>1. messages \in [Streams -> Seq(DeltaType)]
      BY DEF TypeOK, DeltaType
    <3>2. QED
      BY <1>5, <1>6, <3>1
  <2>3. unread' \in [Streams -> Nat]
    <3>1. unread[r] + 1 \in Nat
      BY <1>1
    <3>2. unread' = unread \/ unread' = [unread EXCEPT ![r] = unread[r] + 1]
      BY <1>6
    <3>3. QED
      BY <3>1, <3>2 DEF TypeOK
  <2>4. pc' \in [Streams -> {"idle", "refused", "pull", "drain", "done"}]
    BY <1>0 DEF TypeOK
  <2>5. QED
    BY <1>0, <2>1, <2>2, <2>3, <2>4 DEF TypeOK, DeltaType, sidecarVars, callVars
<1>8. pc'[r] \in {"pull", "drain"} /\ (~gone[r] /\ unread[r] + 1 >= HighWater => pc'[r] = "drain")
  BY <1>0 DEF Throttled, TypeOK
<1>9. SidecarAt(r)' /\ CallAt(r)'
  BY <1>0, <1>8 DEF At, SidecarAt, Sidecar!PromiseAt, CallAt, Open, Sidecar!Delta, sidecarVars, callVars
<1>10. RouteAt(r)'
  <2>1. CASE gone[r]
    <3>1. UNCHANGED <<messages, closing, gone, sent, arrived, status, ended, aborted, attempts>>
      BY <1>0, <1>6, <2>1 DEF sidecarVars, callVars
    <3>2. Len(messages[r]) <= k
      BY <1>1, <1>2 DEF At, RouteAt, k
    <3>3. Len(closing[r]) = 0
      BY <2>1 DEF At, RouteAt
    <3>4. DOMAIN closing[r] = {}
      BY <3>3, LenProperties DEF TypeOK
    <3>5. QED
      BY <1>0, <1>3, <1>8, <2>1, <3>1, <3>2, <3>3, <3>4 DEF At, RouteAt
  <2>2. CASE ~gone[r]
    <3>1. messages'[r] = t
      BY <1>6, <2>2 DEF TypeOK
    <3>2. Len(messages[r]) = delivered[r] /\ Len(closing[r]) = 0
      BY <1>0, <2>2 DEF At, RouteAt
    <3>3. Len(t) = k
      BY <1>5, <3>2 DEF k
    <3>4. \A i \in 1..k : t[i] = sent[r][i]
      BY <1>1, <1>5, <3>2 DEF At, RouteAt, k
    <3>5. DOMAIN closing[r] = {}
      BY <3>2, LenProperties DEF TypeOK
    <3>6. UNCHANGED <<closing, gone, sent, arrived, status, ended, aborted, attempts>>
      BY <1>0 DEF sidecarVars, callVars
    <3>7. k \in Nat
      BY <1>1 DEF k
    <3>8. QED
      BY <1>0, <1>3, <1>8, <2>2, <3>1, <3>2, <3>3, <3>4, <3>5, <3>6, <3>7 DEF At, RouteAt
  <2>3. QED
    BY <2>1, <2>2
<1>11. SocketAt(r)'
  <2>1. unread[r] <= HighWater /\ (gone[r] \/ unread[r] < HighWater) /\ gone' = gone
    BY <1>0 DEF At, SocketAt
  <2>2. IF gone[r] THEN unread'[r] = unread[r] ELSE unread'[r] = unread[r] + 1
    BY <1>6 DEF TypeOK
  <2>3. QED
    BY <1>1, <1>8, <2>1, <2>2 DEF SocketAt
<1>12. Spares(r)
  <2>1. /\ unread' = unread \/ unread' = [unread EXCEPT ![r] = unread[r] + 1]
        /\ messages' = messages \/ messages' = [messages EXCEPT ![r] = t]
    BY <1>6
  <2>2. \A q \in Streams \ {r} : unread'[q] = unread[q] /\ messages'[q] = messages[q]
    BY <2>1 DEF TypeOK
  <2>3. \A q \in Streams \ {r} : delivered'[q] = delivered[q] /\ pc'[q] = pc[q]
    BY <1>0
  <2>4. QED
    BY <1>0, <2>2, <2>3 DEF Spares, Untouched, sidecarVars, callVars
<1>13. QED
  BY <1>0, <1>7, <1>9, <1>10, <1>11, <1>12 DEF At

\* The route ends with one event, unless its client is gone, and on its call's
\* status only.
LEMMA CloseStep ==
  ASSUME TypeOK, NEW r \in Streams, At(r), NEW event \in {"end", "error"},
         Exhausted(r), status[r] # "none", event = "end" => status[r] = "OK" \/ Swallowed(r),
         Close(r, event),
         UNCHANGED <<sidecarVars, callVars, delivered, messages, gone>>
  PROVE  At(r)' /\ Spares(r) /\ TypeOK'
<1> DEFINE e == [event |-> event, delivered |-> delivered[r]]
           t == Append(closing[r], e)
<1>0. /\ pc[r] = "pull" /\ delivered[r] = arrived[r] /\ ~ended[r]
      /\ Len(closing[r]) = 0
  BY DEF Exhausted, At, RouteAt
<1>1. aborted[r] => gone[r]
  BY <1>0 DEF At, RouteAt
<1>2. /\ closing[r] \in Seq(EventType) /\ e \in EventType /\ closing[r] = <<>>
      /\ delivered[r] \in 0..MaxSteps /\ unread[r] \in Nat /\ HighWater \in Nat \ {0}
  BY <1>0, EmptySeq, BridgeAssumption DEF TypeOK, EventType
<1>3. t \in Seq(EventType) /\ Len(t) = 1 /\ t[1] = e /\ DOMAIN t = {1}
  <2>1. t \in Seq(EventType) /\ Len(t) = 0 + 1 /\ t[0 + 1] = e
    BY <1>0, <1>2, AppendProperties
  <2>2. QED
    BY <2>1, LenProperties
<1>4. e.delivered = delivered[r] /\ e.event = event
  OBVIOUS
<1>5. IF gone[r] THEN UNCHANGED <<closing, unread>>
      ELSE /\ closing' = [closing EXCEPT ![r] = t]
           /\ unread' = [unread EXCEPT ![r] = unread[r] + 1]
  BY <1>0 DEF Close
<1> HIDE DEF e, t
<1>6. /\ aborted' = [aborted EXCEPT ![r] = TRUE] /\ ended' = [ended EXCEPT ![r] = TRUE]
      /\ pc' = [pc EXCEPT ![r] = "done"]
  BY DEF Close
<1>7. aborted'[r] = TRUE /\ ended'[r] = TRUE /\ pc'[r] = "done"
  BY <1>6 DEF TypeOK
<1>8. /\ closing' = closing \/ closing' = [closing EXCEPT ![r] = t]
      /\ unread' = unread \/ unread' = [unread EXCEPT ![r] = unread[r] + 1]
  BY <1>5
<1>9. TypeOK'
  <2>1. closing' \in [Streams -> Seq(EventType)]
    <3>1. closing \in [Streams -> Seq(EventType)]
      BY DEF TypeOK, EventType
    <3>2. QED
      BY <1>3, <1>8, <3>1
  <2>2. unread' \in [Streams -> Nat]
    <3>1. unread[r] + 1 \in Nat
      BY <1>2
    <3>2. QED
      BY <1>8, <3>1 DEF TypeOK
  <2>3. aborted' \in [Streams -> BOOLEAN] /\ ended' \in [Streams -> BOOLEAN]
    BY <1>6 DEF TypeOK
  <2>4. pc' \in [Streams -> {"idle", "refused", "pull", "drain", "done"}]
    BY <1>6 DEF TypeOK
  <2>5. QED
    BY <2>1, <2>2, <2>3, <2>4 DEF TypeOK, EventType, sidecarVars, callVars
<1>10. SidecarAt(r)' /\ CallAt(r)'
  BY <1>0, <1>7 DEF At, SidecarAt, Sidecar!PromiseAt, CallAt, Open, Sidecar!Delta, sidecarVars, callVars
<1>11. RouteAt(r)'
  <2>1. UNCHANGED <<sent, arrived, status, attempts, delivered, messages, gone>>
    BY DEF sidecarVars, callVars
  <2>2. CASE gone[r]
    <3>1. closing'[r] = <<>> /\ Len(closing'[r]) = 0 /\ DOMAIN closing'[r] = {}
      BY <1>0, <1>2, <1>5, <2>2
    <3>2. QED
      BY <1>0, <1>7, <2>1, <2>2, <3>1 DEF At, RouteAt
  <2>3. CASE ~gone[r]
    <3>1. closing'[r] = t
      BY <1>5, <2>3 DEF TypeOK
    <3>2. event = "end" => status[r] = "OK"
      BY <1>1, <2>3 DEF Swallowed
    <3>3. QED
      BY <1>0, <1>3, <1>4, <1>7, <2>1, <2>3, <3>1, <3>2 DEF At, RouteAt
  <2>4. QED
    BY <2>2, <2>3
<1>12. SocketAt(r)'
  <2>1. unread[r] <= HighWater /\ (gone[r] \/ unread[r] < HighWater)
    BY <1>0 DEF At, SocketAt
  <2>2. IF gone[r] THEN unread'[r] = unread[r] ELSE unread'[r] = unread[r] + 1
    BY <1>5 DEF TypeOK
  <2>3. QED
    BY <1>2, <1>7, <2>1, <2>2 DEF SocketAt
<1>13. Spares(r)
  <2>1. \A q \in Streams \ {r} : unread'[q] = unread[q] /\ closing'[q] = closing[q]
    BY <1>8 DEF TypeOK
  <2>2. \A q \in Streams \ {r} : /\ aborted'[q] = aborted[q] /\ ended'[q] = ended[q]
                                /\ pc'[q] = pc[q]
    BY <1>6
  <2>3. QED
    BY <2>1, <2>2 DEF Spares, Untouched, sidecarVars, callVars
<1>14. QED
  BY <1>9, <1>10, <1>11, <1>12, <1>13 DEF At

\* The rest of the route, and the client: no event and no delta.
LEMMA ClientStep ==
  ASSUME TypeOK, NEW r \in Streams, At(r), Drain(r) \/ Read(r) \/ HangUp(r)
  PROVE  /\ At(r)' /\ Spares(r) /\ TypeOK'
         /\ UNCHANGED <<sidecarVars, arrived, delivered, messages, closing>>
<1>0. /\ ~gone[r]
      /\ UNCHANGED <<sidecarVars, attempts, arrived, delivered, ended, messages, closing>>
  BY DEF Drain, Read, HangUp, callVars, routeVars, socketVars
<1>1. unread[r] \in Nat /\ HighWater \in Nat \ {0}
  BY BridgeAssumption DEF TypeOK
<1>2. CASE Drain(r)
  <2>1. /\ pc[r] = "drain" /\ unread[r] = 0 /\ pc' = [pc EXCEPT ![r] = "pull"]
        /\ UNCHANGED <<status, aborted, unread, gone>>
    BY <1>2 DEF Drain, callVars, socketVars
  <2>2. pc'[r] = "pull"
    BY <2>1 DEF TypeOK
  <2>3. TypeOK'
    BY <1>0, <2>1 DEF TypeOK, sidecarVars
  <2>4. SidecarAt(r)' /\ CallAt(r)'
    BY <1>0, <2>1, <2>2 DEF At, SidecarAt, Sidecar!PromiseAt, CallAt, Open, Sidecar!Delta, sidecarVars
  <2>5. RouteAt(r)' /\ SocketAt(r)'
    BY <1>0, <1>1, <2>1, <2>2 DEF At, RouteAt, SocketAt, sidecarVars
  <2>6. Spares(r)
    BY <1>0, <2>1 DEF Spares, Untouched, sidecarVars
  <2>7. QED
    BY <1>0, <2>3, <2>4, <2>5, <2>6 DEF At
<1>3. CASE Read(r)
  <2>1. /\ unread[r] > 0 /\ unread' = [unread EXCEPT ![r] = unread[r] - 1]
        /\ UNCHANGED <<status, pc, aborted, gone>>
    BY <1>3 DEF Read, callVars, routeVars
  <2>2. unread'[r] = unread[r] - 1 /\ unread[r] - 1 \in Nat
    BY <1>1, <2>1 DEF TypeOK
  <2>3. TypeOK'
    BY <1>0, <2>1, <2>2 DEF TypeOK, sidecarVars
  <2>4. SidecarAt(r)' /\ CallAt(r)'
    BY <1>0, <2>1 DEF At, SidecarAt, Sidecar!PromiseAt, CallAt, Open, Sidecar!Delta, sidecarVars
  <2>5. RouteAt(r)'
    BY <1>0, <2>1 DEF At, RouteAt, sidecarVars
  <2>6. SocketAt(r)'
    BY <1>1, <2>1, <2>2 DEF At, SocketAt
  <2>7. Spares(r)
    BY <1>0, <2>1 DEF Spares, Untouched, sidecarVars
  <2>8. QED
    BY <1>0, <2>3, <2>4, <2>5, <2>6, <2>7 DEF At
<1>4. CASE HangUp(r)
  <2>1. /\ pc[r] \in {"pull", "drain"}
        /\ gone' = [gone EXCEPT ![r] = TRUE] /\ aborted' = [aborted EXCEPT ![r] = TRUE]
        /\ UNCHANGED <<pc, unread>>
    BY <1>4 DEF HangUp
  <2>2. /\ gone'[r] = TRUE /\ aborted'[r] = TRUE
    BY <2>1 DEF TypeOK
  <2>3. PICK code \in SidecarCodes \cup {"DEADLINE_EXCEEDED", "UNAVAILABLE"} :
          /\ status' = [status EXCEPT ![r] = code]
          /\ code = IF status[r] = "none" THEN "CANCELLED" ELSE status[r]
    BY <1>4 DEF HangUp, CancelCall, TypeOK, SidecarCodes
  <2>4. status'[r] = code /\ code # "none" /\ (code = "OK" => status[r] = "OK")
    BY <2>3 DEF TypeOK
  <2>5. TypeOK'
    <3>1. status' \in [Streams -> SidecarCodes \cup {"DEADLINE_EXCEEDED", "UNAVAILABLE"}]
      BY <2>3 DEF TypeOK
    <3>2. gone' \in [Streams -> BOOLEAN] /\ aborted' \in [Streams -> BOOLEAN]
      BY <2>1 DEF TypeOK
    <3>3. QED
      BY <1>0, <2>1, <3>1, <3>2 DEF TypeOK, sidecarVars
  <2>6. attempts[r] > 0 /\ attempts[r] # 0
    <3>1. attempts[r] # 0 /\ attempts[r] \in 0..MaxAttempts
      BY <2>1 DEF At, CallAt, TypeOK
    <3>2. QED
      BY <3>1, BridgeAssumption
  <2>7. SidecarAt(r)' /\ CallAt(r)'
    BY <1>0, <2>1, <2>4, <2>6 DEF At, SidecarAt, Sidecar!PromiseAt, CallAt, Open, Sidecar!Delta, sidecarVars
  <2>8. RouteAt(r)'
    <3>1. Len(closing[r]) = 0 /\ closing[r] = <<>> /\ DOMAIN closing[r] = {}
      BY <2>1, EmptySeq DEF At, RouteAt, TypeOK
    <3>2. Len(messages[r]) = delivered[r]
      BY <1>0 DEF At, RouteAt
    <3>3. QED
      BY <1>0, <2>1, <2>2, <2>6, <3>1, <3>2 DEF At, RouteAt, sidecarVars
  <2>9. SocketAt(r)'
    BY <2>1, <2>2 DEF At, SocketAt
  <2>10. Spares(r)
    BY <1>0, <2>1, <2>3 DEF Spares, Untouched, sidecarVars
  <2>11. QED
    BY <1>0, <2>5, <2>7, <2>8, <2>9, <2>10 DEF At
<1>5. QED
  BY <1>2, <1>3, <1>4

\* Every step of Next is one of these, or changes nothing.
LEMMA NextStep ==
  ASSUME IInv, [Next]_vars
  PROVE  \/ \E r \in Streams : At(r)' /\ Spares(r) /\ TypeOK'
         \/ UNCHANGED vars
<1>1. TypeOK /\ \A r \in Streams : At(r)
  BY DEF IInv, At
<1>2. ASSUME NEW r \in Streams, EndOfStream(r)
      PROVE  At(r)' /\ Spares(r) /\ TypeOK'
  BY <1>1, <1>2, CloseStep DEF EndOfStream, Swallowed
<1>3. ASSUME NEW r \in Streams, Fail(r)
      PROVE  At(r)' /\ Spares(r) /\ TypeOK'
  BY <1>1, <1>3, CloseStep DEF Fail
<1>4. ASSUME NEW r \in Streams, SidecarMoves(r)
      PROVE  At(r)' /\ Spares(r) /\ TypeOK'
  BY <1>1, <1>4, SidecarStep
<1>5. ASSUME NEW r \in Streams, Call(r)
      PROVE  At(r)' /\ Spares(r) /\ TypeOK'
  BY <1>1, <1>5, CallStep
<1>6. ASSUME NEW r \in Streams, Reject(r) \/ Start(r)
      PROVE  At(r)' /\ Spares(r) /\ TypeOK'
  BY <1>1, <1>6, StartStep
<1>7. ASSUME NEW r \in Streams, Forward(r)
      PROVE  At(r)' /\ Spares(r) /\ TypeOK'
  BY <1>1, <1>7, ForwardStep
<1>8. ASSUME NEW r \in Streams, Drain(r) \/ Read(r) \/ HangUp(r)
      PROVE  At(r)' /\ Spares(r) /\ TypeOK'
  BY <1>1, <1>8, ClientStep
<1>9. QED
  BY <1>2, <1>3, <1>4, <1>5, <1>6, <1>7, <1>8 DEF Next, Route, Quiet

\* Nothing has happened yet.
LEMMA InitEstablishes == Init => IInv
<1> SUFFICES ASSUME Init PROVE IInv
  OBVIOUS
<1>1. MaxSteps \in Nat \ {0} /\ MaxAttempts \in Nat \ {0} /\ HighWater \in Nat \ {0}
  BY BridgeAssumption
<1>2. /\ sent \in [Streams -> Seq(DeltaType)] /\ messages \in [Streams -> Seq(DeltaType)]
      /\ closing \in [Streams -> Seq(EventType)]
  BY EmptySeq DEF Init, Sidecar!Init
<1>3. /\ total \in [Streams -> 0..MaxSteps] /\ arrived \in [Streams -> 0..MaxSteps]
      /\ delivered \in [Streams -> 0..MaxSteps] /\ attempts \in [Streams -> 0..MaxAttempts]
      /\ unread \in [Streams -> Nat]
  BY <1>1 DEF Init, Sidecar!Init
<1>4. /\ aborted \in [Streams -> BOOLEAN] /\ ended \in [Streams -> BOOLEAN]
      /\ gone \in [Streams -> BOOLEAN]
  BY DEF Init
<1>5. /\ outcome \in [Streams -> SidecarCodes]
      /\ status \in [Streams -> SidecarCodes \cup {"DEADLINE_EXCEEDED", "UNAVAILABLE"}]
      /\ pc \in [Streams -> {"idle", "refused", "pull", "drain", "done"}]
  BY DEF Init, Sidecar!Init, SidecarCodes
<1>6. TypeOK
  BY <1>2, <1>3, <1>4, <1>5 DEF TypeOK, DeltaType, EventType
<1>7. ASSUME NEW r \in Streams
      PROVE  SidecarAt(r) /\ CallAt(r) /\ RouteAt(r) /\ SocketAt(r)
  <2>1. /\ total[r] = 0 /\ sent[r] = <<>> /\ outcome[r] = "none" /\ attempts[r] = 0
        /\ arrived[r] = 0 /\ status[r] = "none" /\ pc[r] = "idle" /\ delivered[r] = 0
        /\ ~aborted[r] /\ ~ended[r] /\ messages[r] = <<>> /\ closing[r] = <<>>
        /\ unread[r] = 0 /\ ~gone[r]
    BY DEF Init, Sidecar!Init
  <2>2. Len(sent[r]) = 0 /\ Len(messages[r]) = 0 /\ Len(closing[r]) = 0 /\ DOMAIN closing[r] = {}
    BY <2>1
  <2>3. QED
    BY <1>1, <2>1, <2>2 DEF SidecarAt, Sidecar!PromiseAt, CallAt, RouteAt, SocketAt, Open
<1>8. QED
  BY <1>6, <1>7 DEF IInv

------------------------------------------------------------------------------

\* Every reachable state satisfies the inductive invariant.
THEOREM Invariance == Spec => []IInv
<1>1. IInv /\ [Next]_vars => IInv'
  <2> SUFFICES ASSUME IInv, [Next]_vars PROVE IInv'
    OBVIOUS
  <2>1. TypeOK /\ \A q \in Streams : At(q)
    BY DEF IInv, At
  <2>2. CASE UNCHANGED vars
    <3>1. TypeOK'
      BY <2>1, <2>2 DEF TypeOK, vars, sidecarVars, callVars, routeVars, socketVars
    <3>2. \A q \in Streams : Untouched(q)
      BY <2>2 DEF Untouched, vars, sidecarVars, callVars, routeVars, socketVars
    <3>3. \A q \in Streams : At(q)'
      BY <2>1, <3>2, UntouchedKeeps
    <3>4. QED
      BY <3>1, <3>3 DEF IInv, At
  <2>3. ASSUME NEW r \in Streams, At(r)', Spares(r), TypeOK'
        PROVE  IInv'
    <3>1. ASSUME NEW q \in Streams, q # r
          PROVE  At(q)'
      BY <2>1, <2>3, <3>1, UntouchedKeeps DEF Spares
    <3>2. \A q \in Streams : At(q)'
      BY <2>3, <3>1
    <3>3. QED
      BY <2>3, <3>2 DEF IInv, At
  <2>4. QED
    BY <2>2, <2>3, NextStep
<1>2. QED
  BY <1>1, InitEstablishes, PTL DEF Spec

\* Every variable keeps its type.
THEOREM TypeCorrect == Spec => []TypeOK
<1>1. IInv => TypeOK
  BY DEF IInv
<1>2. QED
  BY <1>1, Invariance, PTL

\* A client that stays is told once how its stream ended, with the true count
\* (stream.ts:95-110).
THEOREM OneEventEnds == Spec => []OneTerminalEvent
<1>1. IInv => OneTerminalEvent
  <2> SUFFICES ASSUME IInv, NEW r \in Streams
               PROVE  /\ Len(closing[r]) <= 1
                      /\ pc[r] = "done" /\ ~gone[r] => Len(closing[r]) = 1
                      /\ \A i \in DOMAIN closing[r] : closing[r][i].delivered = Len(messages[r])
    BY DEF OneTerminalEvent
  <2>1. RouteAt(r)
    BY DEF IInv
  <2>2. Len(closing[r]) = 0 => DOMAIN closing[r] = {}
    BY LenProperties DEF IInv, TypeOK
  <2>3. QED
    BY <2>1, <2>2 DEF RouteAt
<1>2. QED
  BY <1>1, Invariance, PTL

\* No call outlives its route or its client (grpc-client.ts:122).
THEOREM CallsAreCancelled == Spec => []NoAbandonedCall
<1>1. IInv => NoAbandonedCall
  BY DEF IInv, CallAt, NoAbandonedCall
<1>2. QED
  BY <1>1, Invariance, PTL

\* The socket never holds more than its high-water mark (stream.ts:89-93).
THEOREM SocketsAreBounded == Spec => []SocketBounded
<1>1. IInv => SocketBounded
  BY DEF IInv, SocketAt, SocketBounded
<1>2. QED
  BY <1>1, Invariance, PTL

------------------------------------------------------------------------------

\* What the client can tell of a request.
TotalOf(r) == IF Committed(r) THEN total[r] ELSE 0
OutcomeOf(r) == IF closing[r] # <<>> /\ closing[r][1].event = "end" THEN "OK"
                ELSE IF closing[r] # <<>> \/ gone[r] THEN "INTERNAL"
                ELSE "none"

\* The two mapped variables are these operators, as functions.
LEMMA MappedVariables ==
  /\ ClientTotal = [r \in Streams |-> TotalOf(r)]
  /\ ClientOutcome = [r \in Streams |-> OutcomeOf(r)]
  /\ ClientTotal' = [r \in Streams |-> TotalOf(r)']
  /\ ClientOutcome' = [r \in Streams |-> OutcomeOf(r)']
BY DEF ClientTotal, ClientOutcome, TotalOf, OutcomeOf

\* A request that is left alone looks the same to its client.
LEMMA SparedLooks ==
  ASSUME NEW r \in Streams, Spares(r)
  PROVE  \A q \in Streams \ {r} : TotalOf(q)' = TotalOf(q) /\ OutcomeOf(q)' = OutcomeOf(q)
BY DEF Spares, Untouched, TotalOf, OutcomeOf, Committed

\* So does one of which the client sees nothing new.
LEMMA Unseen ==
  ASSUME NEW r \in Streams, Spares(r), TotalOf(r)' = TotalOf(r), OutcomeOf(r)' = OutcomeOf(r),
         messages' = messages
  PROVE  UNCHANGED <<ClientTotal, messages, ClientOutcome>>
<1>1. \A q \in Streams : TotalOf(q)' = TotalOf(q) /\ OutcomeOf(q)' = OutcomeOf(q)
  BY SparedLooks
<1>2. ClientTotal' = ClientTotal /\ ClientOutcome' = ClientOutcome
  BY <1>1, MappedVariables
<1>3. QED
  BY <1>2

\* The first delta that arrives opens the stream.
LEMMA ArriveMaps ==
  ASSUME TypeOK, NEW r \in Streams, At(r), Arrive(r)
  PROVE  ClientStream!Open(r) \/ UNCHANGED <<ClientTotal, messages, ClientOutcome>>
<1>1. /\ Open(r) /\ arrived[r] < Len(sent[r]) /\ arrived' = [arrived EXCEPT ![r] = arrived[r] + 1]
      /\ UNCHANGED <<sidecarVars, attempts, status, routeVars, socketVars>>
  BY DEF Arrive
<1>2. /\ arrived[r] \in 0..MaxSteps /\ Len(sent[r]) \in Nat /\ total[r] \in 0..MaxSteps
      /\ MaxSteps \in Nat
  BY LenProperties, BridgeAssumption DEF TypeOK
<1>3. Spares(r)
  BY CallStep DEF Call
<1>4. closing[r] = <<>> /\ ~gone[r]
  BY <1>1, EmptySeq DEF At, CallAt, RouteAt, TypeOK
<1>5. OutcomeOf(r)' = OutcomeOf(r) /\ OutcomeOf(r) = "none"
  BY <1>1, <1>4 DEF OutcomeOf, socketVars
<1>6. total[r] \in 1..MaxSteps /\ arrived'[r] = arrived[r] + 1 /\ total' = total
  <2>1. arrived'[r] = arrived[r] + 1 /\ total' = total
    BY <1>1 DEF TypeOK, sidecarVars
  <2>2. Len(sent[r]) <= total[r]
    BY DEF At, SidecarAt, Sidecar!PromiseAt
  <2>3. QED
    BY <1>1, <1>2, <2>1, <2>2
<1>7. messages' = messages
  BY <1>1 DEF socketVars
<1>8. CASE Committed(r)
  <2>1. TotalOf(r)' = TotalOf(r)
    BY <1>2, <1>6, <1>8 DEF TotalOf, Committed
  <2>2. QED
    BY <1>3, <1>5, <1>7, <2>1, Unseen
<1>9. CASE ~Committed(r)
  <2>1. TotalOf(r) = 0 /\ TotalOf(r)' = total[r]
    BY <1>2, <1>6, <1>9 DEF TotalOf, Committed
  <2>2. ClientTotal' = [ClientTotal EXCEPT ![r] = total[r]] /\ ClientTotal[r] = 0
    BY <1>3, <2>1, SparedLooks, MappedVariables
  <2>3. ClientOutcome' = ClientOutcome /\ ClientOutcome[r] = "none"
    BY <1>3, <1>5, SparedLooks, MappedVariables
  <2>4. QED
    BY <1>6, <1>7, <2>2, <2>3 DEF ClientStream!Open
<1>10. QED
  BY <1>8, <1>9

\* A forwarded delta is the next one of the contract.
LEMMA ForwardMaps ==
  ASSUME TypeOK, NEW r \in Streams, At(r), Forward(r)
  PROVE  ClientStream!Deliver(r) \/ UNCHANGED <<ClientTotal, messages, ClientOutcome>>
<1>1. /\ pc[r] = "pull" /\ delivered[r] < arrived[r]
      /\ delivered' = [delivered EXCEPT ![r] = delivered[r] + 1]
      /\ UNCHANGED <<sidecarVars, callVars, closing, gone>>
  BY DEF Forward
<1>2. Spares(r)
  BY ForwardStep
<1>3. /\ total' = total /\ arrived' = arrived
      /\ TotalOf(r)' = TotalOf(r) /\ OutcomeOf(r)' = OutcomeOf(r)
  BY <1>1 DEF TotalOf, OutcomeOf, Committed, sidecarVars, callVars
<1>4. CASE gone[r]
  <2>1. messages' = messages
    BY <1>4 DEF Forward
  <2>2. QED
    BY <1>2, <1>3, <2>1, Unseen
<1>5. CASE ~gone[r]
  <2> DEFINE n == Len(messages[r])
             d == Sidecar!Delta(r, n + 1)
  <2>1. /\ arrived[r] \in 0..MaxSteps /\ Len(sent[r]) \in Nat /\ total[r] \in 0..MaxSteps
        /\ MaxSteps \in Nat /\ delivered[r] \in 0..MaxSteps
    BY LenProperties, BridgeAssumption DEF TypeOK
  <2>2. n = delivered[r] /\ n \in Nat /\ closing[r] = <<>>
    BY <1>1, <1>5, <2>1, EmptySeq DEF At, RouteAt, TypeOK
  <2>3. n + 1 <= Len(sent[r]) /\ n < total[r] /\ Committed(r)
    BY <1>1, <2>1, <2>2 DEF At, CallAt, SidecarAt, Sidecar!PromiseAt, Committed
  <2>4. messages' = [messages EXCEPT ![r] = Append(messages[r], sent[r][n + 1])]
    <3>1. delivered'[r] = n + 1
      BY <1>1, <2>2 DEF TypeOK
    <3>2. QED
      BY <1>5, <3>1 DEF Forward
  <2>5. sent[r][n + 1] = d
    <3>1. n + 1 \in 1..Len(sent[r])
      BY <2>1, <2>2, <2>3
    <3>2. QED
      BY <3>1 DEF At, SidecarAt, Sidecar!PromiseAt
  <2>6. ClientTotal[r] = total[r] /\ ClientOutcome[r] = "none"
    BY <1>5, <2>2, <2>3, MappedVariables DEF TotalOf, OutcomeOf
  <2>7. d = ClientStream!Delta(r, n + 1)
    <3>1. (IF n + 1 = 1 THEN 0 ELSE sent[r][(n + 1) - 1].cumulative)
            = (IF n + 1 = 1 THEN 0 ELSE messages[r][(n + 1) - 1].cumulative)
      <4>1. n + 1 # 1 => (n + 1) - 1 \in 1..n
        BY <2>2
      <4>2. \A i \in 1..n : messages[r][i] = sent[r][i]
        BY DEF At, RouteAt
      <4>3. QED
        BY <4>1, <4>2
    <3>2. QED
      BY <2>6, <3>1, Zenon DEF Sidecar!Delta, ClientStream!Delta
  <2>8. UNCHANGED <<ClientTotal, ClientOutcome>>
    <3>1. \A q \in Streams : TotalOf(q)' = TotalOf(q) /\ OutcomeOf(q)' = OutcomeOf(q)
      BY <1>2, <1>3, SparedLooks
    <3>2. QED
      BY <3>1, MappedVariables
  <2> HIDE DEF d
  <2>9. /\ messages' = [messages EXCEPT ![r] = Append(messages[r], ClientStream!Delta(r, n + 1))]
        /\ Len(messages[r]) < ClientTotal[r]
    BY <2>3, <2>4, <2>5, <2>6, <2>7
  <2>10. QED
    BY <2>6, <2>8, <2>9, Zenon DEF ClientStream!Deliver
<1>6. QED
  BY <1>4, <1>5

\* A terminal event ends the stream: `end` after the last delta, `error` at any point.
LEMMA CloseMaps ==
  ASSUME TypeOK, NEW r \in Streams, At(r), NEW event \in {"end", "error"},
         Exhausted(r), status[r] # "none", event = "end" => status[r] = "OK" \/ Swallowed(r),
         Close(r, event),
         UNCHANGED <<sidecarVars, callVars, delivered, messages, gone>>
  PROVE  \/ ClientStream!Complete(r) \/ ClientStream!Break(r)
         \/ UNCHANGED <<ClientTotal, messages, ClientOutcome>>
<1>1. Spares(r)
  BY CloseStep
<1>2. /\ closing[r] = <<>> /\ ~ended[r] /\ delivered[r] = arrived[r]
      /\ pc[r] = "pull"
  BY EmptySeq DEF Exhausted, At, RouteAt, TypeOK
<1>3. TotalOf(r)' = TotalOf(r)
  BY DEF TotalOf, Committed, sidecarVars, callVars
<1>4. ClientTotal' = ClientTotal
  BY <1>1, <1>3, SparedLooks, MappedVariables
<1>5. CASE gone[r]
  <2>1. closing' = closing
    BY <1>5 DEF Close
  <2>2. OutcomeOf(r)' = OutcomeOf(r)
    BY <2>1 DEF OutcomeOf
  <2>3. QED
    BY <1>1, <1>3, <2>2, Unseen
<1>6. CASE ~gone[r]
  <2> DEFINE e == [event |-> event, delivered |-> delivered[r]]
  <2>1. closing' = [closing EXCEPT ![r] = Append(closing[r], e)]
    BY <1>2, <1>6 DEF Close
  <2>2. closing'[r] = <<e>>
    BY <1>2, <2>1 DEF TypeOK
  <2>3. OutcomeOf(r) = "none" /\ OutcomeOf(r)' = IF event = "end" THEN "OK" ELSE "INTERNAL"
    BY <1>2, <1>6, <2>2 DEF OutcomeOf
  <2>4. /\ ClientOutcome' = [ClientOutcome EXCEPT ![r] = IF event = "end" THEN "OK" ELSE "INTERNAL"]
        /\ ClientOutcome[r] = "none"
    BY <1>1, <2>3, SparedLooks, MappedVariables
  <2>5. CASE event = "error"
    BY <1>4, <2>4, <2>5 DEF ClientStream!Break
  <2>6. CASE event = "end"
    <3>1. status[r] = "OK"
      BY <1>2, <1>6, <2>6 DEF Swallowed, At, RouteAt
    <3>2. outcome[r] = "OK" /\ arrived[r] = Len(sent[r]) /\ Len(sent[r]) = total[r] /\ total[r] > 0
      BY <3>1 DEF At, CallAt, SidecarAt, Sidecar!PromiseAt
    <3>3. Len(messages[r]) = total[r]
      BY <1>2, <1>6, <3>2 DEF At, RouteAt
    <3>4. ClientTotal[r] = total[r]
      BY <3>2, MappedVariables DEF TotalOf, Committed
    <3>5. QED
      BY <1>4, <2>4, <2>6, <3>2, <3>3, <3>4 DEF ClientStream!Complete
  <2>7. QED
    BY <2>5, <2>6
<1>7. QED
  BY <1>5, <1>6

\* A client that hangs up breaks the stream for itself.
LEMMA HangUpMaps ==
  ASSUME TypeOK, NEW r \in Streams, At(r), HangUp(r)
  PROVE  ClientStream!Break(r)
<1>1. /\ pc[r] \in {"pull", "drain"} /\ ~gone[r] /\ gone' = [gone EXCEPT ![r] = TRUE]
      /\ UNCHANGED <<sidecarVars, arrived, messages, closing>>
  BY DEF HangUp
<1>2. Spares(r)
  BY ClientStep
<1>3. closing[r] = <<>> /\ gone'[r]
  BY <1>1, EmptySeq DEF At, RouteAt, TypeOK
<1>4. OutcomeOf(r) = "none" /\ OutcomeOf(r)' = "INTERNAL" /\ TotalOf(r)' = TotalOf(r)
  BY <1>1, <1>3 DEF OutcomeOf, TotalOf, Committed, sidecarVars
<1>5. /\ ClientTotal' = ClientTotal /\ ClientOutcome[r] = "none"
      /\ ClientOutcome' = [ClientOutcome EXCEPT ![r] = "INTERNAL"]
  BY <1>2, <1>4, SparedLooks, MappedVariables
<1>6. QED
  BY <1>1, <1>5 DEF ClientStream!Break

\* No other step shows.
LEMMA HiddenSteps ==
  ASSUME TypeOK, NEW r \in Streams, At(r),
         \/ SidecarMoves(r) \/ StatusArrives(r) \/ Deadline(r) \/ Retry(r) \/ Unavailable(r)
         \/ Reject(r) \/ Start(r) \/ Drain(r) \/ Read(r)
  PROVE  UNCHANGED <<ClientTotal, messages, ClientOutcome>>
<1>1. Spares(r)
  BY SidecarStep, CallStep, StartStep, ClientStep DEF Call
<1>2. UNCHANGED <<arrived, messages, closing, gone>>
  BY DEF SidecarMoves, StatusArrives, Deadline, Retry, Unavailable, Reject, Start, Drain, Read,
         callVars, socketVars
<1>3. OutcomeOf(r)' = OutcomeOf(r)
  BY <1>2 DEF OutcomeOf
<1>4. TotalOf(r)' = TotalOf(r)
  <2>1. ~Committed(r) \/ total'[r] = total[r]
    <3>1. CASE Sidecar!Open(r)
      <4>1. total[r] = 0
        BY <3>1 DEF Sidecar!Open
      <4>2. arrived[r] \in Nat /\ Len(sent[r]) \in Nat
        BY LenProperties DEF TypeOK
      <4>3. QED
        BY <4>1, <4>2 DEF At, SidecarAt, Sidecar!PromiseAt, CallAt, Committed
    <3>2. CASE ~Sidecar!Open(r)
      BY <3>2 DEF SidecarMoves, Sidecar!Deliver, Sidecar!Complete, Sidecar!Break,
                  StatusArrives, Deadline, Retry, Unavailable, Reject, Start, Drain, Read,
                  sidecarVars
    <3>3. QED
      BY <3>1, <3>2
  <2>2. QED
    BY <1>2, <2>1 DEF TotalOf, Committed
<1>5. QED
  BY <1>1, <1>2, <1>3, <1>4, Unseen

\* The SSE client is promised no less than the caller of the gRPC stream
\* (stream.ts:66-110, proto/prediction.proto): deltas 1, 2, ... with their running
\* sums, `end` only after the final one, nothing after a terminal event.
THEOREM ImplementsContract == Spec => KeepsContract
<1>1. Init => ClientStream!Init
  <2> SUFFICES ASSUME Init PROVE ClientStream!Init
    OBVIOUS
  <2>1. ASSUME NEW r \in Streams
        PROVE  TotalOf(r) = 0 /\ OutcomeOf(r) = "none"
    <3>1. arrived[r] = 0 /\ closing[r] = <<>> /\ ~gone[r]
      BY DEF Init
    <3>2. QED
      BY <3>1 DEF TotalOf, OutcomeOf, Committed
  <2>2. QED
    BY <2>1, MappedVariables DEF Init, ClientStream!Init
<1>2. IInv /\ [Next]_vars => [ClientStream!Next]_<<ClientTotal, messages, ClientOutcome>>
  <2> SUFFICES ASSUME IInv, [Next]_vars
               PROVE  ClientStream!Next \/ UNCHANGED <<ClientTotal, messages, ClientOutcome>>
    OBVIOUS
  <2>1. TypeOK /\ \A r \in Streams : At(r)
    BY DEF IInv, At
  <2>2. ASSUME NEW r \in Streams, Arrive(r)
        PROVE  ClientStream!Open(r) \/ UNCHANGED <<ClientTotal, messages, ClientOutcome>>
    BY <2>1, <2>2, ArriveMaps
  <2>3. ASSUME NEW r \in Streams, Forward(r)
        PROVE  ClientStream!Deliver(r) \/ UNCHANGED <<ClientTotal, messages, ClientOutcome>>
    BY <2>1, <2>3, ForwardMaps
  <2>4. ASSUME NEW r \in Streams, EndOfStream(r) \/ Fail(r)
        PROVE  \/ ClientStream!Complete(r) \/ ClientStream!Break(r)
               \/ UNCHANGED <<ClientTotal, messages, ClientOutcome>>
    <3>1. CASE EndOfStream(r)
      BY <2>1, <3>1, CloseMaps DEF EndOfStream, Swallowed
    <3>2. CASE Fail(r)
      BY <2>1, <3>2, CloseMaps DEF Fail
    <3>3. QED
      BY <2>4, <3>1, <3>2
  <2>5. ASSUME NEW r \in Streams, HangUp(r)
        PROVE  ClientStream!Break(r)
    BY <2>1, <2>5, HangUpMaps
  <2>6. ASSUME NEW r \in Streams,
               \/ SidecarMoves(r) \/ StatusArrives(r) \/ Deadline(r) \/ Retry(r) \/ Unavailable(r)
               \/ Reject(r) \/ Start(r) \/ Drain(r) \/ Read(r)
        PROVE  UNCHANGED <<ClientTotal, messages, ClientOutcome>>
    BY <2>1, <2>6, HiddenSteps
  <2>7. CASE UNCHANGED vars
    <3>1. \A r \in Streams : TotalOf(r)' = TotalOf(r) /\ OutcomeOf(r)' = OutcomeOf(r)
      BY <2>7 DEF vars, sidecarVars, callVars, routeVars, socketVars, TotalOf, OutcomeOf, Committed
    <3>2. QED
      BY <2>7, <3>1, MappedVariables DEF vars, socketVars
  <2>8. QED
    BY <2>2, <2>3, <2>4, <2>5, <2>6, <2>7
    DEF Next, Call, Route, Quiet, ClientStream!Next
<1>3. QED
  BY <1>1, <1>2, Invariance, PTL DEF Spec, KeepsContract, ClientStream!Spec

\* What the contract means for a caller (DeltaStream_proofs), for this client.
ClientMeaning == INSTANCE DeltaStream_proofs WITH total <- ClientTotal,
                                                  sent <- messages,
                                                  outcome <- ClientOutcome

\* The `message` events are the deltas 1, 2, ... without a gap, and after `end`
\* the client has all of them, through every retry, abort and full socket.
THEOREM ClientGetsWhatIsPromised == Spec => []ClientIsPromised
<1>1. MaxSteps \in Nat /\ \A k \in 1..MaxSteps : Value[k] \in Int
  BY BridgeAssumption
<1>2. ClientMeaning!Spec => []ClientMeaning!Promise
  BY <1>1, ClientMeaning!PromiseKept
<1>3. KeepsContract => ClientMeaning!Spec
  BY DEF KeepsContract, ClientStream!Spec, ClientMeaning!Spec, ClientStream!Init,
         ClientMeaning!Init, ClientStream!Next, ClientMeaning!Next, ClientStream!Open,
         ClientMeaning!Open, ClientStream!Deliver, ClientMeaning!Deliver,
         ClientStream!Delta, ClientMeaning!Delta, ClientStream!Complete,
         ClientMeaning!Complete, ClientStream!Break, ClientMeaning!Break
<1>4. ClientMeaning!Promise => ClientIsPromised
  BY DEF ClientMeaning!Promise, ClientMeaning!PromiseAt, ClientMeaning!Delta,
         ClientIsPromised, ClientStream!Promise, ClientStream!PromiseAt,
         ClientStream!Delta
<1>5. QED
  BY <1>2, <1>3, <1>4, ImplementsContract, PTL

==============================================================================
