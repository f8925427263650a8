---------------------------- MODULE Gateway_proofs ----------------------------
(* For any number of requests and attempts: what an HTTP status says of the
   attempts behind it is true, and a process that was not killed leaves nobody
   who stayed without an answer, nor, after a success, their spans behind.  A
   lemma for the attempt of a call, one per part of IInv, one step per action. *)
EXTENDS Gateway, SequenceTheorems, TLAPS

\* The gateway answers with a status its clients know.
LEMMA StatusOf ==
  ASSUME NEW code \in Codes \cup {"DEADLINE_EXCEEDED"}
  PROVE  /\ HttpStatusForGrpc(code) \in {200, 400, 404, 429, 501, 502, 503, 504}
         /\ HttpStatusForGrpc(code) = 200 <=> code = "OK"
         /\ HttpStatusForGrpc(code) = 503 <=> code = "UNAVAILABLE"
         /\ HttpStatusForGrpc(code) = 504 <=> code = "DEADLINE_EXCEEDED"
<1>1. code \in {"OK", "INVALID_ARGUMENT", "NOT_FOUND", "RESOURCE_EXHAUSTED", "UNIMPLEMENTED",
                "INTERNAL", "UNKNOWN", "UNAVAILABLE", "DEADLINE_EXCEEDED"}
  BY GatewayAssumption DEF Codes
<1>2. QED
  BY <1>1 DEF HttpStatusForGrpc

\* What is known of a request.
Known(r) == TruthAt(r) /\ RequestAt(r)

\* A request of which only the spans move on keeps what is known of it.
LEMMA Untouched ==
  ASSUME NEW q \in Requests, Known(q),
         pc'[q] = pc[q], sends'[q] = sends[q], codes'[q] = codes[q], reply'[q] = reply[q],
         \/ span'[q] = span[q]
         \/ span[q] \notin {"none", "open"} /\ span'[q] \notin {"none", "open"}
  PROVE  Known(q)'
<1>1. TruthAt(q)'
  BY DEF Known, TruthAt, Tries, LastCode, Verdict, Exhausted
<1>2. RequestAt(q)'
  BY DEF Known, RequestAt, Tries
<1>3. QED
  BY <1>1, <1>2 DEF Known

\* The step leaves the other requests alone.
Spares(r) ==
  \A q \in Requests \ {r} :
    /\ pc'[q] = pc[q] /\ sends'[q] = sends[q] /\ codes'[q] = codes[q]
    /\ reply'[q] = reply[q] /\ span'[q] = span[q]

\* An answer reaches the caller as it is, or nobody.
LEMMA ReplyReaches ==
  ASSUME TypeOK, NEW r \in Requests, NEW http, Reply(r, http)
  PROVE  reply' = reply \/ reply' = [reply EXCEPT ![r] = http]
<1>1. CASE r \in gone
  <2>1. reply' = [reply EXCEPT ![r] = reply[r]]
    BY <1>1 DEF Reply
  <2>2. reply = [q \in Requests |-> reply[q]]
    BY DEF TypeOK
  <2>3. QED
    BY <2>1, <2>2
<1>2. CASE r \notin gone
  BY <1>2 DEF Reply
<1>3. QED
  BY <1>1, <1>2

\* An attempt that ends adds its status.  The call goes on only if that was
\* UNAVAILABLE and an attempt is left; it may end earlier if the sidecar had it
\* or nobody waits for the answer.
LEMMA AttemptKeeps ==
  ASSUME TypeOK, NEW r \in Requests, Known(r), NEW code \in Codes,
         pc[r] \in {"queued", "sent"},
         \/ AttemptEnds(r, code)
         \/ CallEnds(r, code) /\ (pc[r] = "sent" \/ r \in gone)
  PROVE  /\ Known(r)'
         /\ codes' = [codes EXCEPT ![r] = Append(codes[r], code)]
         /\ Append(codes[r], code) \in Seq(Codes)
         /\ \E place \in {"backoff", "done"} : pc' = [pc EXCEPT ![r] = place]
         /\ reply' = reply \/ reply' = [reply EXCEPT ![r] = HttpStatusForGrpc(code)]
         /\ span' = span \/ \E fate \in {"queued", "dropped"} : span' = [span EXCEPT ![r] = fate]
         /\ UNCHANGED <<processVars, channelVars, gone, sends>>
<1> DEFINE n == Tries(r)
           s == codes[r]
           t == Append(s, code)
<1>1. /\ s \in Seq(Codes) /\ n \in Nat /\ n = Len(s)
      /\ t \in Seq(Codes) /\ Len(t) = n + 1 /\ t[n + 1] = code
      /\ \A i \in 1..n : t[i] = s[i]
      /\ MaxAttempts \in Nat \ {0}
      /\ sends[r] \in 0..MaxAttempts
  BY AppendProperties, LenProperties, GatewayAssumption DEF TypeOK, Tries
<1>2. EndsWith(r, code)
  BY DEF AttemptEnds, CallEnds
<1>3. /\ codes' = [codes EXCEPT ![r] = t] /\ codes'[r] = t
      /\ UNCHANGED <<processVars, channelVars, gone, sends>>
  BY <1>2 DEF EndsWith, TypeOK
<1> HIDE DEF n, s, t
<1>4. /\ n < MaxAttempts /\ \A i \in 1..n : s[i] = "UNAVAILABLE"
      /\ sends[r] <= n + 1
      /\ pc[r] = "sent" => sends[r] > 0
      /\ reply[r] = 0
      /\ span[r] \in {"none", "open"} /\ span[r] # "none"
  BY <1>1 DEF Known, TruthAt, RequestAt, Verdict, Exhausted, LastCode, Tries, n, s
<1>5. /\ Tries(r)' = n + 1 /\ LastCode(r)' = code
      /\ \A i \in 1..(n + 1 - 1) : codes'[r][i] = "UNAVAILABLE"
  BY <1>1, <1>3, <1>4 DEF Tries, LastCode
<1>6. CASE pc' = [pc EXCEPT ![r] = "backoff"] /\ UNCHANGED <<reply, span>>
           /\ code = "UNAVAILABLE" /\ n + 1 < MaxAttempts
  <2>1. pc'[r] = "backoff"
    BY <1>6 DEF TypeOK
  <2>2. TruthAt(r)'
    BY <1>1, <1>3, <1>4, <1>5, <1>6 DEF TruthAt, Verdict, Exhausted
  <2>3. RequestAt(r)'
    BY <1>1, <1>3, <1>4, <1>5, <1>6, <2>1 DEF RequestAt, TypeOK
  <2>4. QED
    BY <1>1, <1>3, <1>6, <2>2, <2>3 DEF Known, s, t
<1>7. CASE Reply(r, HttpStatusForGrpc(code))
           /\ (code # "UNAVAILABLE" \/ n + 1 = MaxAttempts \/ pc[r] = "sent" \/ r \in gone)
  <2>1. /\ pc' = [pc EXCEPT ![r] = "done"]
        /\ \E fate \in {"queued", "dropped"} : span' = [span EXCEPT ![r] = fate]
    BY <1>7 DEF Reply, Finish
  <2>2. reply' = [reply EXCEPT ![r] = IF r \in gone THEN reply[r] ELSE HttpStatusForGrpc(code)]
    BY <1>7 DEF Reply
  <2>3. reply' = reply \/ reply' = [reply EXCEPT ![r] = HttpStatusForGrpc(code)]
    BY <1>7, ReplyReaches
  <2>4. /\ pc'[r] = "done" /\ span'[r] \in {"queued", "dropped"}
        /\ reply'[r] = IF r \in gone THEN 0 ELSE HttpStatusForGrpc(code)
    BY <1>4, <2>1, <2>2 DEF TypeOK
  <2>5. /\ reply'[r] = 200 => code = "OK"
        /\ reply'[r] = 503 => code = "UNAVAILABLE" /\ r \notin gone
        /\ reply'[r] # 504
    <3>1. code \in Codes \cup {"DEADLINE_EXCEEDED"} /\ code # "DEADLINE_EXCEEDED"
      BY GatewayAssumption DEF Codes
    <3>2. QED
      BY <2>4, <3>1, StatusOf
  <2>6. TruthAt(r)'
    BY <1>1, <1>3, <1>4, <1>5, <1>7, <2>4, <2>5 DEF TruthAt, Verdict, Exhausted
  <2>7. RequestAt(r)'
    BY <2>4 DEF RequestAt
  <2>8. QED
    BY <1>1, <1>3, <2>1, <2>3, <2>6, <2>7 DEF Known, s, t
<1>8. QED
  <2>1. CASE AttemptEnds(r, code)
    BY <1>1, <1>4, <1>6, <1>7, <2>1 DEF AttemptEnds, CallEnds, Retryable, s, n
  <2>2. CASE CallEnds(r, code) /\ (pc[r] = "sent" \/ r \in gone)
    BY <1>7, <2>2 DEF CallEnds
  <2>3. QED
    BY <2>1, <2>2

\* The three ways in which an attempt ends.
LEMMA AttemptOf ==
  ASSUME TypeOK, ProcessInv, NEW r \in Requests, Known(r),
         SidecarAnswers(r) \/ CallLost(r) \/ PickFails(r)
  PROVE  /\ Running /\ pc[r] \in {"queued", "sent"}
         /\ \E code \in Codes :
              \/ AttemptEnds(r, code)
              \/ CallEnds(r, code) /\ (pc[r] = "sent" \/ r \in gone)
<1>1. /\ Running /\ pc[r] \in {"queued", "sent"}
  BY DEF SidecarAnswers, CallLost, PickFails
<1>2. channel = "SHUTDOWN" => r \in gone
  BY <1>1 DEF ProcessInv, Calling
<1>3. CASE SidecarAnswers(r)
  BY <1>1, <1>3 DEF SidecarAnswers, Codes
<1>4. CASE CallLost(r)
  BY <1>1, <1>4 DEF CallLost, Codes
<1>5. CASE PickFails(r)
  BY <1>1, <1>2, <1>5 DEF PickFails, Codes
<1>6. QED
  BY <1>3, <1>4, <1>5

\* Every action keeps what is known of every request.
LEMMA RequestStep ==
  ASSUME TypeOK, ProcessInv, \A r \in Requests : Known(r), [Next]_vars
  PROVE  \A r \in Requests : Known(r)'
<1> USE DEF TypeOK
<1>1. ASSUME NEW r \in Requests, Known(r)', Spares(r)
      PROVE  \A q \in Requests : Known(q)'
  <2> SUFFICES ASSUME NEW q \in Requests, q # r
               PROVE  Known(q)'
    BY <1>1
  <2>1. /\ pc'[q] = pc[q] /\ sends'[q] = sends[q] /\ codes'[q] = codes[q]
        /\ reply'[q] = reply[q] /\ span'[q] = span[q]
    BY <1>1 DEF Spares
  <2>2. QED
    BY <2>1, Untouched
<1>2. ASSUME UNCHANGED <<pc, sends, codes, reply>>,
             \A q \in Requests :
               \/ span'[q] = span[q]
               \/ span[q] \notin {"none", "open"} /\ span'[q] \notin {"none", "open"}
      PROVE  \A q \in Requests : Known(q)'
  BY <1>2, Untouched
<1>3. CASE Start \/ Expire \/ Signal \/ Kill \/ Wake \/ Connect \/ ConnectFails
           \/ Disconnect \/ SidecarToggles \/ \E r \in Requests : HangUp(r)
  BY <1>2, <1>3 DEF Start, SidecarReady, WaitFails, DelayOver, Expire, Signal, Kill, Wake,
                    Connect, ConnectFails, Disconnect, SidecarToggles, HangUp, requestVars
<1>4. CASE AppClosed \/ Flush \/ FlushFails \/ TracingStopped \/ BatchExport
  <2>1. UNCHANGED <<pc, sends, codes, reply>>
    BY <1>4 DEF AppClosed, CloseChannel, Flush, FlushFails, TracingStopped, BatchExport
  <2>2. ASSUME NEW q \in Requests
        PROVE  \/ span'[q] = span[q]
               \/ span[q] \notin {"none", "open"} /\ span'[q] \notin {"none", "open"}
    BY <1>4 DEF AppClosed, CloseChannel, Flush, FlushFails, TracingStopped, BatchExport, Moved
  <2>3. QED
    BY <1>2, <2>1, <2>2
<1>5. ASSUME NEW r \in Requests, BadRequest(r)
      PROVE  \A q \in Requests : Known(q)'
  <2>1. /\ pc[r] = "idle" /\ pc'[r] = "done" /\ span'[r] \in {"queued", "dropped"}
        /\ reply'[r] \in {reply[r], 400} /\ UNCHANGED <<sends, codes>>
    BY <1>5 DEF BadRequest, Reply, Finish
  <2>2. Known(r)'
    BY <2>1 DEF Known, RequestAt, TruthAt, Tries, LastCode, Verdict, Exhausted
  <2>3. Spares(r)
    BY <1>5 DEF BadRequest, Reply, Finish, Spares
  <2>4. QED
    BY <1>1, <2>2, <2>3
<1>6. ASSUME NEW r \in Requests, Accept(r) \/ StreamOpens(r)
      PROVE  \A q \in Requests : Known(q)'
  <2>1. /\ pc[r] = "idle" /\ pc'[r] \in {"queued", "streaming"} /\ span'[r] = "open"
        /\ UNCHANGED <<sends, codes, reply>>
    BY <1>6 DEF Accept, StreamOpens
  <2>2. Known(r)'
    BY <2>1 DEF Known, RequestAt, TruthAt, Tries, LastCode, Verdict, Exhausted
  <2>3. Spares(r)
    BY <1>6 DEF Accept, StreamOpens, Spares
  <2>4. QED
    BY <1>1, <2>2, <2>3
<1>7. ASSUME NEW r \in Requests, RefuseClosing(r)
      PROVE  \A q \in Requests : Known(q)'
  <2>1. /\ pc[r] = "idle" /\ pc'[r] = "done" /\ span'[r] \in {"queued", "dropped"}
        /\ reply'[r] \in {reply[r], 503} /\ UNCHANGED <<sends, codes>>
    BY <1>7 DEF RefuseClosing, Reply, Finish
  <2>2. Known(r)'
    BY <2>1 DEF Known, RequestAt, TruthAt, Tries, LastCode, Verdict, Exhausted
  <2>3. Spares(r)
    BY <1>7 DEF RefuseClosing, Reply, Finish, Spares
  <2>4. QED
    BY <1>1, <2>2, <2>3
<1>8. ASSUME NEW r \in Requests, Send(r)
      PROVE  \A q \in Requests : Known(q)'
  <2>1. /\ pc[r] = "queued" /\ pc'[r] = "sent" /\ sends'[r] = sends[r] + 1
        /\ UNCHANGED <<codes, reply, span>>
    BY <1>8 DEF Send
  <2>2. Known(r)'
    BY <2>1 DEF Known, RequestAt, TruthAt, Tries, LastCode, Verdict, Exhausted
  <2>3. Spares(r)
    BY <1>8 DEF Send, Spares
  <2>4. QED
    BY <1>1, <2>2, <2>3
<1>9. ASSUME NEW r \in Requests, SidecarAnswers(r) \/ CallLost(r) \/ PickFails(r)
       PROVE  \A q \in Requests : Known(q)'
  <2>1. PICK code \in Codes :
          \/ AttemptEnds(r, code)
          \/ CallEnds(r, code) /\ (pc[r] = "sent" \/ r \in gone)
    BY <1>9, AttemptOf
  <2>2. pc[r] \in {"queued", "sent"}
    BY <1>9, AttemptOf
  <2>3. /\ Known(r)'
        /\ codes' = [codes EXCEPT ![r] = Append(codes[r], code)]
        /\ \E place \in {"backoff", "done"} : pc' = [pc EXCEPT ![r] = place]
        /\ reply' = reply \/ reply' = [reply EXCEPT ![r] = HttpStatusForGrpc(code)]
        /\ span' = span \/ \E fate \in {"queued", "dropped"} : span' = [span EXCEPT ![r] = fate]
        /\ sends' = sends
    BY <2>1, <2>2, AttemptKeeps
  <2>4. Spares(r)
    BY <2>3 DEF Spares
  <2>5. QED
    BY <1>1, <2>3, <2>4
<1>10. ASSUME NEW r \in Requests, BackoffOver(r)
       PROVE  \A q \in Requests : Known(q)'
  <2>1. /\ pc[r] = "backoff" /\ pc'[r] = "queued"
        /\ UNCHANGED <<sends, codes, reply, span>>
    BY <1>10 DEF BackoffOver
  <2>2. Known(r)'
    BY <2>1 DEF Known, RequestAt, TruthAt, Tries, LastCode, Verdict, Exhausted
  <2>3. Spares(r)
    BY <1>10 DEF BackoffOver, Spares
  <2>4. QED
    BY <1>1, <2>2, <2>3
<1>11. ASSUME NEW r \in Requests, Deadline(r)
       PROVE  \A q \in Requests : Known(q)'
  <2>1. /\ pc[r] \in {"queued", "sent", "backoff"} /\ pc'[r] = "done"
        /\ span'[r] \in {"queued", "dropped"} /\ reply'[r] \in {reply[r], 504}
        /\ UNCHANGED <<sends, codes>>
    BY <1>11, StatusOf DEF Deadline, Reply, Finish, Asking
  <2>2. Known(r)'
    BY <2>1 DEF Known, RequestAt, TruthAt, Tries, LastCode, Verdict, Exhausted
  <2>3. Spares(r)
    BY <1>11 DEF Deadline, Reply, Finish, Spares
  <2>4. QED
    BY <1>1, <2>2, <2>3
<1>12. ASSUME NEW r \in Requests, StreamCloses(r)
       PROVE  \A q \in Requests : Known(q)'
  <2>1. /\ pc[r] = "streaming" /\ pc'[r] = "done" /\ span'[r] \in {"queued", "dropped"}
        /\ UNCHANGED <<sends, codes, reply>>
    BY <1>12 DEF StreamCloses, Finish
  <2>2. Known(r)'
    BY <2>1 DEF Known, RequestAt, TruthAt, Tries, LastCode, Verdict, Exhausted
  <2>3. Spares(r)
    BY <1>12 DEF StreamCloses, Finish, Spares
  <2>4. QED
    BY <1>1, <2>2, <2>3
<1>13. CASE UNCHANGED vars
  BY <1>2, <1>13 DEF vars, requestVars
<1>14. QED
  BY <1>3, <1>4, <1>5, <1>6, <1>7, <1>8, <1>9, <1>10, <1>11, <1>12, <1>13
  DEF Next, Shutdown, Call

\* Names for two types.
Statuses == {0, 200, 400, 404, 429, 501, 502, 503, 504}
Fates == {"none", "open", "queued", "flushing", "exported", "dropped", "lost"}

\* An answer is one of the statuses, for whichever request it is.
LEMMA ReplyType ==
  ASSUME reply \in [Requests -> Statuses], NEW r \in Requests,
         reply' = reply \/ \E http \in Statuses : reply' = [reply EXCEPT ![r] = http]
  PROVE  reply' \in [Requests -> Statuses]
OBVIOUS

\* So are the fates of its spans.
LEMMA FateType ==
  ASSUME span \in [Requests -> Fates], NEW r \in Requests,
         span' = span \/ \E fate \in {"open", "queued", "dropped"} :
                            span' = [span EXCEPT ![r] = fate]
  PROVE  span' \in [Requests -> Fates]
<1>1. {"open", "queued", "dropped"} \subseteq Fates
  BY DEF Fates
<1>2. QED
  BY <1>1

\* Every action keeps the types.
LEMMA TypeStep ==
  ASSUME TypeOK, ProcessInv, \A r \in Requests : Known(r), [Next]_vars
  PROVE  TypeOK'
<1>0. /\ MaxAttempts \in Nat \ {0}
      /\ reply \in [Requests -> Statuses] /\ span \in [Requests -> Fates]
  BY GatewayAssumption DEF TypeOK, Statuses, Fates
<1>1. CASE Start \/ Expire \/ Signal \/ Kill
  <2>1. UNCHANGED <<channelVars, requestVars>>
    BY <1>1 DEF Start, SidecarReady, WaitFails, DelayOver, Expire, Signal, Kill
  <2>2. /\ phase' \in {"warming", "serving", "closing", "exited"}
        /\ exit' \in {"running", "failed", "killed"}
        /\ (exit' = "running") <=> (phase' # "exited")
    BY <1>1 DEF Start, SidecarReady, WaitFails, DelayOver, Listen, Fatal, Exit, Expire,
                Signal, Kill, Running, TypeOK
  <2>3. /\ waiting' = waiting \/ waiting' = TRUE \/ waiting' = FALSE
        /\ expired' = expired \/ expired' = TRUE \/ expired' = FALSE
    BY <1>1 DEF Start, SidecarReady, WaitFails, DelayOver, Listen, Expire, Signal, Kill
  <2>4. waiting' \in BOOLEAN /\ expired' \in BOOLEAN
    BY <2>3 DEF TypeOK
  <2>5. QED
    BY <2>1, <2>2, <2>4 DEF TypeOK, channelVars, requestVars
<1>2. CASE Wake \/ Connect \/ ConnectFails \/ Disconnect \/ SidecarToggles
  <2>1. /\ UNCHANGED <<processVars, requestVars>>
        /\ \/ channel' = channel
           \/ channel' \in {"IDLE", "CONNECTING", "READY", "TRANSIENT_FAILURE"}
    BY <1>2 DEF Wake, Connect, ConnectFails, Disconnect, SidecarToggles
  <2>2. up' = up \/ up' = ~up
    BY <1>2 DEF Wake, Connect, ConnectFails, Disconnect, SidecarToggles
  <2>3. up' \in BOOLEAN
    BY <2>2, Zenon DEF TypeOK
  <2>4. QED
    BY <2>1, <2>3 DEF TypeOK, processVars, requestVars
<1>3. CASE AppClosed \/ Flush \/ FlushFails \/ TracingStopped \/ BatchExport
  <2>1. /\ UNCHANGED <<waiting, expired, up, gone, pc, sends, codes, reply>>
        /\ channel' = channel \/ channel' = "SHUTDOWN"
    BY <1>3 DEF AppClosed, CloseChannel, Flush, FlushFails, TracingStopped, BatchExport,
                processVars, channelVars
  <2>2. span' \in [Requests -> Fates]
    BY <1>0, <1>3 DEF AppClosed, CloseChannel, Flush, FlushFails, TracingStopped, BatchExport,
                      Moved, Fates
  <2>3. /\ phase' \in {"warming", "serving", "closing", "flushing", "stopping", "exited"}
        /\ exit' \in {"running", "clean", "failed", "killed"}
        /\ (exit' = "running") <=> (phase' # "exited")
    BY <1>3 DEF AppClosed, CloseChannel, Flush, FlushFails, TracingStopped, BatchExport, Exit,
                processVars, TypeOK
  <2>4. QED
    BY <2>1, <2>2, <2>3 DEF TypeOK, Fates
<1>4. ASSUME NEW r \in Requests,
             BadRequest(r) \/ Accept(r) \/ RefuseClosing(r) \/ BackoffOver(r)
             \/ StreamOpens(r) \/ StreamCloses(r) \/ Deadline(r)
      PROVE  TypeOK'
  <2>1. UNCHANGED <<processVars, channelVars, gone, sends, codes>>
    BY <1>4 DEF BadRequest, Accept, RefuseClosing, BackoffOver, StreamOpens, StreamCloses,
                Deadline
  <2>2. \E place \in {"queued", "streaming", "done"} : pc' = [pc EXCEPT ![r] = place]
    BY <1>4 DEF BadRequest, Accept, RefuseClosing, BackoffOver, StreamOpens,
                StreamCloses, Deadline, Reply, Finish
  <2>3. span' = span \/ \E fate \in {"open", "queued", "dropped"} :
                            span' = [span EXCEPT ![r] = fate]
    BY <1>4 DEF BadRequest, Accept, RefuseClosing, BackoffOver, StreamOpens,
                StreamCloses, Deadline, Reply, Finish
  <2>4. reply' = reply \/ \E http \in {400, 503, 504} : reply' = [reply EXCEPT ![r] = http]
    <3>1. HttpStatusForGrpc("DEADLINE_EXCEEDED") = 504
      BY StatusOf
    <3>2. ASSUME NEW http \in {400, 503, 504}, Reply(r, http)
          PROVE  reply' = reply \/ reply' = [reply EXCEPT ![r] = http]
      BY <3>2, ReplyReaches
    <3>3. QED
      BY <1>4, <3>1, <3>2 DEF BadRequest, Accept, RefuseClosing, BackoffOver, StreamOpens,
                              StreamCloses, Deadline
  <2>5. pc' \in [Requests -> {"idle", "queued", "sent", "backoff", "streaming", "done"}]
    BY <2>2 DEF TypeOK
  <2>6. span' \in [Requests -> Fates]
    BY <1>0, <2>3, FateType
  <2>7. reply' \in [Requests -> Statuses]
    BY <1>0, <2>4, ReplyType DEF Statuses
  <2>8. QED
    BY <2>1, <2>5, <2>6, <2>7 DEF TypeOK, processVars, channelVars, Fates, Statuses
<1>5. ASSUME NEW r \in Requests, HangUp(r)
      PROVE  TypeOK'
  BY <1>5 DEF TypeOK, HangUp, processVars, channelVars
<1>6. ASSUME NEW r \in Requests, Send(r)
      PROVE  TypeOK'
  <2>1. sends[r] + 1 \in 0..MaxAttempts
    <3>1. /\ sends[r] <= Tries(r) /\ Tries(r) <= MaxAttempts
          /\ ~Verdict(r) /\ ~Exhausted(r)
      BY <1>6 DEF Known, RequestAt, TruthAt, Send
    <3>2. Tries(r) \in Nat /\ sends[r] \in Nat
      BY LenProperties DEF Tries, TypeOK
    <3>3. QED
      BY <1>0, <3>1, <3>2 DEF Verdict, Exhausted
  <2>2. QED
    BY <1>6, <2>1 DEF TypeOK, Send, processVars, channelVars
<1>7. ASSUME NEW r \in Requests, SidecarAnswers(r) \/ CallLost(r) \/ PickFails(r)
      PROVE  TypeOK'
  <2>1. PICK code \in Codes :
          \/ AttemptEnds(r, code)
          \/ CallEnds(r, code) /\ (pc[r] = "sent" \/ r \in gone)
    BY <1>7, AttemptOf
  <2>2. pc[r] \in {"queued", "sent"}
    BY <1>7, AttemptOf
  <2>3. PICK place \in {"backoff", "done"} : pc' = [pc EXCEPT ![r] = place]
    BY <2>1, <2>2, AttemptKeeps
  <2>4. /\ codes' = [codes EXCEPT ![r] = Append(codes[r], code)]
        /\ Append(codes[r], code) \in Seq(Codes)
        /\ reply' = reply \/ reply' = [reply EXCEPT ![r] = HttpStatusForGrpc(code)]
        /\ span' = span \/ \E fate \in {"queued", "dropped"} : span' = [span EXCEPT ![r] = fate]
    BY <2>1, <2>2, AttemptKeeps
  <2>5. UNCHANGED <<processVars, channelVars, gone, sends>>
    BY <2>1, <2>2, AttemptKeeps
  <2>6. HttpStatusForGrpc(code) \in {200, 400, 404, 429, 501, 502, 503, 504}
    BY StatusOf
  <2>7. codes' \in [Requests -> Seq(Codes)]
    BY <2>4 DEF TypeOK
  <2>8. pc' \in [Requests -> {"idle", "queued", "sent", "backoff", "streaming", "done"}]
    BY <2>3 DEF TypeOK
  <2>9. reply' \in [Requests -> Statuses]
    <3>1. HttpStatusForGrpc(code) \in Statuses
      BY <2>6 DEF Statuses
    <3>2. QED
      BY <1>0, <2>4, <3>1, ReplyType
  <2>10. span' \in [Requests -> Fates]
    BY <1>0, <2>4, FateType
  <2>11. QED
    BY <2>5, <2>7, <2>8, <2>9, <2>10 DEF TypeOK, processVars, channelVars, Fates, Statuses
<1>8. CASE UNCHANGED vars
  BY <1>8 DEF vars, processVars, channelVars, requestVars, TypeOK
<1>9. QED
  BY <1>1, <1>2, <1>3, <1>4, <1>5, <1>6, <1>7, <1>8 DEF Next, Shutdown, Call

\* The channel outlives the calls that somebody waits for, and the flush follows
\* their spans.
LEMMA ProcessStep ==
  ASSUME TypeOK, \A r \in Requests : Known(r), ProcessInv, [Next]_vars
  PROVE  ProcessInv'
<1> USE DEF TypeOK
<1>1. CASE Start
  <2>1. /\ phase = "warming" /\ UNCHANGED <<channel, gone, pc, span>>
        /\ \/ phase' \in {"warming", "serving"} /\ exit' = exit
           \/ phase' = "exited" /\ exit' = "failed"
    BY <1>1 DEF Start, SidecarReady, WaitFails, DelayOver, Listen, Fatal, Exit,
                channelVars, requestVars
  <2>2. Calling = {} /\ Calling' = {} /\ exit = "running"
    BY <2>1 DEF ProcessInv, Calling
  <2>3. QED
    BY <2>1, <2>2 DEF ProcessInv
<1>2. CASE Expire \/ Signal \/ Kill
  BY <1>2 DEF Expire, Signal, Kill, Exit, Running, channelVars, requestVars, ProcessInv, Calling
<1>3. CASE Wake \/ Connect \/ ConnectFails \/ Disconnect \/ SidecarToggles
  BY <1>3 DEF Wake, Connect, ConnectFails, Disconnect, SidecarToggles, Running,
              processVars, requestVars, ProcessInv, Calling
<1>4. CASE AppClosed
  <2>1. /\ phase = "closing" /\ phase' = "flushing" /\ Calling \subseteq gone
        /\ UNCHANGED <<exit, gone, pc>>
        /\ \A r \in Requests : span'[r] # "queued" /\ (span'[r] = "lost" => span[r] = "lost")
    BY <1>4 DEF AppClosed, CloseChannel, Moved
  <2>2. QED
    BY <2>1 DEF ProcessInv, Calling
<1>5. CASE Flush
  <2>1. /\ phase = "flushing" /\ phase' = "stopping"
        /\ UNCHANGED <<channel, exit, gone, pc>>
        /\ \A r \in Requests : span'[r] # "queued" /\ (span'[r] = "lost" => span[r] = "lost")
    BY <1>5 DEF Flush, channelVars
  <2>2. QED
    BY <2>1 DEF ProcessInv, Calling
<1>6. CASE FlushFails \/ TracingStopped
  <2>1. /\ phase \in {"flushing", "stopping"} /\ phase' = "exited"
        /\ UNCHANGED <<channel, gone, pc>>
        /\ \/ exit' = "failed"
           \/ exit' = "clean" /\ span' = Moved("flushing", "exported")
    BY <1>6 DEF FlushFails, TracingStopped, Exit, channelVars
  <2>2. exit' = "clean" =>
          /\ \A r \in Requests \ gone : span'[r] # "queued"
          /\ \A r \in Requests : span'[r] \notin {"flushing", "lost"}
    BY <2>1 DEF Moved, ProcessInv
  <2>3. Calling' \subseteq gone'
    BY <2>1 DEF ProcessInv, Calling
  <2>4. QED
    BY <2>1, <2>2, <2>3 DEF ProcessInv
<1>7. CASE BatchExport
  <2>1. UNCHANGED <<processVars, channelVars, gone, pc>> /\ exit = "running"
    BY <1>7 DEF BatchExport, Running
  <2>2. \A r \in Requests : \/ span'[r] = span[r]
                            \/ span'[r] \in {"exported", "dropped"}
    BY <1>7 DEF BatchExport, Moved
  <2>3. \A r \in Requests : /\ span'[r] = "lost" => span[r] = "lost"
                            /\ span'[r] = "queued" => span[r] = "queued"
    BY <2>2, Zenon
  <2>4. Calling' = Calling /\ UNCHANGED <<phase, exit, channel, gone, pc>>
    BY <2>1 DEF Calling, processVars, channelVars
  <2>5. phase \in {"flushing", "stopping"} \/ exit = "clean"
          => \A r \in Requests \ gone : span'[r] # "queued"
    BY <2>3 DEF ProcessInv
  <2>6. \A r \in Requests : span'[r] # "lost"
    <3>1. phase # "exited"
      BY <2>1
    <3>2. \A r \in Requests : span[r] # "lost"
      BY <3>1 DEF ProcessInv
    <3>3. QED
      BY <2>3, <3>2
  <2>7. QED
    BY <2>1, <2>4, <2>5, <2>6 DEF ProcessInv
<1>8. ASSUME NEW r \in Requests,
             BadRequest(r) \/ Accept(r) \/ RefuseClosing(r) \/ StreamOpens(r)
      PROVE  ProcessInv'
  <2>1. UNCHANGED <<processVars, channelVars>> /\ phase \in {"serving", "closing"}
    BY <1>8 DEF BadRequest, Accept, RefuseClosing, StreamOpens
  <2>2. \A q \in Requests : span'[q] = "lost" => span[q] = "lost"
    BY <1>8 DEF BadRequest, Accept, RefuseClosing, StreamOpens, Reply, Finish
  <2>3. QED
    BY <2>1, <2>2 DEF ProcessInv, processVars, channelVars
<1>9. ASSUME NEW r \in Requests, UNCHANGED <<processVars, channelVars>>, Running, r \in Calling,
             Spares(r), gone \subseteq gone',
             \/ span'[r] = span[r]
             \/ span'[r] = IF phase = "stopping" THEN "dropped" ELSE "queued"
      PROVE  ProcessInv'
  <2>1. exit = "running" /\ phase # "exited" /\ phase # "warming"
    BY <1>9 DEF Running, ProcessInv, Calling
  <2>2. ASSUME channel = "SHUTDOWN" \/ phase \in {"flushing", "stopping"}
        PROVE  Calling' \subseteq gone'
    <3>1. Calling \subseteq gone
      BY <2>2 DEF ProcessInv
    <3>2. Calling' \subseteq Calling \cup {r}
      BY <1>9 DEF Calling, Spares
    <3>3. QED
      BY <1>9, <3>1, <3>2
  <2>3. ASSUME phase \in {"flushing", "stopping"}
        PROVE  \A q \in Requests \ gone' : span'[q] # "queued"
    <3>1. r \in gone'
      BY <1>9, <2>3 DEF ProcessInv
    <3>2. QED
      BY <1>9, <2>3, <3>1 DEF ProcessInv, Spares
  <2>4. \A q \in Requests : span'[q] # "lost"
    BY <1>9, <2>1 DEF ProcessInv, Spares
  <2>5. QED
    BY <1>9, <2>1, <2>2, <2>3, <2>4 DEF ProcessInv, processVars, channelVars
<1>10. ASSUME NEW r \in Requests,
              Send(r) \/ BackoffOver(r) \/ Deadline(r) \/ StreamCloses(r) \/ HangUp(r)
       PROVE  ProcessInv'
  <2>1. /\ UNCHANGED <<processVars, channelVars>> /\ Running
        /\ r \in Calling /\ gone \subseteq gone'
    BY <1>10 DEF Send, BackoffOver, Deadline, StreamCloses, HangUp, Asking, Calling
  <2>2. Spares(r)
    BY <1>10 DEF Send, BackoffOver, Deadline, StreamCloses, HangUp, Reply, Finish, Spares
  <2>3. \/ span'[r] = span[r]
        \/ span'[r] = IF phase = "stopping" THEN "dropped" ELSE "queued"
    BY <1>10 DEF Send, BackoffOver, Deadline, StreamCloses, HangUp, Reply, Finish
  <2>4. QED
    BY <1>9, <2>1, <2>2, <2>3
<1>11. ASSUME NEW r \in Requests, SidecarAnswers(r) \/ CallLost(r) \/ PickFails(r)
       PROVE  ProcessInv'
  <2>1. PICK code \in Codes :
          \/ AttemptEnds(r, code)
          \/ CallEnds(r, code) /\ (pc[r] = "sent" \/ r \in gone)
    BY <1>11, AttemptOf
  <2>2. /\ Running /\ pc[r] \in {"queued", "sent"} /\ r \in Calling
    BY <1>11, AttemptOf DEF Calling
  <2>3. /\ UNCHANGED <<processVars, channelVars, gone, sends>>
        /\ codes' = [codes EXCEPT ![r] = Append(codes[r], code)]
        /\ \E place \in {"backoff", "done"} : pc' = [pc EXCEPT ![r] = place]
        /\ reply' = reply \/ reply' = [reply EXCEPT ![r] = HttpStatusForGrpc(code)]
        /\ span' = span \/ \E fate \in {"queued", "dropped"} : span' = [span EXCEPT ![r] = fate]
    BY <2>1, <2>2, AttemptKeeps
  <2>4. Spares(r)
    BY <2>3 DEF Spares
  <2>5. \/ span'[r] = span[r]
        \/ span'[r] = IF phase = "stopping" THEN "dropped" ELSE "queued"
    BY <2>1 DEF AttemptEnds, CallEnds, Reply, Finish
  <2>6. QED
    BY <1>9, <2>2, <2>3, <2>4, <2>5
<1>12. CASE UNCHANGED vars
  BY <1>12 DEF vars, processVars, channelVars, requestVars, ProcessInv, Calling
<1>13. QED
  BY <1>1, <1>2, <1>3, <1>4, <1>5, <1>6, <1>7, <1>8, <1>10, <1>11, <1>12
  DEF Next, Shutdown, Call

------------------------------------------------------------------------------

\* Every reachable state of the gateway satisfies the inductive invariant.
THEOREM Invariance == Spec => []IInv
<1>1. Init => IInv
  <2> SUFFICES ASSUME Init PROVE IInv
    OBVIOUS
  <2>1. MaxAttempts \in Nat \ {0}
    BY GatewayAssumption
  <2>2. TypeOK
    <3>1. codes \in [Requests -> Seq(Codes)]
      BY EmptySeq DEF Init
    <3>2. sends \in [Requests -> 0..MaxAttempts]
      BY <2>1 DEF Init
    <3>3. /\ waiting \in BOOLEAN /\ expired \in BOOLEAN /\ up \in BOOLEAN
      BY DEF Init
    <3>4. QED
      BY <3>1, <3>2, <3>3 DEF Init, TypeOK
  <2>3. ASSUME NEW r \in Requests
        PROVE  TruthAt(r) /\ RequestAt(r)
    <3>1. /\ pc[r] = "idle" /\ sends[r] = 0 /\ codes[r] = <<>> /\ reply[r] = 0
          /\ span[r] = "none"
      BY DEF Init
    <3>2. Tries(r) = 0
      BY <3>1, EmptySeq DEF Tries
    <3>3. QED
      BY <2>1, <3>1, <3>2 DEF TruthAt, RequestAt, Verdict, Exhausted
  <2>4. ProcessInv
    BY DEF Init, ProcessInv
  <2>5. QED
    BY <2>2, <2>3, <2>4 DEF IInv, AnswerTellsTheTruth
<1>2. IInv /\ [Next]_vars => IInv'
  <2> SUFFICES ASSUME IInv, [Next]_vars PROVE IInv'
    OBVIOUS
  <2>1. TypeOK /\ ProcessInv /\ \A r \in Requests : Known(r)
    BY DEF IInv, AnswerTellsTheTruth, Known
  <2>2. TypeOK' /\ ProcessInv' /\ \A r \in Requests : Known(r)'
    BY <2>1, TypeStep, ProcessStep, RequestStep
  <2>3. QED
    BY <2>2 DEF IInv, AnswerTellsTheTruth, Known
<1>3. QED
  BY <1>1, <1>2, PTL DEF Spec

\* Every variable keeps its type.
THEOREM TypeCorrect == Spec => []TypeOK
<1>1. IInv => TypeOK
  BY DEF IInv
<1>2. QED
  BY <1>1, Invariance, PTL

\* A caller may conclude from the status what the attempts behind it came to, for
\* any number of attempts (grpc-client.ts:55-57, errors.ts).
THEOREM AnswersAreTrue == Spec => []AnswerTellsTheTruth
<1>1. IInv => AnswerTellsTheTruth
  BY DEF IInv
<1>2. QED
  BY <1>1, Invariance, PTL

\* A process that ends by itself owes an answer to nobody who stayed, and one that
\* reports success leaves none of their spans behind (server.ts:47-58).
THEOREM ExitIsGraceful == Spec => []GracefulExit
<1>1. IInv => GracefulExit
  <2> SUFFICES ASSUME IInv PROVE GracefulExit
    OBVIOUS
  <2>1. exit \in {"clean", "failed"} => Calling \subseteq gone
    BY DEF IInv, ProcessInv
  <2>2. ASSUME exit = "clean", NEW r \in Requests \ gone
        PROVE  span[r] \in {"none", "exported", "dropped"}
    <3>1. pc[r] \in {"idle", "done"}
      BY <2>1, <2>2 DEF Calling
    <3>2. span[r] \notin {"queued", "flushing", "lost"}
      BY <2>2 DEF IInv, ProcessInv
    <3>3. QED
      BY <3>1, <3>2 DEF IInv, RequestAt, TypeOK
  <2>3. QED
    BY <2>1, <2>2 DEF GracefulExit
<1>2. QED
  BY <1>1, Invariance, PTL

==============================================================================
