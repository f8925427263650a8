-------------------------- MODULE DeltaStream_proofs --------------------------
(* What the contract of the streaming method means for its callers, for any
   number of streams and deltas.  StreamPredictions_proofs and SseBridge_proofs
   carry it over to the caller of the gRPC stream and to the SSE client.     *)
EXTENDS DeltaStream, SequenceTheorems, TLAPS

DeltaType == [step : 1..MaxSteps, cumulative : Int, final : BOOLEAN]

Typed == /\ total \in [Streams -> 0..MaxSteps]
         /\ sent \in [Streams -> Seq(DeltaType)]
         /\ outcome = [r \in Streams |-> outcome[r]]

\* The delta that is sent next has its type.
LEMMA NextDelta ==
  ASSUME MaxSteps \in Nat, \A k \in 1..MaxSteps : Value[k] \in Int,
         Typed, NEW r \in Streams, Len(sent[r]) < total[r]
  PROVE  /\ Delta(r, Len(sent[r]) + 1) \in DeltaType
         /\ Len(sent[r]) + 1 \in 1..MaxSteps
<1>1. /\ total[r] \in 0..MaxSteps /\ sent[r] \in Seq(DeltaType) /\ Len(sent[r]) \in Nat
  BY LenProperties DEF Typed
<1> DEFINE n == Len(sent[r])
<1>2. n + 1 \in 1..MaxSteps
  BY <1>1
<1>3. Value[n + 1] \in Int
  BY <1>2
<1>4. n + 1 # 1 => sent[r][(n + 1) - 1] \in DeltaType
  BY <1>1, ElementOfSeq
<1>5. n + 1 # 1 => sent[r][(n + 1) - 1].cumulative \in Int
  BY <1>4 DEF DeltaType
<1> HIDE DEF n
<1>6. Delta(r, n + 1).cumulative \in Int
  BY <1>3, <1>5 DEF Delta
<1>7. Delta(r, n + 1) \in DeltaType
  BY <1>2, <1>6 DEF Delta, DeltaType
<1>8. QED
  BY <1>2, <1>7 DEF n

\* Whoever keeps the contract keeps the promise: a delta once sent stays the one
\* its number calls for, and OK is the status of whole streams only.
THEOREM PromiseKept ==
  ASSUME MaxSteps \in Nat, \A k \in 1..MaxSteps : Value[k] \in Int
  PROVE  Spec => []Promise
<1>1. Init => Typed /\ Promise
  <2> SUFFICES ASSUME Init PROVE Typed /\ Promise
    OBVIOUS
  <2>1. <<>> \in Seq(DeltaType) /\ Len(<<>>) = 0
    OBVIOUS
  <2>2. Typed
    BY <2>1 DEF Init, Typed
  <2>3. QED
    BY <2>1, <2>2 DEF Init, Promise, PromiseAt
<1>2. Typed /\ Promise /\ [Next]_<<total, sent, outcome>> => (Typed /\ Promise)'
  <2> SUFFICES ASSUME Typed, Promise, [Next]_<<total, sent, outcome>>
               PROVE  Typed' /\ Promise'
    OBVIOUS
  <2>1. ASSUME NEW q \in Streams, total'[q] = total[q], sent'[q] = sent[q],
               outcome'[q] = outcome[q] \/ outcome'[q] # "OK"
        PROVE  PromiseAt(q)'
    BY <2>1 DEF Promise, PromiseAt, Delta
  <2>2. ASSUME NEW r \in Streams, Open(r)
        PROVE  Typed' /\ Promise'
    <3>1. PICK n \in 1..MaxSteps : total' = [total EXCEPT ![r] = n]
      BY <2>2 DEF Open
    <3>2. total[r] = 0 /\ outcome[r] = "none" /\ sent' = sent /\ outcome' = outcome
      BY <2>2 DEF Open
    <3>3. sent[r] \in Seq(DeltaType) /\ Len(sent[r]) \in Nat
      BY LenProperties DEF Typed
    <3>4. Len(sent[r]) = 0
      BY <3>2, <3>3 DEF Promise, PromiseAt
    <3>5. total'[r] = n
      BY <3>1 DEF Typed
    <3>6. PromiseAt(r)'
      BY <3>2, <3>4, <3>5 DEF PromiseAt
    <3>7. \A q \in Streams \ {r} : PromiseAt(q)'
      BY <2>1, <3>1, <3>2 DEF Typed
    <3>8. Typed'
      BY <3>1, <3>2 DEF Typed
    <3>9. QED
      BY <3>6, <3>7, <3>8 DEF Promise
  <2>3. ASSUME NEW r \in Streams, Deliver(r)
        PROVE  Typed' /\ Promise'
    <3> DEFINE n == Len(sent[r])
               d == Delta(r, n + 1)
    <3>1. /\ outcome[r] = "none" /\ n < total[r]
          /\ sent' = [sent EXCEPT ![r] = Append(sent[r], d)]
          /\ total' = total /\ outcome' = outcome
      BY <2>3 DEF Deliver
    <3>2. sent[r] \in Seq(DeltaType) /\ n \in Nat /\ total[r] \in 0..MaxSteps
      BY LenProperties DEF Typed
    <3>3. d \in DeltaType
      BY <3>1, NextDelta
    <3>4. sent'[r] = Append(sent[r], d)
      BY <3>1 DEF Typed
    <3>5. /\ Append(sent[r], d) \in Seq(DeltaType)
          /\ Len(Append(sent[r], d)) = n + 1
          /\ \A k \in 1..n : Append(sent[r], d)[k] = sent[r][k]
          /\ Append(sent[r], d)[n + 1] = d
      BY <3>2, <3>3, AppendProperties
    <3>6. \A k \in 1..n : sent[r][k] = Delta(r, k)
      BY DEF Promise, PromiseAt
    <3> HIDE DEF d
    <3>7. ASSUME NEW k \in 1..(n + 1)
          PROVE  sent'[r][k] = Delta(r, k)'
      <4>1. k # 1 => k - 1 \in 1..n /\ sent'[r][k - 1] = sent[r][k - 1]
        BY <3>2, <3>4, <3>5
      <4>2. CASE k \in 1..n
        <5>1. sent'[r][k] = sent[r][k] /\ total'[r] = total[r]
          BY <3>1, <3>4, <3>5, <4>2
        <5>2. sent'[r][k] = Delta(r, k)
          BY <3>6, <4>2, <5>1
        <5>3. Delta(r, k)' = Delta(r, k)
          BY <4>1, <5>1, Zenon DEF Delta
        <5>4. QED
          BY <5>2, <5>3
      <4>3. CASE k = n + 1
        <5>1. sent'[r][k] = d /\ total'[r] = total[r]
          BY <3>1, <3>4, <3>5, <4>3
        <5>2. Delta(r, k)' = Delta(r, k)
          BY <4>1, <5>1, Zenon DEF Delta
        <5>3. QED
          BY <4>3, <5>1, <5>2 DEF d
      <4>4. QED
        BY <3>2, <4>2, <4>3
    <3>8. Len(sent'[r]) = n + 1 /\ n + 1 <= total'[r] /\ outcome'[r] # "OK"
      BY <3>1, <3>2, <3>4, <3>5
    <3> HIDE DEF n
    <3>9. PromiseAt(r)'
      BY <3>7, <3>8 DEF PromiseAt
    <3>10. \A q \in Streams \ {r} : PromiseAt(q)'
      BY <2>1, <3>1 DEF Typed
    <3>11. Typed'
      BY <3>1, <3>5 DEF Typed
    <3>12. QED
      BY <3>9, <3>10, <3>11 DEF Promise
  <2>4. ASSUME NEW r \in Streams, Complete(r) \/ Break(r)
        PROVE  Typed' /\ Promise'
    <3>1. PICK code : /\ outcome' = [outcome EXCEPT ![r] = code]
                      /\ total' = total /\ sent' = sent
                      /\ code = "OK" => total[r] > 0 /\ Len(sent[r]) = total[r]
      BY <2>4 DEF Complete, Break
    <3>2. outcome'[r] = code
      BY <3>1 DEF Typed
    <3>3. PromiseAt(r)'
      BY <3>1, <3>2 DEF Promise, PromiseAt, Delta
    <3>4. \A q \in Streams \ {r} : PromiseAt(q)'
      BY <2>1, <3>1 DEF Typed
    <3>5. Typed'
      BY <3>1 DEF Typed
    <3>6. QED
      BY <3>3, <3>4, <3>5 DEF Promise
  <2>5. CASE UNCHANGED <<total, sent, outcome>>
    BY <2>1, <2>5 DEF Typed, Promise
  <2>6. QED
    BY <2>2, <2>3, <2>4, <2>5 DEF Next
<1>3. QED
  BY <1>1, <1>2, PTL DEF Spec

==============================================================================
