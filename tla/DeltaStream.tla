----------------------------- MODULE DeltaStream -----------------------------
(* What the server-streaming RPC StreamPredictions promises its callers
   (proto/prediction.proto): a stream announces `total_steps`, carries
   the deltas 1, 2, ... in order, each with the running sum of the values so
   far, marks the last one final and ends with OK only after it.  A stream may
   break at any point, and then it never ends with OK.                       *)
EXTENDS Integers, Sequences

CONSTANTS Streams,    \* the calls
          MaxSteps,   \* the largest number of deltas
          Value       \* Value[k]: what the model computes at step k

VARIABLES total,      \* total_steps; 0 until the stream is open
          sent,       \* the deltas the caller was given
          outcome     \* "none" until the call ends, then its status

Delta(r, k) ==
  [step |-> k,
   cumulative |-> Value[k] + (IF k = 1 THEN 0 ELSE sent[r][k - 1].cumulative),
   final |-> k = total[r]]

Init == /\ total = [r \in Streams |-> 0]
        /\ sent = [r \in Streams |-> <<>>]
        /\ outcome = [r \in Streams |-> "none"]

Open(r) == /\ outcome[r] = "none" /\ total[r] = 0
           /\ \E n \in 1..MaxSteps : total' = [total EXCEPT ![r] = n]
           /\ UNCHANGED <<sent, outcome>>

Deliver(r) == /\ outcome[r] = "none"
              /\ Len(sent[r]) < total[r]
              /\ sent' = [sent EXCEPT ![r] = Append(@, Delta(r, Len(@) + 1))]
              /\ UNCHANGED <<total, outcome>>

Complete(r) == /\ outcome[r] = "none"
               /\ total[r] > 0 /\ Len(sent[r]) = total[r]
               /\ outcome' = [outcome EXCEPT ![r] = "OK"]
               /\ UNCHANGED <<total, sent>>

Break(r) == /\ outcome[r] = "none"
            /\ \E code \in {"INVALID_ARGUMENT", "RESOURCE_EXHAUSTED",
                            "CANCELLED", "INTERNAL"} :
                 outcome' = [outcome EXCEPT ![r] = code]
            /\ UNCHANGED <<total, sent>>

Next == \E r \in Streams : Open(r) \/ Deliver(r) \/ Complete(r) \/ Break(r)

Spec == Init /\ [][Next]_<<total, sent, outcome>>

\* What a caller can rely on at any moment: it was given the deltas 1, 2, ...,
\* no more of them than announced, and after OK all of them, the last one final.
PromiseAt(r) == /\ Len(sent[r]) <= total[r]
                /\ \A k \in 1..Len(sent[r]) : sent[r][k] = Delta(r, k)
                /\ outcome[r] = "OK" => Len(sent[r]) = total[r] /\ total[r] > 0

Promise == \A r \in Streams : PromiseAt(r)

==============================================================================
