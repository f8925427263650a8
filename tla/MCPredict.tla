------------------------------ MODULE MCPredict ------------------------------
(* Instances of Predict for TLC. *)
EXTENDS Predict, TLC

CONSTANTS InputA, InputB

\* Two requests that share an entry and one that does not.
MCRequests == {[model |-> Unset, input |-> InputA],
               [model |-> DefaultModel, input |-> InputA],
               [model |-> DefaultModel, input |-> InputB]}

Symmetry == Permutations(Calls)

==============================================================================
