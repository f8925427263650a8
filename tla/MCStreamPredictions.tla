------------------------ MODULE MCStreamPredictions ------------------------
(* Small instances of StreamPredictions for TLC. *)
EXTENDS StreamPredictions

MCRequestedSteps == {0, 1, 2, 3}
MCDefaultSteps == 1
MCMaxSteps == 2
MCValue == [k \in 1..MCMaxSteps |-> IF k = 1 THEN 1 ELSE -2]

Symmetry == Permutations(Streams)

==============================================================================
