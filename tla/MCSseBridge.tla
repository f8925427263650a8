----------------------------- MODULE MCSseBridge -----------------------------
(* A small instance of SseBridge for TLC. *)
EXTENDS SseBridge

MCMaxSteps == 3
MCValue == [k \in 1..MCMaxSteps |-> IF k = 2 THEN -2 ELSE 1]

==============================================================================
