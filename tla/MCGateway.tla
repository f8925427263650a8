------------------------------ MODULE MCGateway ------------------------------
(* A small instance of Gateway for TLC. *)
EXTENDS Gateway

MCSidecarCodes == {"OK", "RESOURCE_EXHAUSTED"}

==============================================================================
