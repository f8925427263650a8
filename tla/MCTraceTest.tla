----------------------------- MODULE MCTraceTest -----------------------------
(* A small instance of TraceTest for TLC: the lag of a healthy pipeline leaves
   room for a query and a pause within the budget, as 20 s do for the half
   second of the batch processors; fetch gives up long after it.             *)
EXTENDS TraceTest

ASSUME BudgetAssumption == Lag + QueryTime + Interval < Timeout

==============================================================================
