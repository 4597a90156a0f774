--------------------------- MODULE MCRequestPlan ---------------------------
EXTENDS RequestPlan, PlanSets
=============================================================================
