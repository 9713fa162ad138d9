--------------------------- MODULE MCAnalyticStages ---------------------------
(* Small instances of AnalyticStages for TLC. *)
EXTENDS AnalyticStages, TLC

One == <<1>>

\* Two processes that run the whole chain over the same tables, once each.
Refreshes == [p \in Workers |-> {"refresh"}]
OneEach == [p \in Workers |-> 1]
Alike == Permutations(Workers)

\* A refresh of the server beside the single stages of cmd/analytics.
Chained == "api" :> {"refresh"} @@ "cli" :> {"growth", "valuation", "metrics", "scores"}
TwoEach == [p \in Workers |-> 2]
=============================================================================
