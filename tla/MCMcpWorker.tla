----------------------------- MODULE MCMcpWorker -----------------------------
(* Instances of McpWorker for TLC: which callers there are and what they do.  *)
EXTENDS McpWorker

CONSTANTS a, b, c3

\* /v1/integrations/clickhouse/evidence: calls that share the worker.
MixedCallers == {a, b, c3}
MixedOps == (a :> "unlisted") @@ (b :> "query") @@ (c3 :> "tools")
AllCalls == [c \in MixedCallers |-> "call"]
TwoCallers == {a, b}
OnlyA == {a}
Nobody == {}
TwoOps == (a :> "call") @@ (b :> "query")
=============================================================================
