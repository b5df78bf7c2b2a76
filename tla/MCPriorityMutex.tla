-------------------------- MODULE MCPriorityMutex --------------------------
EXTENDS PriorityMutex

(* Two threads share a priority, so order among equals matters.            *)
MCRealPrio ==
  [t \in All |-> CASE t = "low" -> 1 [] t \in {"mid", "other"} -> 2
                   [] t = "high" -> 3 [] t = Idle -> 0]
=============================================================================
