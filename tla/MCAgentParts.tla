---------------------------- MODULE MCAgentParts ----------------------------
(***************************************************************************)
(* What a model call is prepared from: the context it sends, the MCP tools *)
(* it offers and the readiness of its connection. A behaviour runs one of  *)
(* them while the others stay in an initial state, so the fairness of the  *)
(* MCP host is that of its actions while it runs.                          *)
(***************************************************************************)
EXTENDS ContextWindow, McpHost, Readiness

VARIABLE part    \* the component this behaviour runs

MCSelectors == {[value |-> "alias", hits |-> {"alias", "m1"}]}
MCListings == {{}, {"m1"}, {"m2"}, {"m1", "m2"}}

Init ==
    /\ part \in {"context", "mcp", "readiness"}
    /\ ContextInit
    /\ McpInit
    /\ ReadinessInit
    /\ part # "mcp" => transport = "stdio"
    /\ part # "readiness" =>
         kind = "planned" /\ model = "m1" /\ world.health = "ok" /\ world.listing = {}

RunContext ==
    /\ part = "context"
    /\ ContextNext
    /\ UNCHANGED <<part, mcpVars, readinessVars>>

Hosting(A) == part = "mcp" /\ A /\ UNCHANGED <<part, cvars, readinessVars>>

RunReadiness ==
    /\ part = "readiness"
    /\ ReadinessNext
    /\ UNCHANGED <<part, cvars, mcpVars>>

Next == RunContext \/ Hosting(McpNext) \/ RunReadiness

agentVars == <<part, cvars, mcpVars, readinessVars>>

(* McpFairness, of the host while it runs. *)
Fairness ==
    \A p \in Peers : WF_agentVars(Hosting(Proceeds(p))) /\ SF_agentVars(Hosting(Takes(p)))

Spec == Init /\ [][Next]_agentVars /\ Fairness
=============================================================================
