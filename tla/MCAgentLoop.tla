---------------------------- MODULE MCAgentLoop ----------------------------
(* Instances of the agent loop for TLC: the requirement lists of real turns. *)
EXTENDS AgentLoop, TLC

Req(topic, periods) == [topic |-> topic, periods |-> periods]

Document == Req("document", 0)

Turn(route, periods, reqs) == [reqs |-> reqs, route |-> route, periods |-> periods]

MCPlans == {
    (* a switch to nothing in particular *)
    Turn("none", 0, <<>>),
    (* one month; two months *)
    Turn("sql", 1, <<Req("metric", 1)>>),
    Turn("sql", 2, <<Req("metric", 2)>>),
    (* one month, then two, none replaced *)
    Turn("sql", 2, <<Req("metric", 1), Req("metric", 2)>>),
    (* two months and the policy *)
    Turn("hybrid", 2, <<Req("metric", 2), Document>>),
    (* reasons, products and the policy *)
    Turn("hybrid", 2, <<Req("quality", 2), Req("sku", 2), Document>>),
    (* a task that only ever adds *)
    Turn("sql", 2, <<Req("metric", 2), Req("quality", 2), Req("sku", 2),
                     Req("reason", 2)>>) }

MCHybridPlan == {Turn("hybrid", 2, <<Req("metric", 2), Document>>)}

MCStrategies == {"deterministic_ast", "llm_minimal"}
=============================================================================
