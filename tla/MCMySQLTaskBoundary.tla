------------------------ MODULE MCMySQLTaskBoundary ------------------------
(* Instances of the durable task store for TLC. *)
EXTENDS MySQLTaskBoundary, TLC

CONSTANTS w1, w2, t1, t2, k1, k2, p1, p2

MCWorkers == {w1, w2}
MCWorker == {w1}
MCTasks == {t1, t2}
MCTokens2 == {k1, k2}
MCPayloads == {p1, p2}
MCPayload == {p1}

Symmetric ==
    Permutations(MCWorkers) \cup Permutations(MCTasks)
        \cup Permutations(MCTokens2) \cup Permutations(MCPayloads)
=============================================================================
