------------------------- MODULE MCMySQLTaskStatus -------------------------
(* The durable store with one status reader, for TLC. *)
EXTENDS MySQLTaskStatus, TLC

CONSTANTS w1, t1, t2, k1, k2, p1

MCWorkers == {w1}
MCTasks == {t1, t2}
MCTokens == {k1, k2}
MCPayloads == {p1}
=============================================================================
