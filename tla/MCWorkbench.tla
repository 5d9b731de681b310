----------------------------- MODULE MCWorkbench -----------------------------
(* One tab, other clients on its threads, and the tasks it starts, for TLC. *)
EXTENDS Workbench, TLC

CONSTANTS w1, r1, r2, th1, t1, t2

MCWorkers == {w1, r1, r2}
MCRequests == {r1, r2}
MCThreads == {th1}
MCTasks == {t1, t2}
=============================================================================
