----------------------------- MODULE MCTaskTurn -----------------------------
(* Instances of the task turn for TLC. *)
EXTENDS TaskTurn, TLC

CONSTANTS w1, w2, t1, t2, jul, aug

MCWorkers == {w1, w2}
MCWorker == {w1}
MCTasks == {t1, t2}
MCPeriods == {jul}
MCTwoPeriods == {jul, aug}

Text(cues, metric, periods) == [cues |-> cues, metric |-> metric, periods |-> periods]

Ask == Text({}, TRUE, {jul})                \* the net refund of July
Bare == Text({}, FALSE, {})                 \* nothing the parser knows
Policy == Text({"policy"}, FALSE, {})       \* what does the refund policy say
Channel == Text({"channel"}, FALSE, {jul})  \* July by channel
Fix == Text({"correction"}, FALSE, {})      \* a correction that names no month
Why == Text({"why"}, FALSE, {})             \* why is that

MCTexts == {Ask, Bare, Policy, Channel, Fix, Why}
MCSwitchTexts == {Ask, Policy, Fix}

Symmetric == Permutations(MCWorkers) \cup Permutations(MCTasks)
=============================================================================
