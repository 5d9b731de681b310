----------------------------- MODULE AgentLoop -----------------------------
(***************************************************************************)
(* The decision loop of a task turn (engine/phase4b/agent_loop.py): one      *)
(* evidence action per step, chosen from what is covered and observed,       *)
(* checked against a budget before it runs and charged with what it really   *)
(* cost after, until a step records why the loop stops. A turn on SQL then   *)
(* closes a comparison of periods. The next turn of the task starts with the *)
(* evidence this one attached, unless it changes the task's meaning.         *)
(*                                                                           *)
(* A requirement is the topic and the number of periods of its identity. An  *)
(* observation is its outcome: which rows, documents and codes make it so,   *)
(* the tools decide: SqlTool says what a run of the SQL pipeline can come    *)
(* to. The budget dimensions that only one action can spend (candidates,     *)
(* selected and visible evidence, retrieval batches) and tokens are one      *)
(* flag: overspent or not.                                                   *)
(***************************************************************************)
EXTENDS SqlTool, Integers, Sequences, FiniteSets

CONSTANTS
    Plans,          \* [reqs, route, periods] a turn may ask the loop for
    B4,             \* whether the recovering retrieval subgraph is on
    MaxTurns        \* bound: turns of the task

MaxActions == 3     \* max_actions, and max_deep_tools, which counts the same
MaxSql == 3
MaxKnowledge == 1
MaxRepairs == 1     \* per requirement
MaxModels == 6

SqlTopics == {"metric", "channel", "reason", "quality", "sku"}
Reasons == {"reason", "quality"}        \* identities that name refund_reason

Requirement == [topic: SqlTopics \cup {"document"}, periods: 0..3]

Plan == [reqs: Seq(Requirement), route: {"none", "sql", "hybrid"}, periods: 0..3]

ASSUME PlansAssumption ==
    /\ Plans \subseteq Plan
    /\ B4 \in BOOLEAN
    /\ MaxTurns \in Nat

VARIABLES
    plan,       \* the TaskState's requirements, in order, and its route
    held,       \* requirements with active evidence in the TaskState
    covered,    \* requirements the loop takes for covered
    seen,       \* the turn's attempts and their observations
    ledger,     \* what the turn has consumed, as its observations tell
    made,       \* history: the model calls of the turn's actions
    pc,         \* "loop", then "compare", then "done"
    ended,      \* the reason the loop stopped for
    closed,     \* history: requirements an observation closed, their evidence active
    turns       \* history: turns so far

vars == <<plan, held, covered, seen, ledger, made, pc, ended, closed, turns>>

DocumentOutcomes == {"whole", "none", "failed", "blocked", "unavailable"}

Attempt == [action: {"sql", "repair", "document"}, req: Requirement,
            outcome: SqlOutcomes \cup DocumentOutcomes]

Spending == [actions: Nat, sql: Nat, knowledge: Nat, models: Nat, over: BOOLEAN]

Unspent == [actions |-> 0, sql |-> 0, knowledge |-> 0, models |-> 0, over |-> FALSE]

Endings == {"answer_ready", "no_progress", "budget_exhausted", "unsafe",
            "external_unavailable", "unrecoverable"}

Asked(p) == {p.reqs[i] : i \in DOMAIN p.reqs}

(* The first turn of a task: no evidence yet. *)
Init ==
    /\ plan \in Plans
    /\ held = {}
    /\ covered = {}
    /\ closed = {}
    /\ seen = <<>>
    /\ ledger = Unspent
    /\ made = 0
    /\ pc = "loop"
    /\ ended = "running"
    /\ turns = 1

-----------------------------------------------------------------------------
(* Choosing the next action *)

Of(r, obs) == {i \in DOMAIN obs : obs[i].req = r}
Last(is) == CHOOSE i \in is : \A j \in is : j <= i

ReasonsIn(obs) == {i \in DOMAIN obs : obs[i].req.topic \in Reasons}

(* Only the breakdown by product depends on another: on the last reasons     *)
(* observed, which must show that quality refunds grew.                      *)
Dependency(r, obs) ==
    IF r.topic # "sku" THEN "met"
    ELSE IF ReasonsIn(obs) = {} THEN "unseen"
    ELSE IF obs[Last(ReasonsIn(obs))].outcome = "up" THEN "met" ELSE "refused"

Repairs(r, attempts) ==
    Cardinality({i \in DOMAIN attempts :
                    attempts[i].req = r /\ attempts[i].action = "repair"})

Repairable(r, obs, attempts) ==
    /\ obs[Last(Of(r, obs))].outcome = "dialect"
    /\ Repairs(r, attempts) = 0

EligibleUntilCovered(r, cov, obs, attempts) ==
    /\ r \notin cov
    /\ Dependency(r, obs) = "met"

EligibleBeforeItsReasons(r, cov, obs, attempts) ==
    /\ r \notin cov
    /\ Dependency(r, obs) # "refused"
    /\ Of(r, obs) = {} \/ Repairable(r, obs, attempts)

Eligible(r, cov, obs, attempts) ==
    /\ r \notin cov
    /\ Dependency(r, obs) = "met"
    /\ Of(r, obs) = {} \/ Repairable(r, obs, attempts)

EligibleIndexes(cov, obs, attempts) ==
    {i \in DOMAIN plan.reqs : Eligible(plan.reqs[i], cov, obs, attempts)}

(* The first eligible requirement, in the order they were asked, if any is. *)
Chosen ==
    LET is == EligibleIndexes(covered, seen, seen)
    IN {plan.reqs[i] : i \in {i \in is : \A j \in is : i <= j}}

Action(r) ==
    IF Of(r, seen) # {} THEN "repair"
    ELSE IF r.topic = "document" THEN "document" ELSE "sql"

-----------------------------------------------------------------------------
(* The budget *)

SpendFreeRepair(action, models, over) ==
    [actions |-> IF action = "repair" THEN 0 ELSE 1,
     sql |-> IF action = "document" THEN 0 ELSE 1,
     knowledge |-> IF action = "document" THEN 1 ELSE 0,
     models |-> models, over |-> over]

Spend(action, models, over) ==
    [actions |-> 1, sql |-> IF action = "document" THEN 0 ELSE 1,
     knowledge |-> IF action = "document" THEN 1 ELSE 0,
     models |-> models, over |-> over]

Plus(a, b) ==
    [actions |-> a.actions + b.actions, sql |-> a.sql + b.sql,
     knowledge |-> a.knowledge + b.knowledge, models |-> a.models + b.models,
     over |-> a.over \/ b.over]

WithinButModels(s) ==
    /\ s.actions <= MaxActions
    /\ s.sql <= MaxSql
    /\ s.knowledge <= MaxKnowledge
    /\ ~s.over

Within(s) ==
    /\ s.actions <= MaxActions
    /\ s.sql <= MaxSql
    /\ s.knowledge <= MaxKnowledge
    /\ s.models <= MaxModels
    /\ ~s.over

Declared(action) ==
    Spend(action, IF action = "document" /\ B4 THEN 1 ELSE 0, FALSE)

Allowed(r) ==
    /\ Within(Plus(ledger, Declared(Action(r))))
    /\ Repairs(r, seen) + (IF Action(r) = "repair" THEN 1 ELSE 0) <= MaxRepairs

-----------------------------------------------------------------------------
(* Observing *)

(* Documents: the recovering subgraph may ask a model once for what to       *)
(* recover, and only evidence that passes the gate brings its accounts.      *)
DocumentEnds ==
    [outcome: DocumentOutcomes \ {"whole"},
     made: IF B4 THEN 0..1 ELSE {0}, charged: {0}]
    \cup {[outcome |-> "whole", made |-> n, charged |-> n] : n \in IF B4 THEN 0..1 ELSE {0}}

Ends(action) ==
    CASE action = "document" -> DocumentEnds
      [] action = "repair" -> RepairEnds
      [] action = "sql" -> CollectEnds

(* Whether the observation closes its requirement. The adapters attach       *)
(* evidence to no other: documents come whole or not at all.                  *)
Closes(outcome) == outcome \in {"up", "flat", "whole"}

(* The first reason that applies once the attempt is charged, or none.       *)
(* `left` says whether an action is left, `gained` whether evidence is new.  *)
Verdict(r, outcome, spent, gained, left) ==
    IF ~Within(spent) THEN "budget_exhausted"
    ELSE IF outcome = "blocked" THEN "unsafe"
    ELSE IF outcome = "unavailable" THEN "external_unavailable"
    ELSE IF outcome \in {"failed", "dialect"} /\ ~left THEN "unrecoverable"
    ELSE IF r.topic = "document" /\ ~Closes(outcome) /\ ~left THEN "budget_exhausted"
    ELSE IF ~gained /\ ~left THEN "no_progress"
    ELSE "running"

Stop(reason) ==
    /\ ended' = reason
    /\ pc' = IF reason = "running" THEN "loop" ELSE "compare"

(* One step with an action. Evidence an earlier action of the turn already   *)
(* attached (the same statement and result) is not new. What is left to do   *)
(* is judged on the attempts before this one.                                *)
Attempted(r, action, outcome, models, over, repeats) ==
    LET gained == Closes(outcome) /\ ~repeats
        now == Append(seen, [action |-> action, req |-> r, outcome |-> outcome])
        cov == covered \cup IF Closes(outcome) THEN {r} ELSE {}
        spent == Plus(ledger, Spend(action, models, over))
        left == EligibleIndexes(cov, now, seen) # {}
    IN /\ seen' = now
       /\ covered' = cov
       /\ closed' = closed \cup (cov \ covered)
       /\ held' = held \cup IF gained THEN {r} ELSE {}
       /\ ledger' = spent
       /\ Stop(Verdict(r, outcome, spent, gained, left))

Act ==
    /\ pc = "loop"
    /\ \E r \in Chosen, over \in BOOLEAN, repeats \in BOOLEAN :
         /\ Allowed(r)
         /\ \E end \in Ends(Action(r)) :
              /\ repeats => /\ Action(r) # "document" /\ Closes(end.outcome)
                            /\ \E i \in DOMAIN seen : seen[i].outcome \in {"up", "flat"}
              /\ Attempted(r, Action(r), end.outcome, end.charged, over, repeats)
              /\ made' = made + end.made
    /\ UNCHANGED <<plan, turns>>

(* The precheck refuses the chosen action: no adapter is called. *)
Refuse ==
    /\ pc = "loop"
    /\ \E r \in Chosen : ~Allowed(r)
    /\ Stop("budget_exhausted")
    /\ UNCHANGED <<plan, held, covered, seen, ledger, made, closed, turns>>

SettledWhenUnseen ==
    \A r \in Asked(plan) : r \in covered \/ Dependency(r, seen) # "met"

Settled ==
    \A r \in Asked(plan) : r \in covered \/ Dependency(r, seen) = "refused"

ConcludeOnceSettled ==
    /\ pc = "loop"
    /\ Chosen = {}
    /\ Settled
    /\ Stop("answer_ready")
    /\ UNCHANGED <<plan, held, covered, seen, ledger, made, closed, turns>>

(* Nothing is left to choose. *)
Conclude ==
    /\ pc = "loop"
    /\ Chosen = {}
    /\ Stop(IF Settled THEN "answer_ready" ELSE "no_progress")
    /\ UNCHANGED <<plan, held, covered, seen, ledger, made, closed, turns>>

-----------------------------------------------------------------------------
(* Closing a comparison, once the loop has stopped, for whatever reason. *)

Comparisons == {r \in Asked(plan) : r.topic = "metric"}

ComparedByDetail(r) ==
    IF \E i \in Of(r, seen) : Closes(seen[i].outcome)
    THEN {ended} ELSE {"comparison_observation_missing"}

(* Whether the two periods, the rows and the values fit is the completion's   *)
(* choice; an observation that closed the requirement may still not complete. *)
Compared(r) ==
    LET good == {i \in Of(r, seen) : Closes(seen[i].outcome)}
    IN IF Of(r, seen) = {} /\ r \in covered THEN {ended}
       ELSE IF Cardinality(good) # 1 THEN {"no_progress"}
       ELSE IF plan.periods # 2 THEN {"no_progress"} ELSE {ended, "no_progress"}

Complete ==
    /\ pc = "compare"
    /\ IF plan.route # "sql" \/ Comparisons = {} \/ plan.periods = 1
       THEN UNCHANGED ended
       ELSE IF Cardinality(Comparisons) # 1
            THEN ended' = "no_progress"
            ELSE \E r \in Comparisons : ended' \in Compared(r)
    /\ pc' = "done"
    /\ UNCHANGED <<plan, held, covered, seen, ledger, made, closed, turns>>

-----------------------------------------------------------------------------
(* What the turn shows, once it is done. *)

Shown(topics) == \E i \in DOMAIN seen : seen[i].req.topic \in topics /\ Closes(seen[i].outcome)

(* Both kinds of evidence of this turn, or whichever there is on its own; a   *)
(* synthesizer that fails leaves the status as it is.                         *)
HybridStatus ==
    LET sql == Shown(SqlTopics)
        documents == Shown({"document"})
    IN IF sql /\ documents /\ ended = "answer_ready" THEN "complete"
       ELSE IF sql \/ documents THEN "partial" ELSE "insufficient_evidence"

StatusOf(observed) ==
    IF ~Closes(observed.outcome) THEN "no_answer"
    ELSE IF ended = "answer_ready" THEN "complete" ELSE "partial"

SingleStatusOfTheFirst == IF seen = <<>> THEN "no_answer" ELSE StatusOf(seen[1])

(* One route: the last observation speaks for all of them, and a turn whose   *)
(* requirements were all covered before has none.                             *)
SingleStatus == IF seen = <<>> THEN "no_answer" ELSE StatusOf(seen[Len(seen)])

Status == IF plan.route = "hybrid" THEN HybridStatus ELSE SingleStatus

-----------------------------------------------------------------------------
NextTurnOnOldBudget ==
    /\ pc = "done"
    /\ turns < MaxTurns
    /\ held' = {} /\ closed' = {} /\ covered' = {}
    /\ seen' = <<>>
    /\ pc' = "loop"
    /\ ended' = "running"
    /\ turns' = turns + 1
    /\ UNCHANGED <<plan, ledger, made>>

(* The next turn of the task asks the same: a correction invalidates the     *)
(* evidence, anything else keeps it, and it covers what it was attached to.  *)
NextTurn ==
    /\ pc = "done"
    /\ turns < MaxTurns
    /\ \E keeps \in BOOLEAN :
         /\ held' = IF keeps THEN held ELSE {}
         /\ closed' = IF keeps THEN closed \cap held ELSE {}
    /\ covered' = held'
    /\ seen' = <<>>
    /\ ledger' = Unspent
    /\ made' = 0
    /\ pc' = "loop"
    /\ ended' = "running"
    /\ turns' = turns + 1
    /\ UNCHANGED plan

Step == Act \/ Refuse \/ Conclude \/ Complete

Next == Step \/ NextTurn

Spec == Init /\ [][Next]_vars

(* The loop runs in the caller's thread: nothing can stop it between steps.  *)
FairSpec == Spec /\ WF_vars(Step)

-----------------------------------------------------------------------------
TypeOK ==
    /\ plan \in Plans
    /\ held \subseteq Asked(plan) /\ covered \subseteq Asked(plan)
    /\ closed \subseteq Asked(plan)
    /\ \A i \in DOMAIN seen : seen[i] \in Attempt
    /\ ledger \in Spending /\ made \in Nat
    /\ pc \in {"loop", "compare", "done"}
    /\ ended \in Endings \cup {"running"}
    /\ turns \in 1..(MaxTurns + 1)

(* No action is taken twice on a requirement, and a repair only right after   *)
(* the dialect failure it repairs, though the fingerprint the code compares   *)
(* changes with every piece of evidence the turn attaches.                    *)
NoActionTwice ==
    \A i, j \in DOMAIN seen :
        i < j /\ seen[i].req = seen[j].req =>
            /\ seen[i].action = "sql" /\ seen[i].outcome = "dialect"
            /\ seen[j].action = "repair"

(* Nothing runs on an overdrawn budget: what an action really cost stays in   *)
(* the ledger even when it is too much, and stops the loop at once.           *)
NothingRunsOverdrawn ==
    [][Len(seen') > Len(seen) => ~ledger.over /\ ledger.models <= MaxModels]_vars

(* The ledger accounts for every attempt, and the loop never makes more than  *)
(* three, one of them on documents: it stops long before the graph's own      *)
(* recursion limit, whose error would lose the attempts.                      *)
AttemptsAreCharged ==
    /\ Len(seen) <= MaxActions
    /\ ledger.actions = Len(seen)
    /\ ledger.knowledge = Cardinality({i \in DOMAIN seen : seen[i].action = "document"})
    /\ ledger.knowledge <= MaxKnowledge

(* Products are asked for only after, in the same turn, quality refunds were  *)
(* seen to grow.                                                              *)
ProductsAfterQuality ==
    \A j \in DOMAIN seen : seen[j].req.topic = "sku" =>
        \E i \in 1..(j - 1) : seen[i].req.topic \in Reasons /\ seen[i].outcome = "up"

(* An answer is ready only when each requirement was closed by an observation *)
(* whose evidence still holds, or need not be: this turn saw that quality     *)
(* refunds did not grow.                                                      *)
AnswerIsEarned ==
    ended = "answer_ready" =>
        \A r \in Asked(plan) :
            \/ r \in closed
            \/ r.topic = "sku" /\ \E i \in ReasonsIn(seen) : seen[i].outcome # "up"

(* An answer is paid for: each call the model got for it is in the ledger,    *)
(* though the calls of an action whose text cannot be parsed, or that raises, *)
(* never get there. Only a breakdown by product that failed, and that the     *)
(* reasons seen after it made unnecessary, leaves such calls with an answer.  *)
AnswerIsPaid ==
    ended = "answer_ready" /\ ledger.models # made =>
        \E i, j \in DOMAIN seen :
            /\ i < j
            /\ seen[i].req.topic = "sku" /\ seen[i].outcome = "failed"
            /\ seen[j].req.topic \in Reasons /\ seen[j].outcome # "up"

(* A turn that ran something and calls its answer ready shows one: the status *)
(* and the rows published are those of the last observation alone, so it may  *)
(* not be the one that failed, though a requirement can be settled without    *)
(* evidence. A hybrid may show less than both its kinds.                      *)
ReadyIsShown ==
    pc = "done" /\ ended = "answer_ready" /\ seen # <<>> =>
        Status = "complete" \/ (plan.route = "hybrid" /\ Status = "partial")

(* A turn that runs nothing and gets nowhere has met one of two dead ends,    *)
(* where each later turn that keeps the evidence ends again: products asked   *)
(* for when the reasons are covered by an earlier turn, so that none are seen *)
(* in this one; or two comparisons, of the periods before and after a change. *)
DeadEndsAreKnown ==
    pc = "done" /\ ended = "no_progress" /\ seen = <<>> =>
        \/ /\ \E r \in Asked(plan) \ covered : r.topic = "sku"
           /\ \A r \in Asked(plan) : r.topic \in Reasons => r \in covered
        \/ plan.route = "sql" /\ Cardinality(Comparisons) > 1

(* "A hybrid must own SQL evidence of this turn; references in the TaskState, *)
(* which have no rows, cannot pass for it" (task_runtime.py:278).             *)
HybridOwnsItsSql ==
    plan.route = "hybrid" /\ ended = "answer_ready" =>
        \E i \in DOMAIN seen :
            seen[i].req.topic # "document" /\ Closes(seen[i].outcome)

(* Every turn comes to an end, whatever the observations were. *)
LoopEnds == \A n \in 1..MaxTurns : turns = n ~> (turns = n /\ pc = "done")
=============================================================================
