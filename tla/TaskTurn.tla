------------------------------ MODULE TaskTurn ------------------------------
(***************************************************************************)
(* Turns of a durable task (engine/phase4b/task_turn.py): claim the task,   *)
(* understand the question as a delta (task_runtime.py), apply it to the    *)
(* state, compact the context window if it is due (task_context.py), run    *)
(* the agent loop or answer locally, and commit state and window at once.   *)
(*                                                                          *)
(* The store is the abstract TaskBoundaryPort: its actions give the guard   *)
(* of every claim and commit, its Lapse takes a task away at any time, and  *)
(* MySQLTaskBoundary implements it. Between its claim and its commit a turn *)
(* only computes, so it takes two steps; the loop is what LoopEnds allows.  *)
(***************************************************************************)
EXTENDS Integers, Sequences, FiniteSets

CONSTANTS
    Workers,            \* concurrent turns
    Tasks,              \* task ids
    Periods,            \* months a question can name
    Texts,              \* questions, as the features the parser extracts
    CommittedTurns,     \* committed_turns: turns that make a compaction due
    MaxVersion,         \* bound: no turn claims a task past this version
    MaxStarts           \* bound: no start while this many tasks were issued

Cues == {"correction", "channel", "policy", "change", "why", "verify",
         "product", "reason", "compare"}

ASSUME TextsAssumption ==
    Texts \subseteq [cues: SUBSET Cues, metric: BOOLEAN, periods: SUBSET Periods]

ASSUME BoundsAssumption ==
    CommittedTurns \in Nat \ {0} /\ MaxVersion \in Nat /\ MaxStarts \in Nat

VARIABLES
    status, version, holders,   \* the port
    store,      \* what each task's row carries: its state and its window
    turn,       \* each worker's turn
    log         \* history: the turns committed on each task (no code reads it)

boundary == <<status, version, holders>>
vars == <<status, version, holders, store, turn, log>>

Port == INSTANCE TaskBoundaryPort WITH Actors <- Workers

Categories == {"start_task", "continue", "switch_task", "cancel",
               "correct_previous_understanding", "modify_constraint",
               "add_evidence_requirement", "ask_about_existing_result"}

Requirement == [topic: {"metric", "channel", "reason", "quality", "sku", "document"},
                periods: SUBSET Periods]

Evidence == [req: Requirement, gen: Nat, active: BOOLEAN]

State == [status: {"active", "clarification_required", "cancelled"}, gen: Nat,
          metric: BOOLEAN, periods: SUBSET Periods, reqs: SUBSET Requirement,
          route: {"none", "sql", "hybrid"}, evidence: SUBSET Evidence]

FreshState == [status |-> "active", gen |-> 1, metric |-> FALSE, periods |-> {},
               reqs |-> {}, route |-> "none", evidence |-> {}]

(* A window: the watermark of its compact, the versions of the turns not     *)
(* yet compacted, its own watermark, and the version whose answer its result *)
(* digest repeats (0 for none). Raw texts and token counts are left out.     *)
Window == [compacted: Nat, uncovered: Seq(Nat), watermark: Nat, digest: Nat]

EmptyWindowFromMinusOne ==
    [compacted |-> 0, uncovered |-> <<>>, watermark |-> -1, digest |-> 0]

EmptyWindow == [compacted |-> 0, uncovered |-> <<>>, watermark |-> 0, digest |-> 0]

(* A turn that holds a claim: the delta it understood, the state it planned,  *)
(* and the window it was given.                                               *)
Turn == [task: Tasks, switches: BOOLEAN, category: Categories,
         version: Nat, planned: State, window: Window]

Idle == [task |-> "none"]

ActiveIn(state) == {e \in state.evidence : e.active}
Covered(state) == {e.req : e \in ActiveIn(state)}

-----------------------------------------------------------------------------
(* understand_turn: the first reading whose condition holds. `started` says  *)
(* that the turn has a previous state.                                       *)

Readings(text, action, started) ==
    LET has(c) == c \in text.cues
        extra == text.cues \cap {"policy", "channel", "product", "reason", "why"}
        continue == action = "continue"
    IN << <<action = "cancel",              "cancel">>,
          <<has("correction"),              "correct_previous_understanding">>,
          <<has("channel") /\ started,      "modify_constraint">>,
          <<has("policy"),                  "add_evidence_requirement">>,
          <<continue /\ has("change"),      "modify_constraint">>,
          <<continue /\ has("why"),         "ask_about_existing_result">>,
          <<continue /\ has("verify"),      "add_evidence_requirement">>,
          <<continue /\ text.metric /\ text.periods # {} /\ extra = {},
                                            "modify_constraint">>,
          <<action = "switch",              "switch_task">>,
          <<continue,                       "continue">>,
          <<TRUE,                           "start_task">> >>

Category(text, action, started) ==
    LET rs == Readings(text, action, started)
        first == CHOOSE i \in DOMAIN rs :
                    rs[i][1] /\ \A j \in 1..(i - 1) : ~rs[j][1]
    IN rs[first][2]

ResolvedPeriods(text, category, old) ==
    IF category \in {"modify_constraint", "correct_previous_understanding"}
         /\ text.periods # {} /\ "compare" \in text.cues
    THEN old.periods \cup text.periods
    ELSE IF text.periods = {} /\ category \in {"continue", "add_evidence_requirement"}
         THEN old.periods ELSE text.periods

SqlTopics(text) ==
    IF "product" \in text.cues THEN {"quality", "sku"}
    ELSE IF "channel" \in text.cues THEN {"channel"}
    ELSE IF text.cues \cap {"reason", "why"} # {} THEN {"reason"}
    ELSE {"metric"}

Required(text, periods) ==
    [topic: SqlTopics(text), periods: {periods}]
      \cup IF "policy" \in text.cues THEN {[topic |-> "document", periods |-> {}]}
                                     ELSE {}

(* The delta. `sets` says whether it sets any constraint.                    *)
Understand(text, action, started, old) ==
    LET category == Category(text, action, started)
        metric == text.metric \/ old.metric
        periods == ResolvedPeriods(text, category, old)
        pending == ~metric \/ periods = {}
    IN IF category \in {"cancel", "ask_about_existing_result"}
       THEN [category |-> category, metric |-> FALSE, periods |-> {}, sets |-> FALSE,
             reqs |-> {}, pending |-> FALSE,
             route |-> IF category = "cancel" THEN "none" ELSE old.route]
       ELSE [category |-> category, metric |-> metric, periods |-> periods,
             sets |-> \/ metric \/ periods # {}
                      \/ text.cues \cap {"channel", "product", "reason", "why"} # {},
             reqs |-> IF pending THEN {} ELSE Required(text, periods),
             pending |-> pending,
             route |-> IF pending THEN "none"
                       ELSE IF "policy" \in text.cues THEN "hybrid" ELSE "sql"]

-----------------------------------------------------------------------------
(* apply_delta *)

Replaces == {"start_task", "modify_constraint", "correct_previous_understanding",
             "switch_task"}

AdditionsReplaceToo(base, delta) == delta.reqs

NewRequirements(base, delta) ==
    IF delta.category \in Replaces THEN delta.reqs ELSE base.reqs \cup delta.reqs

CorrectionKeepsMeaning(base, delta) ==
    \/ delta.category = "cancel"
    \/ /\ delta.category = "modify_constraint"
       /\ delta.sets \/ delta.route # base.route

SemanticChange(base, delta) ==
    \/ delta.category = "cancel"
    \/ /\ delta.category \in {"modify_constraint", "correct_previous_understanding"}
       /\ delta.sets \/ delta.route # base.route

ApplyDelta(delta, started, old) ==
    LET base == IF delta.category = "switch_task" THEN FreshState ELSE old
    IN [status |-> IF delta.category = "cancel" THEN "cancelled"
                   ELSE IF delta.pending /\ delta.category # "switch_task"
                        THEN "clarification_required" ELSE "active",
        gen |-> IF started /\ delta.category # "switch_task"
                THEN base.gen + 1 ELSE base.gen,
        metric |-> base.metric \/ delta.metric,
        periods |-> IF delta.periods # {} THEN delta.periods ELSE base.periods,
        reqs |-> NewRequirements(base, delta),
        route |-> delta.route,
        evidence |-> IF started /\ SemanticChange(base, delta)
                     THEN {[e EXCEPT !.active = FALSE] : e \in base.evidence}
                     ELSE base.evidence]

-----------------------------------------------------------------------------
(* The context window *)

Compact(w) == [w EXCEPT !.compacted = w.watermark, !.uncovered = <<>>]

(* prepare: due after CommittedTurns turns, or when a node context is heavy.  *)
(* A due compaction with nothing to compact is refused.                       *)
Prepared(w, heavy) ==
    LET due == Len(w.uncovered) >= CommittedTurns \/ heavy
    IN IF ~due THEN {w} ELSE IF w.uncovered = <<>> THEN {} ELSE {Compact(w)}

AppendKeepsOldDigest(w, v, digest) ==
    [w EXCEPT !.uncovered = Append(@, v), !.watermark = @ + 1,
              !.digest = IF @ # 0 THEN @ ELSE digest]

(* append_committed_turn; digest 0 keeps the digest of an earlier turn. *)
AppendTurn(w, v, digest) ==
    [w EXCEPT !.uncovered = Append(@, v), !.watermark = @ + 1,
              !.digest = IF digest # 0 THEN digest ELSE @]

(* run_agent_loop, as the turn sees it: evidence for some requirements that   *)
(* no active evidence covers, and whether the answer is complete. A product   *)
(* breakdown may be left out of a complete answer: it depends on the increment. *)
Gains(state, got) ==
    [state EXCEPT !.evidence = @ \cup [req: got, gen: {state.gen}, active: {TRUE}]]

LoopEnds(state) ==
    LET open == state.reqs \ Covered(state)
        mayBeComplete(got) == got # {} /\ \A r \in open \ got : r.topic = "sku"
    IN UNION {{[state |-> Gains(state, got), complete |-> b] :
                  b \in {c \in BOOLEAN : c => mayBeComplete(got)}} : got \in SUBSET open}

-----------------------------------------------------------------------------
EmptyRow == [state |-> FreshState, window |-> EmptyWindow]

Init ==
    /\ Port!PortInit
    /\ store = [t \in Tasks |-> EmptyRow]
    /\ turn = [w \in Workers |-> Idle]
    /\ log = [t \in Tasks |-> <<>>]

Issued == {t \in Tasks : status[t] # "unissued"}

(* What a turn puts in the row of t, and in its history. *)
Put(t, v, category, end, window, answered) ==
    /\ store' = [store EXCEPT ![t] = [state |-> end, window |-> window]]
    /\ log' = [log EXCEPT ![t] = Append(@,
                 [version |-> v, category |-> category, gen |-> end.gen,
                  complete |-> answered])]

(* A start: no claim, an empty lineage, and one INSERT at the end. A start    *)
(* that fails before it leaves nothing behind.                                *)
Start(text) ==
    LET delta == Understand(text, "start", FALSE, FreshState)
        state == ApplyDelta(delta, FALSE, FreshState)
    IN \E t \in Tasks :
         /\ Cardinality(Issued) < MaxStarts
         /\ Port!Issue(t)
         /\ \/ /\ state.status = "clarification_required"
               /\ Put(t, 1, delta.category, state, AppendTurn(EmptyWindow, 1, 0), FALSE)
            \/ /\ state.status # "clarification_required"
               /\ \E end \in LoopEnds(state) :
                    Put(t, 1, delta.category, end.state,
                        AppendTurn(EmptyWindow, 1, IF end.complete THEN 1 ELSE 0),
                        end.complete)
         /\ UNCHANGED turn

ClaimTurn(w, t, action, text) ==
    LET delta == Understand(text, action, TRUE, store[t].state) IN
    /\ turn[w] = Idle
    /\ version[t] < MaxVersion
    /\ Port!Claim(w, t)
    /\ turn' = [turn EXCEPT ![w] =
                  [task |-> t, switches |-> action = "switch",
                   category |-> delta.category, version |-> version[t] + 1,
                   planned |-> ApplyDelta(delta, TRUE, store[t].state),
                   window |-> IF action = "switch" THEN EmptyWindow
                              ELSE store[t].window]]
    /\ UNCHANGED <<store, log>>

(* The windows the turn may append to. A switch starts an empty lineage and   *)
(* never compacts.                                                            *)
BaseWindows(w) ==
    IF turn[w].switches THEN {turn[w].window}
    ELSE UNION {Prepared(turn[w].window, heavy) : heavy \in BOOLEAN}

(* A question that lacks a metric or a period is committed as it stands, on   *)
(* the claimed task.                                                          *)
Clarify(w) ==
    LET c == turn[w] IN
    /\ c # Idle
    /\ turn[w].planned.status = "clarification_required"
    /\ Port!Commit(w, c.task, "active")
    /\ \E base \in BaseWindows(w) :
         Put(c.task, c.version + 1, turn[w].category, turn[w].planned,
             AppendTurn(base, c.version + 1, 0), FALSE)
    /\ turn' = [turn EXCEPT ![w] = Idle]

Cancel(w) ==
    LET c == turn[w] IN
    /\ c # Idle
    /\ turn[w].category = "cancel"
    /\ BaseWindows(w) # {}
    /\ Port!Commit(w, c.task, "cancelled")
    /\ store' = [store EXCEPT ![c.task] = EmptyRow]
    /\ turn' = [turn EXCEPT ![w] = Idle]
    /\ UNCHANGED log

(* A question about the existing result is answered from the digest alone. *)
Replay(w) ==
    LET c == turn[w] IN
    /\ c # Idle
    /\ turn[w].category = "ask_about_existing_result"
    /\ Port!Commit(w, c.task, "active")
    /\ \E base \in BaseWindows(w) :
         Put(c.task, c.version + 1, turn[w].category, turn[w].planned,
             AppendTurn(base, c.version + 1, base.digest), FALSE)
    /\ turn' = [turn EXCEPT ![w] = Idle]

NeedsLoop(w) ==
    /\ turn[w] # Idle
    /\ turn[w].planned.status # "clarification_required"
    /\ turn[w].category \notin {"cancel", "ask_about_existing_result"}

ContinueTurn(w) ==
    LET c == turn[w] IN
    /\ NeedsLoop(w)
    /\ ~c.switches
    /\ Port!Commit(w, c.task, "active")
    /\ \E base \in BaseWindows(w), end \in LoopEnds(turn[w].planned) :
         Put(c.task, c.version + 1, turn[w].category, end.state,
             AppendTurn(base, c.version + 1,
                        IF end.complete THEN c.version + 1 ELSE 0),
             end.complete)
    /\ turn' = [turn EXCEPT ![w] = Idle]

SwitchTurn(w) ==
    LET c == turn[w] IN
    /\ NeedsLoop(w)
    /\ c.switches
    /\ \E new \in Tasks :
         /\ Port!Switch(w, c.task, new)
         /\ \E base \in BaseWindows(w), end \in LoopEnds(turn[w].planned) :
              /\ store' = [store EXCEPT
                    ![c.task] = EmptyRow,
                    ![new] = [state |-> end.state,
                              window |-> AppendTurn(base, 1,
                                           IF end.complete THEN 1 ELSE 0)]]
              /\ log' = [log EXCEPT ![new] = Append(@,
                    [version |-> 1, category |-> turn[w].category,
                     gen |-> end.state.gen, complete |-> end.complete])]
    /\ turn' = [turn EXCEPT ![w] = Idle]

(* The turn is refused (a node context over its budget, a compaction without  *)
(* a source, a payload too large, storage gone) or dies: its claim stays.     *)
Refuse(w) ==
    /\ turn[w] # Idle
    /\ Port!Abandon(w, turn[w].task)
    /\ turn' = [turn EXCEPT ![w] = Idle]
    /\ UNCHANGED <<store, log>>

(* The claim was gone before the commit: version_conflict or task_expired. *)
Miss(w) ==
    /\ turn[w] # Idle
    /\ w \notin holders[turn[w].task]
    /\ turn' = [turn EXCEPT ![w] = Idle]
    /\ UNCHANGED <<boundary, store, log>>

(* The task passes its TTL; the row is scrubbed. *)
Lapse(t) ==
    /\ Port!Lapse({t})
    /\ store' = [store EXCEPT ![t] = EmptyRow]
    /\ UNCHANGED <<turn, log>>

FinishTurn(w) ==
    \/ Clarify(w) \/ Cancel(w) \/ Replay(w) \/ ContinueTurn(w) \/ SwitchTurn(w)
    \/ Refuse(w) \/ Miss(w)

Next ==
    \/ \E text \in Texts : Start(text)
    \/ \E t \in Tasks : Lapse(t)
    \/ \E w \in Workers :
          \/ \E t \in Tasks, text \in Texts, action \in {"continue", "switch", "cancel"} :
                ClaimTurn(w, t, action, text)
          \/ FinishTurn(w)

Spec == Init /\ [][Next]_vars

-----------------------------------------------------------------------------
(* Properties *)

TypeOK ==
    /\ status \in [Tasks -> Port!PortStatus]
    /\ version \in [Tasks -> Nat]
    /\ holders \in [Tasks -> SUBSET Workers]
    /\ \A t \in Tasks : store[t].state \in State /\ store[t].window \in Window
    /\ \A w \in Workers : turn[w] = Idle \/ turn[w] \in Turn

Live(t) == status[t] \in {"active", "claimed"}

(* The window of a live task tells its recent history, whatever was compacted *)
(* on the way: it covers the last `watermark` turns, those after the compact  *)
(* one by one; it ends with the turn that wrote the row; and its digest is of *)
(* the latest complete answer among them. So a claim never meets a window its *)
(* own constructor or a due compaction refuses, and a replay never repeats an *)
(* answer that a later one has replaced.                                      *)
LatestComplete(turns) ==
    LET done == {i \in DOMAIN turns : turns[i].complete}
    IN IF done = {} THEN 0
       ELSE turns[CHOOSE i \in done : \A j \in done : j <= i].version

WindowTellsHistory ==
    \A t \in Tasks : Live(t) =>
        LET w == store[t].window
            n == Len(log[t])
            lineage == SubSeq(log[t], n - w.watermark + 1, n)
        IN /\ w.watermark \in 1..n
           /\ w.compacted < w.watermark
           /\ w.uncovered = [i \in 1..(w.watermark - w.compacted) |->
                               lineage[w.compacted + i].version]
           /\ w.digest = LatestComplete(lineage)
           /\ lineage[w.watermark].version
                = version[t] - (IF status[t] = "claimed" THEN 1 ELSE 0)

(* A correction leaves no evidence standing: what is still active was         *)
(* collected at or after the last turn that modified or corrected the task.   *)
CorrectionsInvalidate ==
    \A t \in Tasks : Live(t) =>
        \A e \in ActiveIn(store[t].state), i \in DOMAIN log[t] :
            log[t][i].category \in {"modify_constraint",
                                    "correct_previous_understanding"}
              => log[t][i].gen <= e.gen

(* Active evidence always answers a requirement the task still has: the loop  *)
(* counts a requirement covered by it, over any number of turns.              *)
ActiveEvidenceIsRequired ==
    \A t \in Tasks : Live(t) => Covered(store[t].state) \subseteq store[t].state.reqs

(* "A switch creates an independent new task: neither old constraints,        *)
(* requirements, evidence nor generation may leak into it"                    *)
(* (task_runtime.py:306).                                                     *)
SwitchStartsClean ==
    [][\A old, new \in Tasks :
          (status[old] = "claimed" /\ status'[old] = "switched"
             /\ status[new] = "unissued" /\ status'[new] = "active")
          => /\ store'[new].state.gen = 1
             /\ store'[new].state.evidence \cap store[old].state.evidence = {}]_vars

(* "A switch atomically retires the old task" (task_turn.py:71): a switch     *)
(* request that commits anything leaves the task it claimed retired.          *)
SwitchRetiresOldTask ==
    [][\A w \in Workers :
          (turn[w] # Idle /\ turn[w].switches
             /\ version'[turn[w].task] # version[turn[w].task])
          => status'[turn[w].task] = "switched"]_vars
=============================================================================
