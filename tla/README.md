# Verification of DataPilot

DataPilot answers business questions over a governed SQL store and a document
corpus. Its newest layer (`engine/phase4b`) turns a question into a *task* that
lives over many turns: the task's state and context window are stored durably,
each turn claims the task, runs a bounded agent loop over SQL and document
tools, and commits the result. An older layer (`engine/harness`) keeps short
clarification *threads* in process memory. Documents come from a release store
that operators change while questions are answered, and a browser workbench
drives tasks and threads over HTTP. This directory holds TLA+ modules of these
stateful parts, TLC runs that check them on small instances, and proofs, checked
by TLAPS, of their safety for every instance.

## The system

| Component | State it keeps | Operations | Interacts by |
|---|---|---|---|
| Durable task store, `mysql_task_boundary.py` | `agent_task_checkpoints` rows, `agent_task_events` ledger | start, claim, commit, clear, switch, status, expire_stale, purge_tombstones | transactions; called by every turn, by clear and status requests, and by an external maintenance caller |
| In-process task store, `task_boundary.py` | a locked dictionary of checkpoints | the same port | the same callers |
| Task turn, `task_turn.py`, `task_runtime.py`, `task_context.py` | the `TaskState` and `TaskContextWindow` carried by a row | understand, apply delta, compact, run the loop or answer locally, attach evidence, append the turn | claims and commits through the port; calls the agent loop |
| Agent loop, `agent_loop.py` | attempts, observations, coverage, budget ledger of one turn | choose, precheck, run, charge, judge; complete a comparison | calls tool adapters; returns to the turn |
| Threads, `harness/thread.py`, `harness/turn.py` | a locked dictionary of pending checkpoints | create, resume, follow-up, promote, resolve, clear | three kinds of turn; clear requests |
| Harness graph, router | none between requests | route, act, answer | called by the turns |
| Text-to-SQL, SQL guard, schema retrieval, governance | none between requests | plan, generate, guard, execute, repair | produce the loop's SQL observations, with the model calls their trace shows |
| Agentic RAG and its recovery subgraph | a child ledger of one retrieval | retrieve or rehydrate, observe, recover, gate, compose, cite | produce the loop's document observations; read the active release at several steps |
| Knowledge-base releases, `engine/rag/release.py` | bundles and one active pointer file | build, activate, reload, restore, rollback | operators and answering processes share the directory, without a lock |
| Web workbench, `src/web` | last confirmed task or thread, frozen flag, session storage | submit, clear, check status, reload, start afresh | HTTP through a server adapter to the API |
| MCP adapter | none | project one answer | HTTP to the API |
| Trace, EvalOps, demo, scripts | recorded runs | record, score | no influence on an answer |

What makes it hard: several API processes share one table, so turns, clears and
maintenance interleave between transactions; a worker reads its clock *before*
the transaction that uses it; a commit's answer can be lost after it landed; a
turn can die, or give up, with the task still claimed; a task's window, evidence
and requirements must stay consistent over an arbitrary sequence of messages; a
tool's cost is known only after it ran, and only from a trace that some failures
lose; clear may come in while a thread's graph is running outside the lock; the
active release may change, or be damaged, between the retrieval of a text, the
gate and the citation; operators may die between any two file operations; and a
browser may lose an answer, give up or be reloaded while its request still runs.

What makes each part correct:

* the store: one holder per task, no lost update, no update after a terminal
  status, the ledger tells the row, claims that were left behind end;
* the turn: the window tells exactly the committed turns, evidence in force
  answers a requirement in force and no meaning that was corrected;
* the loop: no action twice, every call charged, nothing runs on an overdrawn
  ledger, no answer without its evidence, and it ends;
* the threads: each budget buys one run, an ended thread stays ended, a claim is
  always settled;
* the release store: the pointer names complete bundles, whoever races or dies;
* a knowledge question: its answer rests on one release, read with the caller's
  rights; recovery stays within its ledger and loses nothing it found;
* the workbench: a tab that may send again has nothing of its own under way, never
  sends a version nobody told it, and a frozen tab thaws.

## The modules

| Module | Models | |
|---|---|---|
| `TaskBoundaryPort` | what any task store promises its callers (`TaskBoundaryPort` in `task_boundary.py`), without clocks, tokens or rows: `PortSpec`, and `LenientSpec` for a store that may relabel an ended task | abstract specifications |
| `MySQLTaskBoundary` | `MySQLTaskBoundary`, one action per transaction | implements the port |
| `MySQLTaskStatus` | the same, with a caller of `status` that remembers what it was told | extends it |
| `MemoryTaskBoundary` | the in-process `TaskBoundary` | implements the lenient port |
| `TaskTurn` | `run_task_turn` over any store | composes with the port |
| `SqlTool` | one SQL action: the text-to-SQL pipeline and its repair | the ends `AgentLoop` meets |
| `AgentLoop` | `run_agent_loop`, turn after turn of one task | uses `SqlTool` |
| `ThreadCheckpoint` | `ThreadCheckpointManager` and `run_turn` | |
| `Workbench` | one browser tab, its saved session and its requests | composes the port and `ThreadCheckpoint` |
| `KnowledgeRelease` | the release store and its operators | |
| `RAGAnswer` | one knowledge question, recovery included | composes with `KnowledgeRelease` |
| `MySQLTaskBoundaryProofs` | safety theorems about `MySQLTaskBoundary` and its ledger, and that it implements `TaskBoundaryPort` | |
| `MemoryTaskBoundaryProofs` | the same for `MemoryTaskBoundary` and the lenient port | |
| `TaskTurnProofs`, `AgentLoopProofs`, `ThreadCheckpointProofs`, `WorkbenchProofs`, `KnowledgeReleaseProofs`, `RAGAnswerProofs` | safety theorems about the module of that name | |
| `MC*` | instances for TLC | |

### The durable store

`rows[t]` is the row of task `t`: status, version, lease (`expires_at_us`), purge
time, token, payload. `ledger` is the event table. `req[w]` is the request
worker `w` is in the middle of: what it read, and the clock it read. An operation
is two steps, `Begin...` (arguments checked, clock read) and the transaction, so
that any number of other transactions, and of clock ticks, come between. All processes
read one wall clock: skew between hosts is left out. The
conditional UPDATE is one guard (`ClaimMatches`, `CommitMatches`); when it matches no
row, the classification that follows it in the same transaction, which may expire
the row, is part of the losing action. A storage error whose transaction rolled back, a
worker that dies, and a turn that returns an error after its claim
(`task_turn.py:222-229`) are `Drop`: the row stays as it is, a claim included. A storage
error after the database committed is the winning action, whose answer nobody reads:
no caller retries a commit. `clear` is claim and commit, as in
the code, so `Drop` may come between. Maintenance is `BeginExpire`, `ExpireStale`,
`BeginPurge`, `Purge` with a batch limit. A request of another owner, tenant or role
matches no row in any statement and is left out. `issued` keeps the tokens drawn,
so that `secrets.token_urlsafe` never repeats one.

`TaskBoundaryPort` knows a status, a version and the set of turns that can still
commit. The refinement maps a row's status and version to the port's, and
`holders` to the workers whose token is the row's token.

### The in-process store

`MemoryTaskBoundary` has one locked step per call; only `start` and `switch` read the clock
before the lock. It differs from the MySQL store in testing the TTL before the status,
so a task that was cancelled, cleared or switched is reported as expired once it is
touched after its TTL, though the port's docstring asks both stores for the same semantics
(`task_boundary.py:136`). `memory_port` shows that this relabelling is the whole difference a
caller of the port can see: with `PortSpec` in the place of `LenientSpec` TLC answers with a
switched task that a late claim turns into an expired one. The projection a turn holds is `held[w]`; a
turn gives it up with its one commit, as `task_turn.py` does. `MaxVersion` and `MaxClock` are
bounds.

### The task turn

A question is a set of cues (correction, policy, why, ...), whether it names a
metric, and the months it names: exactly what `understand_turn` branches on. A
turn takes two steps, because between its claim and its commit it only computes:
one claims through the port, understands the delta, applies it and compacts; the
other commits the state the loop left, with the turn appended to the window.
What the loop may return is any outcome `AgentLoop` allows. The port's `Lapse` may
take the task away in between, and `Abandon` is the turn that fails. `log` records
the committed turns, so that `WindowTellsHistory` can say what the window should be.
Texts, token counts and windows written before version 2 of the format are left
out. `prepare`'s fallback (`task_context.py:512-522`) never happens: `_build_compact`
refuses only ranges that do not fit, and `WindowTellsHistory` says they fit.

### The agent loop and its SQL tool

A turn is a list of requirements (topic and number of months), a route and the
months of its constraints. `Step` is one round of `_step_node`: choose the first eligible
requirement, precheck its declared cost, run, charge the real cost, judge. After a turn
the task keeps its evidence, and the next turn is any plan. `covered` starts from
active evidence, as in the code. `Status` is what the turn publishes: on a single
route the last observation speaks for the turn, and a turn whose requirements were
all covered before has no observation, so it publishes `no_answer` though its
termination is `answer_ready`. `HybridStatus` is decided without a look at the claims: a
failing synthesiser leaves a complete status with a SQL-partial claim only
(`agent_loop.py:613-622`). A turn can get nowhere in two ways, named by
`DeadEndsAreKnown`: products whose reasons were covered by an earlier turn, and a
second comparison. Documents are answered whole or not at all by the adapter in
the tree, so a partial document is not modelled. The guard against a duplicate action
and the handler of a recursion limit are not reached: `NoActionTwice` and
`AttemptsAreCharged` say why.

`SqlTool` gives the ends of one SQL action. The pipeline is sequential, so it is a set:
each stage (question guard, retrieval, plan, generation, guard, contract,
execution, projection, repair) takes the counts so far and adds the ends that stop
there. Two counts travel together: the model calls made, and those the trace lets
the loop charge. They differ when the parser refuses the text (its exception carries
no call evidence) and when an exception leaves the adapter, although the loop's comment
says that every call is charged; `AnswerIsPaid` shows that no answer rests on a call the
ledger misses, but for a breakdown by product that was refused. Attempts are counted as
the code counts them; embeddings and charts are not model calls of the ledger. The
legacy pipeline, which `force_new_pipeline` switches off, is left out.

### Threads

`points[t]` is the checkpoint, `turn[w]` the claim a running turn holds. Creating,
claiming, settling and clearing are one step each, under the manager's lock; the
graph runs between claim and settle. `Restart` loses every checkpoint and turn: the
manager is process memory (`docs/state/runbook.md:39`). The refusal of a snapshot
(`thread.py:723-767`) needs an adapter that is not in the tree.

### The workbench

`page` is what the tab shows: its last acknowledged task or thread, a view a status
check recovered, whether it is frozen, the call it waits for. `saved` is the
session in `sessionStorage`. `post[r]` is a request: sent, run by the server on the port
or on a thread, answered, and its answer delivered, lost, or given up by the tab. A
request runs whether or not anybody waits for it. `Others` are the clients that share the
threads. Handling a status answer is one step with applying it; the answer to a
mutation is not. A rejection other than a version conflict or an unavailable task becomes
a turn without a task, so the tab drops a live task (`AnswerWithoutTask`), although the
comment at `data-pilot-client.ts:89-91` promises to keep it. A reload forgets the freeze
of an unknown clear and a pending mutation: these requests are marked `forgotten` and
`ThawedIsSettled` excuses them. A cancel whose answer is lost leaves the tab frozen with
nothing to check, so only `StartFresh` helps; an unknown start leaves a task nobody
knows. A tab is explored in one mode; choosing modes and presets is left out. `StartFresh`
is possible while a check is under way, whose continuation then puts back the turns it
captured (`from`).

### The release store

`authority` is what the catalogue builder would stage now, `disk` the bundle file of
each release, `pointer` is `active.json`, `op[o]` what an operator's call holds in memory.
A release identity is the hash of its content and policies, so a release and its
identity are one value. Every file operation is a step; `CallStops` may come between any two,
and any number of operators work at once. `BundleDamaged` breaks a bundle on disk. As in the code,
`previous` is never tried when the current release is damaged, and activation, unlike rollback,
does not compare the bundle's policies with the deployed ones.

### A knowledge question

`pc` walks acquisition (a retrieval, the recovery subgraph, or the rehydration of what an
earlier answer cited), gate, composer, citations. Each step that reads the active release
reads it as it is then. `out` is the outcome in hand, `used` the child ledger, `plan` the
recovery: observed gaps, rewrite batches, expansion, second observation, charge, merge.
Ranking is abstracted to any authorised selection within the budgets, words to which
documents are needed and which texts carry an instruction. The subgraph drops the first
retrieval's evidence even when it covers every slot, or when there are no slots, as the
code does. The gate judges sufficiency over all that is selected, though the composer
sees the first `MaxClaims` only. `Watched` stops following the store once no later step
reads it (an answered or an external question): a bound, and no property depends on it.

## The runs

Each passing run finishes with no error; a violation run is a disagreement between
a sentence of the repository and its code, found while modelling, and stands
under `findings` in `PROJECT.json` with the quotation.

| Run | Checks | Shows |
|---|---|---|
| `mysql_boundary` | `ColumnsAgree` `LedgerIsLegal` `LedgerTellsRow` `HolderSawTheRow` `ClaimEndsByHolderOrExpiry` `LeaseNeverShortens` `ImplementsPort` | races of two workers and maintenance lose no update, and the store is the port |
| `mysql_maintenance` | `RetentionHonoured` `StuckClaimIsReclaimed` `ExpiredIsPurged` | what is left claimed ends; what expired goes; and no ended task, however it ended, loses its row or events before its retention is over |
| `mysql_revival` | `ReportedExpiredIsNotRevived` (violated) | a commit with an old clock revives a task that status called expired |
| `memory_port` | `OnlyTimeTakesClaims` `ImplementsLenientPort` | the in-process store is the port, but for the word an ended task is reported with; only time takes a claim away |
| `task_turn` | `TypeOK` `WindowTellsHistory` `CorrectionsInvalidate` `ActiveEvidenceIsRequired` | long dialogues keep window, evidence and requirements in step |
| `task_switch_leak` | `SwitchStartsClean` (violated) | a switch with a correction word keeps the old task's state |
| `task_switch_kept` | `SwitchRetiresOldTask` (violated) | a switch that must be clarified retires nothing |
| `thread` | `OneRunPerBudget` `BenchTypeOK` `ThawedIsSettled` `TabNeverAhead` `EndedNeverReopens` `ClaimSettles` `FrozenThaws` | a tab that loses answers, gives up and reloads, and other clients of its threads: no run is doubled, a thawed tab has nothing under way, a frozen one thaws |
| `agent_loop` | `TypeOK` `NoActionTwice` `AttemptsAreCharged` `ProductsAfterQuality` `AnswerIsEarned` `AnswerIsPaid` `ReadyIsShown` `DeadEndsAreKnown` `NothingRunsOverdrawn` `LoopEnds` | every mix of requirements, every end of the SQL pipeline and of retrieval |
| `agent_hybrid` | `HybridOwnsItsSql` (violated) | a hybrid turn answers on SQL evidence of an earlier turn |
| `rag_answer` | `TypeOK` `AnswerFromOneRelease` `OnlyReadyCarriesEvidence` `RecoveredEvidenceSurvives` `RecoveryNeverOverruns` `PointerIsSound` `QuestionSettles` | questions of every kind while an operator publishes, rolls back, dies and bundles are damaged |
| `rag_two_step` | `TwoStepChainSurvives` (violated) | the second observation refuses what the rewrite found for an external question |

### Bounds

* `mysql_boundary`: two workers are the least that race; two tasks, so that a switch
  has somewhere to go; two tokens and two payloads, so that the wrong one can be
  seen; `MaxVersion` 3 lets a task be claimed, committed and claimed again;
  `MaxClock` 2 with `TTL` 2 lets a lease end and a stale clock miss it; a batch of one
  row leaves a second one behind. Workers, tasks, tokens and payloads are symmetric
  sets and every property of this run treats them alike.
* `mysql_maintenance`: liveness, hence no symmetry, and one worker, which is enough to
  leave a claim behind; `TTL` 1, `Retention` 1 and `MaxClock` 2 let a claim expire and be
  purged.
* `memory_port`: two turns race for two tasks; three tokens let a task be claimed again
  while the other is held; `TTL` 2 with `MaxClock` 4 lets a claim, and a task that ended, be
  met before and after its time.
* `mysql_revival`, `task_switch_*`, `agent_hybrid`, `rag_two_step`: the
  smallest instance that shows the step.
* `task_turn`: one worker, because the port admits one holder and a turn that lost its
  task changes nothing; compaction is due after two turns instead of the
  configured number, and `MaxVersion` 5 gives turns before, at and after it.
* `thread`: one thread, one other client and two requests of the tab, so that a request
  nobody waits for meets a new one; two tasks, so that one can be left behind; the clock
  goes past the TTL. `MaxTaskVersion` 3 means that only version 1 is mutated, which
  is enough to lose that mutation's answer; the port knows no more of later versions.
* `agent_loop`: the requirement lists that real conversations produce, two turns, every end
  of `SqlTool` with one retry (the deployed default is none) and each repair
  strategy. The limits are those of the code (`BudgetProfile`), not bounds.
* `rag_answer`: one operator, two catalogues under one policy, three documents (a policy
  with two revisions, a review guests may not read, a notice that carries an
  instruction), five questions that take every path; one damaged bundle at a
  time. Several operators are covered by the theorems.

`CHECK_DEADLOCK FALSE` is set because bounded instances stop: the clock, the versions
and the task ids run out.

### Fairness

* `mysql_maintenance` assumes that the clock goes on (weak) and that maintenance is
  called again and again, and gets its transactions done (weak on its start, strong on
  the transactions, which compete with others for the row). There is no scheduler in
  the tree: `docs/state/runbook.md:43` makes the deployment call the maintenance entry
  periodically, and the assumption says just that. Workers get no fairness: a
  claim ends although its worker never comes back.
* `thread` assumes that a graph run returns and its turn goes on to settle (weak on
  `Settle` and `ThreadSettle`), which `turn.py` does in straight-line code; that a request
  without an answer is given up (weak on `OutcomeUnknown`: the server adapter waits
  300 seconds); that a task nobody touches lapses (weak on `TaskLapses`, what
  `mysql_maintenance` shows of the store); and that a frozen tab's owner goes on checking
  and is sometimes answered (strong on `CheckTaskStatus` and `LearnStatus`). Nobody is
  forced to send, resume, follow up, clear or reload.
* `agent_loop` assumes that the loop goes on stepping (weak on `Step`): each tool call has
  a timeout. The next turn is never forced.
* `rag_answer` assumes that a question goes on stepping (weak on `RAGStep`): each step is
  local, or a provider call that answers or times out. Operators get no fairness.

## The proofs

Every theorem holds for all values of the constants in the ranges the modules assume,
whatever their size. Each follows from an inductive invariant, named below, that the
properties need because none of them is inductive alone.

### The durable store

`MySQLTaskBoundaryProofs` proves, for any sets
of workers, tasks, tokens and payloads and any `TTL`, `Retention`, `BatchLimit` and bounds:

| Theorem | Says |
|---|---|
| `TypesAreRight` | `Spec => []TypeOK` |
| `ColumnsAlwaysAgree` | `Spec => []ColumnsAgree` |
| `NeverTwoHolders` | no two requests hold the same task |
| `NoLostUpdate` | `Spec => []HolderSawTheRow`: a commit that can land replaces what its turn read |
| `ClaimsAreSafe` | `Spec => ClaimEndsByHolderOrExpiry` |
| `LeasesNeverShorten` | `Spec => LeaseNeverShortens` |
| `RetentionIsHonoured` | `Spec => RetentionHonoured`: however a task ends, its row and events stay as they are for a full retention |
| `LedgersAreLegal` | `Spec => []LedgerIsLegal`: a task's events are a legal history |
| `LedgersTellRows` | `Spec => []LedgerTellsRow`: the last event tells the row |
| `StoreImplementsPort` | `Spec => ImplementsPort`: every property of the port is one of the store |

The argument. None of these is inductive alone. That a commit sees its own claim
needs tokens to be distinct; that needs every token in a row or a request to
have been drawn (`TokensDrawn`) and each to stand in at most one place (`TokensDiffer`).
That a lease never shortens needs more: the clock a request carries is past
(`NowsArePast`), a row's lease was set from an earlier clock (`Leases`), and a commit's
clock is no older than the claim it commits (`CommitOutlives`). The inductive invariant
is their conjunction with the types,

    StoreInv == TypeOK /\ NowsArePast /\ RowInv /\ ClaimInv

`RowInv` being `ColumnsAgree` and `Leases`, and `ClaimInv` the token facts,
`HolderSawTheRow` and `CommitOutlives`. Two lemmas keep the case analysis small:
`RowSteps` says that a step changes a row in one of six ways only, and `RequestSteps`
what a step does to the requests. `InitInv` and `NextInv` then go over six kinds
of row change rather than fifteen actions, and each theorem follows from `StoreInv`, or
from `StoreInv` and `RowSteps` for the action properties.

Retention is a chain of three steps, no one of which says it alone: a live row is never
deleted and ends with a full retention ahead of it (`EndsWithRetention`), a tombstone's row
and events are then left alone (`EndedKeepEvents`), and the deletion waits for the purge time.

The refinement goes action by action, under `StoreInv`. `LeftAlone` says when the port
sees nothing of a task; `WinningClaims` needs that a fresh token is nobody else's, and
`WinningCommits` and `WinningSwitches` that the committer is the only holder; the delicate case is
`LosingCommitsLapse`, where a worker that still holds its claim loses it: it can only have
missed on the time, because what it read is what the row still says
(`HolderSawTheRow`), so the row it leaves is a lapsed one.

The ledger has an invariant of its own, `LedgerInv == TypeOK /\ FiledInv`. `Filed` says of a
task's events, its status and its version that the events are a legal history, that the last
one agrees with the row, and that a claim on file is one version long; a step that writes a
row appends the one event that keeps this so, for each of the six ways a row changes.

The only assumptions are those on the constants in `MySQLTaskBoundary`:
`TimesAssumption` (TTL, retention and batch are positive, as the constructor demands)
and `NullsAssumption` (the null values are not tasks, tokens or payloads). TLC
evaluates them in both of the store's runs.

### The in-process store

`MemoryTaskBoundaryProofs`, for any turns, tasks, tokens and TTL:

| Theorem | Says |
|---|---|
| `MemoryTypesAreRight` | `Spec => []TypeOK` |
| `ClaimsLastTheirTTL` | `Spec => []OnlyTimeTakesClaims` |
| `MemoryImplementsLenientPort` | `Spec => ImplementsLenientPort` |

That only time takes a claim away is what makes the version and token tests of `commit` a
second line of defence: before the TTL they cannot fail for a turn that commits once. Alone
it is not inductive. A commit by another turn would take the claim away as well, and to exclude it
`MemInv` keeps the tokens of the projections distinct and issued, and no claimed item
without one (`MatchingHolds`). `NoClaimHandedOut` then covers every step but the winning claim:
an item somebody still works on is left alone, or its time is over. The refinement goes
method by method; `ExpiryLapses` is where the two stores part: the expiry of a live task is the
port's `Lapse`, that of an ended one is only `Relabel`. Assumed: `MemoryAssumption` (the TTL is a
number, and no token is the empty one).

### The task turn

| Theorem | Says |
|---|---|
| `TurnsAreTyped` | `Spec => []TypeOK` |
| `WindowsTellHistory` | `Spec => []WindowTellsHistory` |
| `CorrectionsAlwaysInvalidate` | `Spec => []CorrectionsInvalidate` |
| `EvidenceIsAlwaysRequired` | `Spec => []ActiveEvidenceIsRequired` |

A turn plans from a row it read, and commits what it planned later. `TurnInv` therefore says
of each task what its row keeps (`Sound`: evidence answers requirements, and a state without a
metric has neither; `After`: it obeys the corrections in its history; `Told`: its window
ends with the turn that wrote it) and what the turn that holds it carries (`Holds`: a
sound plan, with nothing active if it corrects, and a window that tells the turns so far).
That a correction always invalidates needs the metric: a correction that sets nothing does not
invalidate, and `DeltaFacts` shows it can only come of a state that never had a metric,
which then has no evidence either. The windows are four lemmas of their own: an empty window
tells any history from its end, compaction keeps that, appending a turn makes it exact, and
what is exact satisfies the property's words (`ToldTells`). `FiledOK` joins both halves for
every step that commits. Assumed: `TextsAssumption`, what a question is.

### The loop, the threads

`AgentLoopProofs`: `LoopTypesAreRight`, `NeverTwice`, `AttemptsAlwaysCharged`,
`ProductsWaitForQuality`, `AnswersAreEarned`, `AnswersArePaid`, `OverdrawnRunsNothing`,
`ReadyIsAlwaysShown`, `DeadEndsAlwaysKnown`, for every plan, any number of turns and retries
and any repair strategies. What an answer rests on is decided when the loop
concludes, from attempts made long before; `LoopInv` carries what those attempts leave
behind: the requirement a broken attempt keeps open (`BrokenStaysOpen`), the reasons each
product breakdown went by (`ReasonsGoneBy`), where calls the ledger misses can have gone
(`HiddenCalls`), and that only observations cover (`CoverIsClosed`). The last two theorems
are about the turn's end and need `EndInv` besides: why it stopped, and what the last
observation left open.

`ThreadCheckpointProofs`: `ThreadTypesAreRight`, `OneRunEach`, `EndsStay`. A count of runs does
not say that there will be no further one; the status does. `Lawful` ties the runs a thread
has bought and the versions it can have reached to its status.

### The workbench

`WorkbenchProofs`, for any number of requests, tasks, threads and other clients:

| Theorem | Says |
|---|---|
| `BenchTypesHold` | `BenchSpec => []BenchTypeOK` |
| `TabStaysBehind` | `BenchSpec => []TabNeverAhead` |
| `ThawIsSafe` | `BenchSpec => []ThawedIsSettled` |
| `TabIsAClient` | `BenchSpec => [][Next]_vars`: to the threads the tab is one more client |
| `BenchThreadTypes`, `BenchOneRunEach`, `BenchEndsStay` | so `TypeOK`, `OneRunPerBudget` and `EndedNeverReopens` hold under it |

A request that was given up runs at any later time, so `ThawedIsSettled` has to be carried
from the moment it was sent. `BenchInv` says what keeps each request harmless meanwhile
(`Harmless`): the tab waits for it; or the tab is frozen, and at a version no older than
the request's (`Shields`); or the server has moved past that version, which a status check
that thaws the tab has just shown (`Spent`). The same must hold of every page that can come back:
the saved session (`SessionFacts`), the page a status check goes on from (`StatusCallFacts`), and
the page an answer on its way will make (`Fits`). What a tab was told stays true of the past
(`Truthful`), because a version only grows and an ended task never returns (`Moves`, one lemma per step of the
port); this is `TabStaysBehind`. `WorldKeeps` covers the steps of everybody else,
`AnswerKeeps` those of the server on one request, `TabKeeps` those of the page; each action is then
shown to be one of the three. The page knows no more of a thread than the turn that showed it; a thread
claim therefore cannot be `Spent`, and an unfrozen page simply does not show its thread.
Assumed: `RequestsAssumption` (a request's worker bears its name), `IdsAssumption` (task and thread
ids are drawn apart) and `NilAssumption`.

### Releases and questions

`KnowledgeReleaseProofs`: `StoreTypesAreRight`, `PointerAlwaysSound`, for any number of
operators. An operator writes a pointer it composed, or read, some steps before, so
`StoreInv` asks of the pointers it holds in memory what it asks of the one in force; they stay
sound because a bundle, once written, can be damaged but not removed (`DiskOnlyGrows`).

`RAGAnswerProofs`: `RAGTypesAreRight`, `AnswersRestOnOneRelease`, `OnlyReadyRecoveriesCarry`,
`NoRecoveryOverruns`, `PointerStaysSoundUnderQuestions`, `RecoveredEvidenceIsKept`. The answer is checked against a
release loaded after the evidence was found, and cited later still; `RAGInv` is `StoreInv` and
what each step has established by then: that a merge has something to merge
(`GainedByMerge`), that the gate's judgement stands until the composer is done
(`GateHolds`), and what each source of the recovery may still add to the ledger (`Bounded`,
`BoundedOnTheWay`). `BudgetAssumption` says that a ledger has room for one retrieval, every
batch and the three sources, as the contract's numbers do: this is what makes the check
after the fact (`rag_subgraph.py:596`) never fail. `AsksAssumption` and `CatalogAssumption` say
what a question and a catalogue are. That the initial evidence never crowds out what was recovered last
(`RecoveredEvidenceIsKept`) needs the order of the sources: `MergeKeepsTheLatest` finds the latest
gain that is not empty, shows that only empty sources stand before it, and that a merge which
takes anything at all takes from it first. `SurvivorInv` adds to `RAGInv` that there are at most two gains
(`FewGains`).

### Only model-checked

All liveness, that is `StuckClaimIsReclaimed`, `ExpiredIsPurged`, `ClaimSettles`, `FrozenThaws`,
`LoopEnds` and `QuestionSettles`: fairness and ENABLED are out of the prover's reach. Every
safety property and action property of a passing run is a theorem. So are the types of both task
stores and of the threads, which no run repeats. The violations are
counterexamples and need no proof.

## Not modelled

* Pure functions over one value (the rules of the SQL guard and of RBAC, codecs, hashes,
  prompts, schema ranking, chunking, token counts): there is no state to interleave, and what
  they decide is an input of the modules above.
* Owner, tenant and role scopes: each statement filters on them, so another
  caller's request is one that matches nothing.
* The text of questions and answers and payload sizes. The size limit of a payload, and
  constraint values that are never removed, stay hazards without a property.
* The harness graph and router: one straight line per request, with one bounded repair of
  a route; nothing in it outlives the request.
* Trace, EvalOps, the enterprise corpus and its experiments, demo, scripts, business data,
  MCP: they keep no state the answers depend on. They are more than half of the
  repository's implementation lines, so the modules cover a small share of all lines and most
  of those that hold state.
* `PROJECT.json` lists every hazard; those without a property carry the reason.

## Plan

Done: the port, both stores and their refinements, the ledger; the turn; the loop and the SQL
tool; the threads and the workbench above them; the release store and the question that
reads it; theorems for every safety property the passing runs check. What is left, in this order:

1. The tasks of `Workbench` as an implementation of the port: a restart gives up several claims
   in one step, so `Abandon` must first take a set of tasks.
2. `TaskTurn` composed with `AgentLoop`, so that the requirements of the loop are those the
   turns accumulate, and `LoopEnds` of the turn is a refinement and not a definition.
3. The harness router with its bounded repair, and the payload size as a counter of a turn.
