------------------------------ MODULE Workbench ------------------------------
(***************************************************************************)
(* One browser tab of the workbench (web/components/workbench.tsx), its     *)
(* saved session (web/lib/session-store.ts), the requests it has sent and   *)
(* how their answers come back (web/lib/data-pilot-client.ts,               *)
(* web/lib/server-adapter.ts, app/api/query.py). The tab works on tasks,    *)
(* through the port TaskBoundaryPort promises, or on the threads of         *)
(* ThreadCheckpoint, which other clients use as well. A request runs on the *)
(* server whether or not the tab still waits for it; the tab may give up,   *)
(* be reloaded, or lose an answer at any time, and the server may restart.  *)
(***************************************************************************)
EXTENDS ThreadCheckpoint

CONSTANTS
    Requests,         \* requests of the tab that may be alive at once
    Tasks,            \* task ids that can be issued; uuid4 never repeats
    MaxTaskVersion,   \* bound: the tab sends no mutation at this version
    Nil               \* "no value"

\* A thread request is handled by the worker of its name.
ASSUME RequestsAssumption == Requests \subseteq Workers /\ "status" \notin Requests

\* Both kinds of id are drawn by uuid4.
ASSUME IdsAssumption == Tasks \cap Threads = {}

VARIABLES
    page,       \* what the tab shows and waits for
    saved,      \* the session in sessionStorage, or Nil
    post,       \* the requests, by name
    status, version, holders    \* the tasks, as the port tells them

taskVars == <<status, version, holders>>
threadVars == <<clock, points, turn, runs>>
benchVars == <<threadVars, taskVars, page, saved, post>>

Port == INSTANCE TaskBoundaryPort WITH Actors <- Requests

Modes == {"agent_task", "legacy"}
Mutations == {"continue", "switch", "cancel", "clear"}

\* What the tab is told of a task and of a thread.
View(t) == [task |-> t, version |-> version[t], status |-> status[t]]
Views == [task: Tasks, version: Nat, status: Port!PortStatus]
ThreadViews == [thread: Threads, version: Nat, status: Open \cup Claimed \cup Ended]

Fresh(mode) == [mode |-> mode, frozen |-> FALSE, acked |-> Nil, recovered |-> Nil,
                thread |-> Nil, call |-> Nil, from |-> Nil]

Free == [stage |-> "free", kind |-> Nil, target |-> Nil, version |-> 0,
         forgotten |-> FALSE, answer |-> Nil]

\* What sessionStorage holds: a page that waits for nothing.
Sessions == [mode : Modes, frozen : BOOLEAN, acked : Views \cup {Nil},
             recovered : Views \cup {Nil}, thread : ThreadViews \cup {Nil},
             call : {Nil}, from : {Nil}]

\* "No value" is none of the values there may be.
ASSUME NilAssumption ==
    /\ Nil # "status" /\ Nil \notin Requests /\ Nil \notin Tasks /\ Nil \notin Threads
    /\ Nil \notin Views /\ Nil \notin ThreadViews /\ Nil \notin Sessions

\* A tab is explored in one mode. In agent_task mode the threads are all lost
\* and their clock has stopped, so the two modes do not multiply.
BenchInit ==
    /\ \/ Init /\ page = Fresh("legacy")
       \/ /\ clock = MaxClock
          /\ points = [t \in Threads |-> NoPoint("lost")]
          /\ turn = [w \in Workers |-> Idle]
          /\ runs = [t \in Threads |-> [k \in Kinds |-> 0]]
          /\ page = Fresh("agent_task")
    /\ saved = Nil
    /\ post = [r \in Requests |-> Free]
    /\ Port!PortInit

-----------------------------------------------------------------------------
(* What the tab works on.                                                   *)

\* activeTask of the last turn, unless a status check has told of a newer one.
ShownTask(p) ==
    IF p.recovered = Nil THEN p.acked
    ELSE IF p.recovered.status = "active" THEN p.recovered ELSE Nil

StatusIdentity(p) == IF p.recovered = Nil THEN p.acked ELSE p.recovered

\* persist: the tab's state and the saved session change together.
Persist(p) == page' = p /\ saved' = p

Done(p) == [p EXCEPT !.call = Nil, !.from = Nil]

-----------------------------------------------------------------------------
(* The tab sends.                                                           *)

Send(r, kind, target, v) ==
    /\ page.call = Nil
    /\ post[r].stage = "free"
    /\ post' = [post EXCEPT ![r] = [Free EXCEPT !.stage = "sent", !.kind = kind,
                                                !.target = target, !.version = v]]
    /\ page' = [page EXCEPT !.call = r]
    /\ UNCHANGED <<saved, threadVars, taskVars>>

\* submit with an action of the task runtime.
SubmitTask(r) ==
    LET t == ShownTask(page) IN
    /\ page.mode = "agent_task" /\ ~page.frozen
    /\ \/ t = Nil /\ Send(r, "start", Nil, 0)
       \/ /\ t # Nil /\ t.version < MaxTaskVersion
          /\ \E kind \in Mutations \ {"clear"} : Send(r, kind, t.task, t.version)

\* submit in legacy mode: a pending clarification is answered, a follow-up is
\* taken when the user picked one, anything else is a new question.
SubmitLegacy(r) ==
    LET t == page.thread
        offered == IF t = Nil THEN "nothing" ELSE t.status
    IN /\ page.mode = "legacy" /\ ~page.frozen
       /\ \/ offered = "pending" /\ Send(r, "resume", t.thread, t.version)
          \/ offered = "follow_up_ready" /\ Send(r, "follow_up", t.thread, t.version)
          \/ offered # "pending" /\ Send(r, "ask", Nil, 0)

\* clearCurrentTask; a frozen tab may clear too.
ClearCurrentTask(r) ==
    LET t == ShownTask(page) IN
    /\ t # Nil /\ t.version < MaxTaskVersion
    /\ Send(r, "clear", t.task, t.version)

CheckFirstTimeOnly ==
    /\ page.frozen /\ page.call = Nil
    /\ StatusIdentity(page) # Nil /\ page.recovered = Nil
    /\ page' = [page EXCEPT !.call = "status", !.from = page]
    /\ UNCHANGED <<saved, post, threadVars, taskVars>>

\* checkTaskStatus, offered in the frozen banner. The call goes on from the
\* turns and the identity of the moment it was made.
CheckTaskStatus ==
    /\ page.frozen /\ page.call = Nil
    /\ StatusIdentity(page) # Nil
    /\ page' = [page EXCEPT !.call = "status", !.from = page]
    /\ UNCHANGED <<saved, post, threadVars, taskVars>>

-----------------------------------------------------------------------------
(* The server handles a request, and answers a tab that still waits.        *)

AnswerAnyway(r, a) ==
    post' = [post EXCEPT ![r] = [@ EXCEPT !.stage = "done", !.answer = a]]

Answer(r, a) ==
    post' = [post EXCEPT ![r] =
               IF page.call = r THEN [@ EXCEPT !.stage = "done", !.answer = a] ELSE Free]

TurnAnswer(task, thread) == [kind |-> "turn", task |-> task, thread |-> thread]

\* "rejected": known not to have been done, whatever the page had shows on.
\* "cleared": the task is cleared. "none": nothing will ever come back.
Outcome(kind) == [kind |-> kind, task |-> Nil, thread |-> Nil]

\* A rejection the client does not take for one of the lineage becomes a turn
\* without a task or thread; a refused clear is only a notice.
AnswerWithoutTask(r) ==
    Answer(r, IF post[r].kind = "clear" THEN Outcome("rejected") ELSE TurnAnswer(Nil, Nil))

Sent(r, kinds) == post[r].stage = "sent" /\ post[r].kind \in kinds
Running(r, kinds) == post[r].stage = "running" /\ post[r].kind \in kinds

\* Any id that was never issued will do, so one is taken.
NewTask ==
    LET unissued == {t \in Tasks : status[t] = "unissued"}
    IN IF unissued = {} THEN {} ELSE {CHOOSE t \in unissued : TRUE}

TaskStart(r) ==
    /\ Sent(r, {"start"})
    /\ \E t \in NewTask : Port!Issue(t) /\ Answer(r, TurnAnswer(View(t)', Nil))
    /\ UNCHANGED <<threadVars, page, saved>>

TaskClaim(r) ==
    /\ Sent(r, Mutations)
    /\ version[post[r].target] = post[r].version
    /\ Port!Claim(r, post[r].target)
    /\ post' = [post EXCEPT ![r].stage = "running"]
    /\ UNCHANGED <<threadVars, page, saved>>

\* task_version_conflict keeps the lineage (as task_unavailable would),
\* task_not_active and task_expired do not.
TaskRefused(r) ==
    LET s == status[post[r].target] IN
    /\ Sent(r, Mutations)
    /\ \/ /\ s = "active" /\ version[post[r].target] # post[r].version
          /\ Answer(r, Outcome("rejected"))
       \/ s # "active" /\ AnswerWithoutTask(r)
    /\ UNCHANGED <<threadVars, taskVars, page, saved>>

CommitAs(r) ==
    CASE post[r].kind = "cancel" -> "cancelled"
      [] post[r].kind = "clear" -> "cleared"
      [] OTHER -> "active"

\* A switch that needs a clarification commits the old task.
TaskCommit(r) ==
    /\ Running(r, Mutations)
    /\ \E t \in {post[r].target} :
          /\ Port!Commit(r, t, CommitAs(r))
          /\ Answer(r, IF post[r].kind = "clear" THEN Outcome("cleared")
                       ELSE TurnAnswer(View(t)', Nil))
    /\ UNCHANGED <<threadVars, page, saved>>

TaskSwitch(r) ==
    /\ Running(r, {"switch"})
    /\ \E new \in NewTask : /\ Port!Switch(r, post[r].target, new)
                            /\ Answer(r, TurnAnswer(View(new)', Nil))
    /\ UNCHANGED <<threadVars, page, saved>>

\* The claim lapsed under its turn: task_expired, or, once the row says so,
\* task_version_conflict.
ClaimLost(r) ==
    /\ Running(r, Mutations)
    /\ r \notin holders[post[r].target]
    /\ Answer(r, Outcome("rejected")) \/ AnswerWithoutTask(r)
    /\ UNCHANGED <<threadVars, taskVars, page, saved>>

\* The turn breaks off before its commit: a typed rejection (storage, context)
\* or an error status, which the web adapter calls known_rejected. A claim it
\* holds stays behind.
TaskTurnFails(r) ==
    /\ Sent(r, {"start"} \cup Mutations) \/ Running(r, Mutations)
    /\ holders' = [t \in Tasks |-> holders[t] \ {r}]
    /\ Answer(r, Outcome("rejected")) \/ AnswerWithoutTask(r)
    /\ UNCHANGED <<status, version, threadVars, page, saved>>

ThreadView(t) ==
    [thread |-> t, version |-> points[t].version, status |-> points[t].status]

\* The first turn of a thread, if its answer opens one. The tab always opts in.
Ask(r) ==
    /\ Sent(r, {"ask"})
    /\ \/ \E t \in Threads : /\ Create(t) /\ points'[t].optIn
                             /\ Answer(r, TurnAnswer(Nil, ThreadView(t)'))
       \/ /\ Answer(r, TurnAnswer(Nil, Nil))
          /\ UNCHANGED threadVars
    /\ UNCHANGED <<taskVars, page, saved>>

ThreadClaim(r) ==
    /\ Sent(r, Kinds)
    /\ Claim(r, post[r].target, post[r].version, post[r].kind)
    /\ post' = [post EXCEPT ![r].stage = "running"]
    /\ UNCHANGED <<taskVars, page, saved>>

\* The claim is refused, for its version, the thread or the answers given.
ThreadRefused(r) ==
    /\ Sent(r, Kinds)
    /\ AnswerWithoutTask(r)
    /\ UNCHANGED <<threadVars, taskVars, page, saved>>

\* A settlement that is refused answers with the claim it had.
ThreadSettle(r) ==
    /\ Running(r, Kinds)
    /\ Settle(r)
    /\ \E t \in {post[r].target} :
         Answer(r, TurnAnswer(Nil,
           IF points' # points THEN ThreadView(t)'
           ELSE [thread |-> t, version |-> turn[r].version, status |->
                   IF turn[r].kind = "resume" THEN "claimed" ELSE "follow_up_claimed"]))
    /\ UNCHANGED <<taskVars, page, saved>>

\* The request never reaches the server. A tab that waits for it cannot tell,
\* so the loss is taken after the tab has given it up.
RequestLost(r) ==
    /\ post[r].stage = "sent" /\ page.call # r
    /\ post' = [post EXCEPT ![r] = Free]
    /\ UNCHANGED <<threadVars, taskVars, page, saved>>

\* The API restarts: every turn it ran is gone, its claims stay behind.
ServerRestarts ==
    /\ Restart
    /\ holders' = [t \in Tasks |-> {}]
    /\ post' = [r \in Requests |->
                  IF post[r].stage # "running" THEN post[r]
                  ELSE IF page.call # r THEN Free
                  ELSE [post[r] EXCEPT !.stage = "done", !.answer = Outcome("none")]]
    /\ UNCHANGED <<status, version, page, saved>>

-----------------------------------------------------------------------------
(* The tab hears, or stops waiting.                                         *)

Receive(r) ==
    LET a == post[r].answer IN
    /\ page.call = r
    /\ post[r].stage = "done"
    /\ \/ /\ a.kind = "turn"
          /\ Persist(Done([page EXCEPT
               !.acked = IF a.task # Nil /\ a.task.status = "active" THEN a.task ELSE Nil,
               !.recovered = Nil,
               !.thread = a.thread,
               !.frozen = post[r].kind = "cancel" /\ a.task # Nil]))
       \/ a.kind = "rejected" /\ page' = Done(page) /\ UNCHANGED saved
       \/ a.kind = "cleared" /\ page' = Fresh(page.mode) /\ saved' = Nil
    /\ post' = [post EXCEPT ![r] = Free]
    /\ UNCHANGED <<threadVars, taskVars>>

GuessCommitted(r) ==
    /\ page.call = r
    /\ LET t == ShownTask(page) IN
       Persist(Done([page EXCEPT !.frozen = TRUE, !.recovered =
                 IF t = Nil THEN Nil ELSE [t EXCEPT !.version = @ + 2]]))
    /\ post' = [post EXCEPT ![r] = IF @.stage = "done" THEN Free ELSE @]
    /\ UNCHANGED <<threadVars, taskVars>>

\* Abort, a broken connection, the adapter's timeout or an answer it cannot
\* read: the outcome is unknown. After a clear only the page is frozen.
OutcomeUnknown(r) ==
    /\ page.call = r
    /\ IF post[r].kind = "clear"
       THEN page' = Done([page EXCEPT !.frozen = TRUE]) /\ UNCHANGED saved
       ELSE Persist(Done([page EXCEPT !.frozen = TRUE, !.recovered = ShownTask(page)]))
    /\ post' = [post EXCEPT ![r] = IF @.stage = "done" THEN Free ELSE @]
    /\ UNCHANGED <<threadVars, taskVars>>

OpenAtTheSameVersion(old, new) ==
    \/ new.status = "claimed"
    \/ new.status = "active" /\ new.version < old.version

\* Only a version beyond the known one, or an ended task, thaws the tab.
StillOpen(old, new) ==
    \/ new.status = "claimed"
    \/ new.status = "active" /\ new.version <= old.version

\* What the server reads and what the page makes of it are one step: between
\* them the tab changes nothing but by startFresh, which `from` outlives.
LearnStatus ==
    /\ page.call = "status"
    /\ LET old == StatusIdentity(page.from)
           new == View(old.task)
       IN Persist(Done([page.from EXCEPT !.recovered = new,
                                         !.frozen = StillOpen(old, new)]))
    /\ UNCHANGED <<post, threadVars, taskVars>>

StatusLost ==
    /\ page.call = "status"
    /\ page' = Done(page)
    /\ UNCHANGED <<saved, post, threadVars, taskVars>>

\* loadSession into a new page. A request the new page is not frozen for is
\* forgotten: it was pending, or an unknown clear that was never saved. A
\* reload that shows the same page is no step.
Reload ==
    /\ page' = IF saved = Nil THEN Fresh(page.mode) ELSE saved
    /\ page' # page
    /\ post' = [r \in Requests |->
                  IF post[r].stage \in {"free", "done"} THEN Free
                  ELSE [post[r] EXCEPT !.forgotten = @ \/ ~page'.frozen]]
    /\ UNCHANGED <<saved, threadVars, taskVars>>

\* startFresh, in the frozen banner, does not wait for a call on its way.
StartFresh ==
    /\ page.frozen
    /\ page' = [Fresh(page.mode) EXCEPT !.call = page.call, !.from = page.from]
    /\ saved' = Nil
    /\ UNCHANGED <<post, threadVars, taskVars>>

-----------------------------------------------------------------------------
(* Everybody else: other clients on the threads, expiry on the tasks. No task *)
(* is purged while the tab is open: retention outlasts it.                  *)

Others ==
    /\ \/ Tick
       \/ \E t \in Threads : Create(t) \/ \E v \in 1..MaxVersion : Clear(t, v)
       \/ \E w \in Workers \ Requests :
             \/ Settle(w)
             \/ \E t \in Threads, v \in 1..MaxVersion, k \in Kinds : Claim(w, t, v, k)
    /\ UNCHANGED <<taskVars, page, saved, post>>

TaskLapses(t) ==
    Port!Lapse({t}) /\ UNCHANGED <<threadVars, page, saved, post>>

Handle(r) ==
    \/ TaskStart(r) \/ TaskClaim(r) \/ TaskRefused(r) \/ TaskCommit(r) \/ TaskSwitch(r)
    \/ ClaimLost(r) \/ TaskTurnFails(r)
    \/ Ask(r) \/ ThreadClaim(r) \/ ThreadRefused(r) \/ ThreadSettle(r)
    \/ RequestLost(r)

BenchNext ==
    \/ Others \/ ServerRestarts
    \/ \E t \in Tasks : TaskLapses(t)
    \/ CheckTaskStatus \/ LearnStatus \/ StatusLost
    \/ Reload \/ StartFresh
    \/ \E r \in Requests :
          \/ SubmitTask(r) \/ SubmitLegacy(r) \/ ClearCurrentTask(r)
          \/ Handle(r)
          \/ Receive(r) \/ OutcomeUnknown(r)

BenchSpec == BenchInit /\ [][BenchNext]_benchVars

\* Graph runs end and settle; the adapter's timeout ends every wait; a task
\* nobody commits expires. The user of a frozen tab keeps checking, and an
\* answer gets through now and then.
FairBench ==
    /\ BenchSpec
    /\ \A w \in Workers \ Requests : WF_benchVars(Settle(w) /\ Others)
    /\ \A r \in Requests : WF_benchVars(ThreadSettle(r)) /\ WF_benchVars(OutcomeUnknown(r))
    /\ \A t \in Tasks : WF_benchVars(TaskLapses(t))
    /\ SF_benchVars(CheckTaskStatus) /\ SF_benchVars(LearnStatus)

-----------------------------------------------------------------------------
BenchTypeOK ==
    /\ page.acked \in Views \cup {Nil}
    /\ page.recovered \in Views \cup {Nil}
    /\ page.thread \in ThreadViews \cup {Nil}
    /\ page.call \in Requests \cup {Nil, "status"}
    /\ saved # Nil => saved.call = Nil
    /\ \A r \in Requests :
          /\ post[r].stage \in {"free", "sent", "running", "done"}
          /\ post[r].stage = "done" => page.call = r

\* A request that can still change what the tab shows it works on.
InForce(r) ==
    LET p == post[r]
        t == ShownTask(page)
    IN \/ /\ t # Nil /\ p.target = t.task
          /\ \/ p.stage = "running" /\ r \in holders[t.task]
             \/ p.stage = "sent" /\ status[t.task] = "active" /\ version[t.task] = p.version
       \/ /\ page.thread # Nil /\ p.target = page.thread.thread
          /\ \/ p.stage = "running"
             \/ p.stage = "sent" /\ points[p.target].version = p.version

\* "An unknown outcome freezes the lineage; only a status check lets the user
\* adopt the server's new version" (workbench.tsx:21-22): whatever was given
\* up, however late it arrives, a tab that may send again has no mutation left
\* that could still hit its task or thread, but for what a reload forgot.
ThawedIsSettled ==
    page.call = Nil /\ ~page.frozen
      => \A r \in Requests : InForce(r) => post[r].forgotten

\* The tab never names a version the server has not reached: no refusal, lost
\* answer, late status or reload makes it run ahead ("the page does not guess
\* the server's version", workbench.tsx:189).
TabNeverAhead ==
    \A p \in {page, saved} \ {Nil} :
      LET t == StatusIdentity(p) IN
      t # Nil => t.version <= version[t.task]

\* A frozen tab that knows its task does not stay frozen: a status check finds
\* a new version or the task's end, whatever became of the mutation it froze for.
FrozenThaws == (page.frozen /\ StatusIdentity(page) # Nil) ~> ~page.frozen
=============================================================================
