-------------------------- MODULE WorkbenchProofs --------------------------
(***************************************************************************)
(* What a browser tab may rely on, for any number of requests, tasks,      *)
(* threads and other clients: it never runs ahead of the server, and when  *)
(* it may send again nothing it sent before can still hit what it shows.   *)
(*                                                                         *)
(* A request is given up long before it runs, and what keeps it from doing *)
(* harm changes on the way: the tab waits for it, then it is frozen at a   *)
(* version no older than the request's, then the server has moved past     *)
(* that version.  BenchInv follows each request through the three, in the  *)
(* page, in the session a reload brings back, in the page a status check   *)
(* will bring back, and in the answer that is on its way.                  *)
(***************************************************************************)
EXTENDS Workbench, ThreadCheckpointProofs

Answers == [kind : {"turn", "rejected", "cleared", "none"},
            task : Views \cup {Nil}, thread : ThreadViews \cup {Nil}]

AllKinds == {"start", "ask"} \cup Mutations \cup Kinds

Posts == [stage : {"free", "sent", "running", "done"}, kind : AllKinds \cup {Nil},
          target : Tasks \cup Threads \cup {Nil}, version : Nat, forgotten : BOOLEAN,
          answer : Answers \cup {Nil}]

(* The pages a status check may go on from. *)
Froms == [mode : Modes, frozen : {TRUE}, acked : Views \cup {Nil},
          recovered : Views \cup {Nil}, thread : ThreadViews \cup {Nil},
          call : {Nil}, from : {Nil}]

Pages == [mode : Modes, frozen : BOOLEAN, acked : Views \cup {Nil},
          recovered : Views \cup {Nil}, thread : ThreadViews \cup {Nil},
          call : Requests \cup {Nil, "status"}, from : Froms \cup {Nil}]

BenchTypes ==
    /\ page \in Pages /\ saved \in Sessions \cup {Nil} /\ post \in [Requests -> Posts]
    /\ status \in [Tasks -> Port!PortStatus] /\ version \in [Tasks -> Nat]
    /\ holders \in [Tasks -> SUBSET Requests]

(* The tasks, as the port keeps them while the tab is open. *)
TaskFacts(t) ==
    /\ status[t] # "purged"
    /\ status[t] = "unissued" <=> version[t] = 0
    /\ holders[t] # {} => status[t] = "claimed"

-----------------------------------------------------------------------------
(* What the tab is told of a task was true and is true of its past. *)
Truthful(w) ==
    w # Nil =>
      /\ w.status \in Port!PortLive \cup Port!PortEnded
      /\ 1 <= w.version /\ w.version <= version[w.task]
      /\ w.status \in Port!PortEnded => status[w.task] \in Port!PortEnded

Issued(w) == w # Nil => points[w.thread].status # "unissued"

Coherent(p) ==
    /\ Truthful(p.acked) /\ Truthful(p.recovered) /\ Issued(p.thread)
    /\ p.thread # Nil => p.acked = Nil /\ p.recovered = Nil
    /\ p.acked # Nil => p.acked.status = "active"
    /\ p.acked # Nil /\ p.recovered # Nil => p.acked.task = p.recovered.task
    /\ ~p.frozen /\ p.recovered # Nil => p.recovered.status # "claimed"

(* What a reload brings back: what is shown, unless an unknown clear has frozen *)
(* the page since.                                                             *)
Session == IF saved = Nil THEN Fresh(page.mode) ELSE saved

SessionFacts ==
    /\ Session.mode = page.mode /\ Session.acked = page.acked
    /\ Session.recovered = page.recovered /\ Session.thread = page.thread
    /\ Session.frozen => page.frozen
    /\ Coherent(Session)

-----------------------------------------------------------------------------
(* The requests. *)
Alive(r) == post[r].stage \in {"sent", "running"}

Loose(r) == Alive(r) /\ ~post[r].forgotten

RequestFacts(r) ==
    LET p == post[r] IN
    /\ p.stage # "free" => p.kind \in AllKinds
    /\ p.stage = "done" => page.call = r
    /\ Alive(r) /\ p.kind \in Mutations =>
          p.target \in Tasks /\ 1 <= p.version /\ p.version <= version[p.target]
    /\ Alive(r) /\ p.kind \in Kinds =>
          /\ p.target \in Threads /\ points[p.target].status # "unissued"
          /\ p.stage = "running" => Known(p.target)
    /\ Alive(r) /\ p.kind \in {"start", "ask"} => p.target = Nil
    /\ p.stage = "running" => p.kind \notin {"start", "ask"}

(* The page waits for r, and shows what r is about; only startFresh, during    *)
(* a clear of a frozen tab, makes it forget.                                   *)
CallFacts(r) ==
    LET p == post[r]
        t == ShownTask(page)
    IN page.call = r =>
         /\ p.stage # "free"
         /\ p.kind # "clear" => ~page.frozen
         /\ Alive(r) /\ p.kind \in Mutations =>
              \/ t # Nil /\ t.task = p.target /\ t.version = p.version
              \/ p.kind = "clear" /\ StatusIdentity(page) = Nil
         /\ Alive(r) /\ p.kind \in Kinds =>
              page.thread # Nil /\ page.thread.thread = p.target

StatusCallFacts ==
    /\ page.call = "status" => page.from # Nil /\ StatusIdentity(page.from) # Nil
    /\ page.from # Nil => page.call = "status" /\ Coherent(page.from)

(* The server has moved past a mutation: it can only be refused. *)
Spent(r) ==
    LET p == post[r] IN
    /\ p.kind \in Mutations
    /\ p.stage = "sent" => ~(status[p.target] = "active" /\ version[p.target] = p.version)
    /\ p.stage = "running" => r \notin holders[p.target]

(* A page p that waits for nothing cannot be surprised by r. *)
Shields(p, r) ==
    LET old == StatusIdentity(p)
        t == ShownTask(p)
    IN IF p.frozen
       THEN old # Nil /\ old.task = post[r].target => post[r].version <= old.version
       ELSE /\ t # Nil => t.task # post[r].target
            /\ p.thread # Nil => p.thread.thread # post[r].target

(* Neither is the page that an answer makes. *)
Fits(r, a) ==
    /\ a \in Answers
    /\ a.kind = "turn" => post[r].kind # "clear"
    /\ a.kind # "turn" => a.task = Nil /\ a.thread = Nil
    /\ a.task = Nil \/ a.thread = Nil
    /\ Truthful(a.task) /\ Issued(a.thread)
    /\ \A q \in Requests : Loose(q) =>
          /\ a.task # Nil => Spent(q) \/ a.task.task # post[q].target
          /\ a.thread # Nil => a.thread.thread # post[q].target

Harmless(r) ==
    Loose(r) =>
      /\ page.call # r => Spent(r) \/ Shields(page, r)
      /\ page.from # Nil => Spent(r) \/ Shields(page.from, r)

TabFacts ==
    /\ Coherent(page) /\ SessionFacts /\ StatusCallFacts
    /\ \A r \in Requests :
          /\ RequestFacts(r) /\ CallFacts(r) /\ Harmless(r)
          /\ post[r].stage = "done" => Fits(r, post[r].answer)

BenchInv ==
    /\ ThreadInv /\ BenchTypes
    /\ \A t \in Tasks : TaskFacts(t)
    /\ TabFacts
-----------------------------------------------------------------------------
(* The threads.  The tab is one client of ThreadCheckpoint among others. *)

(* Every thread is fresh, or every thread is lost. *)
LEMMA BenchInitThreads == BenchInit => ThreadInv
<1> SUFFICES ASSUME BenchInit PROVE ThreadInv
  OBVIOUS
<1>1. CASE Init
  BY <1>1, ThreadInitInv
<1>2. CASE /\ clock = MaxClock /\ points = [t \in Threads |-> NoPoint("lost")]
           /\ turn = [w \in Workers |-> Idle]
           /\ runs = [t \in Threads |-> [k \in Kinds |-> 0]]
  BY <1>2, TTLAssumption
  DEF ThreadInv, TypeOK, Lawful, NoPoint, Point, MaxVersion, Open, Claimed, Ended, Kinds
<1> QED BY <1>1, <1>2 DEF BenchInit

(* Whatever the tab, its requests and the server do is a step of the threads   *)
(* or leaves them alone.                                                       *)
LEMMA BenchStepThreads ==
  ASSUME ThreadInv, BenchTypes, \A r \in Requests : RequestFacts(r), [BenchNext]_benchVars
  PROVE  [Next]_vars
<1>types. points \in [Threads -> Point] /\ \A t \in Threads : Lawful(points[t], runs[t])
  BY DEF ThreadInv, TypeOK
<1>1. CASE UNCHANGED threadVars
  BY <1>1 DEF threadVars, vars
<1>2. CASE Others
  BY <1>2 DEF Others, Next
<1>3. CASE ServerRestarts
  BY <1>3 DEF ServerRestarts, Next
<1>4. ASSUME NEW r \in Requests, Ask(r) PROVE [Next]_vars
  BY <1>4 DEF Ask, Next, threadVars, vars
<1>5. ASSUME NEW r \in Requests, ThreadClaim(r) PROVE [Next]_vars
  <2> DEFINE t == post[r].target
             v == post[r].version
             k == post[r].kind
  <2>1. k \in Kinds /\ t \in Threads /\ Claim(r, t, v, k)
    BY <1>5 DEF ThreadClaim, Sent, RequestFacts, Alive
  <2> HIDE DEF t, v, k
  <2>2. points[t].status \in Open /\ points[t].version = v
    BY <2>1 DEF Claim, ClaimPoint, Open
  <2>3. v \in 1..MaxVersion
    BY <2>1, <2>2, <1>types DEF Lawful, Open, MaxVersion
  <2> QED BY <2>1, <2>3, RequestsAssumption DEF Next
<1>6. ASSUME NEW r \in Requests, ThreadSettle(r) PROVE [Next]_vars
  BY <1>6, RequestsAssumption DEF ThreadSettle, Next
<1>7. ASSUME NEW r \in Requests, Handle(r), ~Ask(r), ~ThreadClaim(r), ~ThreadSettle(r)
      PROVE  UNCHANGED threadVars
  BY <1>7 DEF Handle, TaskStart, TaskClaim, TaskRefused, TaskCommit, TaskSwitch, ClaimLost,
              TaskTurnFails, ThreadRefused, RequestLost
<1>8. ASSUME NEW r \in Requests,
             SubmitTask(r) \/ SubmitLegacy(r) \/ ClearCurrentTask(r) \/ Receive(r)
               \/ OutcomeUnknown(r)
      PROVE  UNCHANGED threadVars
  BY <1>8 DEF SubmitTask, SubmitLegacy, ClearCurrentTask, Send, Receive, OutcomeUnknown
<1>9. ASSUME CheckTaskStatus \/ LearnStatus \/ StatusLost \/ Reload \/ StartFresh
      PROVE  UNCHANGED threadVars
  BY <1>9 DEF CheckTaskStatus, LearnStatus, StatusLost, Reload, StartFresh
<1>10. ASSUME NEW t \in Tasks, TaskLapses(t) PROVE UNCHANGED threadVars
  BY <1>10 DEF TaskLapses
<1>11. CASE UNCHANGED benchVars
  BY <1>11, <1>1 DEF benchVars
<1> QED
  BY <1>1, <1>2, <1>3, <1>4, <1>5, <1>6, <1>7, <1>8, <1>9, <1>10, <1>11 DEF BenchNext

(* What happens to the threads as long as the server runs. *)
WhileUp ==
    \/ Tick
    \/ \E x \in Threads : Create(x) \/ \E v \in 1..MaxVersion : Clear(x, v)
    \/ \E w \in Workers :
          \/ Settle(w)
          \/ \E x \in Threads, v \in 1..MaxVersion, k \in Kinds : Claim(w, x, v, k)

(* The server forgets no thread while it runs. *)
LEMMA ThreadsStayKnown ==
  ASSUME ThreadInv, WhileUp, NEW t \in Threads
  PROVE  points[t].status # "unissued" => points'[t].status # "unissued" /\ (Known(t) => Known(t)')
<1>types. points \in [Threads -> Point] /\ points[t] \in Point
  BY DEF ThreadInv, TypeOK
<1> USE DEF Known
<1>3. ASSUME NEW x \in Threads, Create(x)
      PROVE  \/ points'[t].status # "unissued" /\ Known(t)'
             \/ points'[t] = points[t]
  BY <1>3, <1>types DEF Create, Open
<1>4. ASSUME NEW x \in Threads, NEW s \in Open \cup Claimed \cup Ended,
             points' = [points EXCEPT ![x].status = s, ![x].version = @ + 1]
      PROVE  points'[t].status \in {s, points[t].status}
  <2>1. points' = [points EXCEPT ![x] =
                     [status |-> s, version |-> points[x].version + 1,
                      expires |-> points[x].expires, optIn |-> points[x].optIn]]
    BY <1>4, <1>types, NextVersion
  <2> QED BY <2>1, <1>types
<1>5. ASSUME NEW x \in Threads, NEW v \in 1..MaxVersion, Clear(x, v)
      PROVE  points'[t].status \in {"cleared", points[t].status}
  BY <1>5, <1>4 DEF Clear, Ended
<1>6. ASSUME NEW w \in Workers, NEW x \in Threads, NEW v \in 1..MaxVersion, NEW k \in Kinds,
             Claim(w, x, v, k)
      PROVE  points'[t].status \in Claimed \cup {points[t].status}
  BY <1>6, <1>4 DEF Claim, ClaimPoint, Claimed
<1>7. ASSUME NEW w \in Workers, Settle(w)
      PROVE  points'[t].status \in {"resolved", "follow_up_ready", points[t].status}
  <2>1. turn[w].thread \in Threads
    BY <1>7 DEF ThreadInv, TypeOK, Settle, SettleResume, SettleFollowUp, Idle, Turn
  <2>2. UNCHANGED points \/ Advance(w, "resolved") \/ Advance(w, "follow_up_ready")
    BY <1>7 DEF Settle, SettleResume, SettleFollowUp, Resolve, Promote
  <2> QED BY <2>1, <2>2, <1>4 DEF Advance, Open, Ended
<1> QED
  BY <1>3, <1>5, <1>6, <1>7 DEF WhileUp, Tick, Claimed

(* A thread that was issued stays so; only a restart makes the server forget   *)
(* one it knew.                                                                *)
LEMMA ThreadsStayIssued ==
  ASSUME ThreadInv, [Next]_vars, NEW t \in Threads
  PROVE  /\ points[t].status # "unissued" => points'[t].status # "unissued"
         /\ Known(t) /\ ~Restart => Known(t)'
<1>1. points \in [Threads -> Point]
  BY DEF ThreadInv, TypeOK
<1>2. CASE UNCHANGED points
  BY <1>2 DEF Known
<1>3. CASE Restart
  BY <1>1, <1>3 DEF Restart, NoPoint, Known
<1>4. CASE WhileUp
  BY <1>4, ThreadsStayKnown DEF Known
<1> QED BY <1>2, <1>3, <1>4 DEF Next, WhileUp, vars

-----------------------------------------------------------------------------
(* The tasks.  Versions only grow, an end is final, and a version that is no   *)
(* longer there for the taking never is again.                                 *)
TaskTypes ==
    /\ status \in [Tasks -> Port!PortStatus] /\ version \in [Tasks -> Nat]
    /\ holders \in [Tasks -> SUBSET Requests]

TaskWorld == TaskTypes /\ \A t \in Tasks : TaskFacts(t)

Later(t) ==
    /\ version[t] <= version'[t]
    /\ status[t] \in Port!PortEnded => status'[t] \in Port!PortEnded
    /\ status[t] # "unissued" /\ status'[t] = "active" /\ version'[t] = version[t]
          => status[t] = "active"

NoNewHolder(t) == holders'[t] \subseteq holders[t]

TasksMove == TaskWorld' /\ \A t \in Tasks : Later(t)

(* What one step does to one task, by the port's words for it. *)
Moves(t) ==
    \/ status'[t] = status[t] /\ version'[t] = version[t] /\ holders'[t] \subseteq holders[t]
    \/ status[t] = "unissued" /\ status'[t] = "active" /\ version'[t] = 1 /\ holders'[t] = {}
    \/ /\ status[t] = "active" /\ status'[t] = "claimed" /\ version'[t] = version[t] + 1
       /\ holders'[t] \subseteq Requests
    \/ /\ status[t] = "claimed" /\ status'[t] \in {"active", "cancelled", "cleared", "switched"}
       /\ version'[t] = version[t] + 1 /\ holders'[t] = {}
    \/ /\ status[t] \in Port!PortLive /\ status'[t] = "expired" /\ version'[t] = version[t]
       /\ holders'[t] = {}

LEMMA TasksOnlyMove ==
  ASSUME TaskWorld, DOMAIN status' = Tasks, DOMAIN version' = Tasks, DOMAIN holders' = Tasks,
         status' = [t \in Tasks |-> status'[t]], version' = [t \in Tasks |-> version'[t]],
         holders' = [t \in Tasks |-> holders'[t]],
         \A t \in Tasks : Moves(t)
  PROVE  TasksMove
<1>1. ASSUME NEW t \in Tasks
      PROVE  /\ status'[t] \in Port!PortStatus /\ version'[t] \in Nat
             /\ holders'[t] \subseteq Requests /\ TaskFacts(t)' /\ Later(t)
  <2>1. /\ status[t] \in Port!PortStatus /\ version[t] \in Nat /\ holders[t] \subseteq Requests
        /\ TaskFacts(t) /\ Moves(t)
    BY DEF TaskWorld, TaskTypes
  <2>2. CASE status'[t] = status[t] /\ version'[t] = version[t] /\ holders'[t] \subseteq holders[t]
    BY <2>1, <2>2 DEF TaskFacts, Later
  <2>3. CASE ~(status'[t] = status[t] /\ version'[t] = version[t]
                 /\ holders'[t] \subseteq holders[t])
    BY <2>1, <2>3 DEF TaskFacts, Later, Moves, Port!PortStatus, Port!PortLive, Port!PortEnded
  <2> QED BY <2>2, <2>3
<1> QED BY <1>1 DEF TasksMove, TaskWorld, TaskTypes

LEMMA TasksStay ==
  ASSUME TaskWorld, UNCHANGED taskVars
  PROVE  TasksMove /\ \A t \in Tasks : NoNewHolder(t)
<1> SUFFICES ASSUME NEW t \in Tasks PROVE Later(t) /\ NoNewHolder(t) /\ TaskFacts(t)'
  BY DEF TasksMove, TaskWorld, TaskTypes, taskVars
<1> QED BY DEF TaskWorld, TaskTypes, TaskFacts, Later, NoNewHolder, taskVars

LEMMA IssueMoves ==
  ASSUME TaskWorld, NEW t \in Tasks, Port!Issue(t)
  PROVE  /\ TasksMove /\ \A x \in Tasks : NoNewHolder(x)
         /\ status'[t] = "active" /\ version'[t] = 1 /\ status[t] = "unissued"
<1>1. \A x \in Tasks : Moves(x) /\ NoNewHolder(x)
  BY DEF Port!Issue, Moves, NoNewHolder, TaskWorld, TaskTypes, TaskFacts
<1>2. TasksMove
  BY <1>1, TasksOnlyMove DEF Port!Issue, TaskWorld, TaskTypes
<1> QED BY <1>1, <1>2 DEF Port!Issue, TaskWorld, TaskTypes

LEMMA ClaimMoves ==
  ASSUME TaskWorld, NEW t \in Tasks, NEW r \in Requests, Port!Claim(r, t)
  PROVE  /\ TasksMove /\ \A x \in Tasks \ {t} : NoNewHolder(x)
         /\ status[t] = "active" /\ holders'[t] = {r}
<1>1. \A x \in Tasks : Moves(x)
  BY DEF Port!Claim, Moves, TaskWorld, TaskTypes
<1>2. TasksMove
  BY <1>1, TasksOnlyMove DEF Port!Claim, TaskWorld, TaskTypes
<1> QED BY <1>2 DEF Port!Claim, TaskWorld, TaskTypes, NoNewHolder

LEMMA CommitMoves ==
  ASSUME TaskWorld, NEW t \in Tasks, NEW r \in Requests,
         NEW to \in {"active", "cancelled", "cleared"}, Port!Commit(r, t, to)
  PROVE  /\ TasksMove /\ \A x \in Tasks : NoNewHolder(x)
         /\ status'[t] = to /\ version'[t] = version[t] + 1
<1>1. \A x \in Tasks : Moves(x) /\ NoNewHolder(x)
  BY DEF Port!Commit, Moves, NoNewHolder, TaskWorld, TaskTypes
<1>2. TasksMove
  BY <1>1, TasksOnlyMove DEF Port!Commit, TaskWorld, TaskTypes
<1> QED BY <1>1, <1>2 DEF Port!Commit, TaskWorld, TaskTypes

LEMMA SwitchMoves ==
  ASSUME TaskWorld, NEW old \in Tasks, NEW new \in Tasks, NEW r \in Requests,
         Port!Switch(r, old, new)
  PROVE  /\ TasksMove /\ \A x \in Tasks : NoNewHolder(x)
         /\ status'[new] = "active" /\ version'[new] = 1 /\ status[new] = "unissued"
<1>0. old # new
  BY DEF Port!Switch
<1>1. \A x \in Tasks : Moves(x) /\ NoNewHolder(x)
  BY <1>0 DEF Port!Switch, Moves, NoNewHolder, TaskWorld, TaskTypes, TaskFacts
<1>2. TasksMove
  BY <1>1, TasksOnlyMove DEF Port!Switch, TaskWorld, TaskTypes
<1> QED BY <1>0, <1>1, <1>2 DEF Port!Switch, TaskWorld, TaskTypes

LEMMA LapseMoves ==
  ASSUME TaskWorld, NEW t \in Tasks, Port!Lapse({t})
  PROVE  TasksMove /\ \A x \in Tasks : NoNewHolder(x)
<1>1. \A x \in Tasks : Moves(x) /\ NoNewHolder(x)
  BY DEF Port!Lapse, Moves, NoNewHolder, TaskWorld, TaskTypes
<1>2. TasksMove
  BY <1>1, TasksOnlyMove DEF Port!Lapse, TaskWorld, TaskTypes
<1> QED BY <1>1, <1>2

(* Requests that go away, whoever they held. *)
LEMMA HoldersGo ==
  ASSUME TaskWorld, UNCHANGED <<status, version>>, NEW S,
         holders' = [t \in Tasks |-> holders[t] \ S]
  PROVE  TasksMove /\ \A x \in Tasks : NoNewHolder(x)
<1>1. \A x \in Tasks : Moves(x) /\ NoNewHolder(x)
  BY DEF Moves, NoNewHolder, TaskWorld, TaskTypes
<1>2. TasksMove
  BY <1>1, TasksOnlyMove DEF TaskWorld, TaskTypes
<1> QED BY <1>1, <1>2

-----------------------------------------------------------------------------
(* The server's steps.  The page and the session stand still; a request stays  *)
(* as it is, is taken up, ends unanswered or ends with an answer that fits.    *)
Same(r) ==
    /\ post'[r] = post[r]
    /\ Alive(r) /\ post[r].kind \in Mutations =>
          (r \in holders'[post[r].target] => r \in holders[post[r].target])
    /\ post[r].stage = "running" /\ post[r].kind \in Kinds => Known(post[r].target)'

Ends(r) == post'[r] = Free /\ page.call # r

Taken(r) ==
    /\ post[r].stage = "sent" /\ post[r].kind \in Mutations \cup Kinds
    /\ post'[r] = [post[r] EXCEPT !.stage = "running"]
    /\ ~Spent(r)
    /\ post[r].kind \in Kinds => Known(post[r].target)'

Answered(r, a) ==
    /\ page.call = r /\ Alive(r) /\ Fits(r, a)'
    /\ post'[r] = [post[r] EXCEPT !.stage = "done", !.answer = a]

Handled(r) == Same(r) \/ Ends(r) \/ Taken(r) \/ \E a \in Answers : Answered(r, a)

(* What was true of a task stays so. *)
LEMMA TruthStays ==
  ASSUME TaskWorld, TasksMove, NEW w \in Views \cup {Nil}, Truthful(w)
  PROVE  Truthful(w)'
<1> SUFFICES ASSUME w # Nil PROVE Truthful(w)'
  BY DEF Truthful
<1>1. w.task \in Tasks /\ w.version \in Nat
  BY DEF Views
<1> QED BY <1>1 DEF Truthful, TasksMove, TaskWorld, TaskTypes, Later

LEMMA IssueStays ==
  ASSUME ThreadInv, [Next]_vars, NEW w \in ThreadViews \cup {Nil}, Issued(w)
  PROVE  Issued(w)'
  BY ThreadsStayIssued DEF Issued, ThreadViews

LEMMA CoherenceStays ==
  ASSUME ThreadInv, [Next]_vars, TaskWorld, TasksMove,
         NEW p \in Pages \cup Sessions \cup Froms, Coherent(p)
  PROVE  Coherent(p)'
<1>1. p.acked \in Views \cup {Nil} /\ p.recovered \in Views \cup {Nil}
      /\ p.thread \in ThreadViews \cup {Nil}
  BY DEF Pages, Sessions, Froms
<1>2. Truthful(p.acked)' /\ Truthful(p.recovered)' /\ Issued(p.thread)'
  BY <1>1, TruthStays, IssueStays DEF Coherent
<1> QED BY <1>2 DEF Coherent

(* A mutation the server has moved past stays harmless. *)
LEMMA SpentStays ==
  ASSUME TaskWorld, TasksMove, NEW r \in Requests, post[r] \in Posts, RequestFacts(r),
         Alive(r), Spent(r), Same(r)
  PROVE  Spent(r)'
<1> DEFINE t == post[r].target
<1>1. /\ t \in Tasks /\ 1 <= post[r].version /\ post[r].version <= version[t]
      /\ version[t] \in Nat /\ version'[t] \in Nat /\ TaskFacts(t) /\ Later(t)
      /\ post[r].version \in Nat
  BY DEF Spent, RequestFacts, TaskWorld, TaskTypes, TasksMove, Posts
<1>2. status[t] # "unissued"
  BY <1>1 DEF TaskFacts
<1> QED BY <1>1, <1>2 DEF Spent, Same, Later, Alive

LEMMA WorldKeeps ==
  ASSUME BenchInv, [Next]_vars, TasksMove, UNCHANGED <<page, saved>>,
         post' \in [Requests -> Posts], \A r \in Requests : Handled(r)
  PROVE  BenchInv'
<1>inv. /\ ThreadInv /\ TaskWorld /\ BenchTypes /\ TabFacts
  BY DEF BenchInv, BenchTypes, TaskWorld, TaskTypes
<1>free. Free.stage = "free" /\ Free.kind = Nil
  BY DEF Free
<1>1. ThreadInv' /\ BenchTypes' /\ \A t \in Tasks : TaskFacts(t)'
  BY <1>inv, ThreadStepInv DEF BenchTypes, TasksMove, TaskWorld, TaskTypes
<1>2. Coherent(page)' /\ SessionFacts' /\ StatusCallFacts'
  <2>1. page \in Pages /\ Session \in Sessions /\ page.from \in Froms \cup {Nil}
    <3>1. page \in Pages /\ saved \in Sessions \cup {Nil} /\ Fresh(page.mode) \in Sessions
      BY <1>inv DEF BenchTypes, Pages, Sessions, Fresh
    <3> QED BY <3>1 DEF Session, Pages
  <2>2. Coherent(page) /\ Coherent(Session) /\ (page.from # Nil => Coherent(page.from))
    BY <1>inv DEF TabFacts, SessionFacts, StatusCallFacts
  <2>3. /\ Coherent(page)' /\ Coherent(Session)' /\ (page.from # Nil => Coherent(page.from)')
    BY <2>1, <2>2, <1>inv, CoherenceStays DEF Session, Coherent, Truthful, Issued
  <2>4. SessionFacts'
    BY <2>3, <1>inv DEF TabFacts, SessionFacts, Session
  <2> QED BY <2>3, <2>4, <1>inv DEF TabFacts, StatusCallFacts
<1>3. ASSUME NEW r \in Requests
      PROVE  /\ RequestFacts(r) /\ CallFacts(r) /\ Harmless(r) /\ post[r] \in Posts
             /\ post[r].stage = "done" => Fits(r, post[r].answer)
             /\ Handled(r)
  BY <1>inv DEF TabFacts, BenchTypes
<1>stay. ASSUME NEW r \in Requests, post'[r] = post[r]
         PROVE  /\ post'[r].stage = post[r].stage /\ (Alive(r)' <=> Alive(r))
                /\ (Loose(r)' <=> Loose(r)) /\ post'[r].target = post[r].target
                /\ post'[r].version = post[r].version /\ post'[r].kind = post[r].kind
  BY <1>stay DEF Alive, Loose
<1>taken. ASSUME NEW r \in Requests, Taken(r)
          PROVE  /\ post'[r].stage = "running" /\ (Loose(r)' <=> Loose(r)) /\ Alive(r) /\ Alive(r)'
                 /\ post'[r].target = post[r].target /\ post'[r].version = post[r].version
                 /\ post'[r].kind = post[r].kind
  BY <1>taken, <1>3 DEF Taken, Alive, Loose, Posts
<1>answered. ASSUME NEW r \in Requests, NEW a \in Answers, Answered(r, a)
             PROVE  /\ post'[r].stage = "done" /\ ~Alive(r)' /\ ~Loose(r)'
                    /\ post'[r].kind = post[r].kind /\ post'[r].answer = a
  BY <1>answered, <1>3 DEF Answered, Alive, Loose, Posts
<1>ends. ASSUME NEW r \in Requests, Ends(r) PROVE post'[r].stage = "free" /\ ~Alive(r)' /\ ~Loose(r)'
  BY <1>ends, <1>free DEF Ends, Alive, Loose
<1>4. ASSUME NEW r \in Requests, Loose(r)'
      PROVE  /\ Loose(r) /\ (Spent(r) => Spent(r)')
             /\ post'[r].target = post[r].target /\ post'[r].version = post[r].version
  <2>1. Same(r) \/ Taken(r)
    BY <1>3, <1>4, <1>answered, <1>ends DEF Handled
  <2>2. CASE Same(r)
    BY <2>2, <1>3, <1>4, <1>stay, <1>inv, SpentStays DEF Same, Loose
  <2>3. CASE Taken(r)
    BY <2>3, <1>4, <1>taken DEF Taken
  <2> QED BY <2>1, <2>2, <2>3
<1>5. ASSUME NEW r \in Requests PROVE RequestFacts(r)'
  <2>1. CASE Same(r)
    <3>1. ASSUME post[r].target \in Threads
          PROVE  points[post[r].target].status # "unissued"
                   => points'[post[r].target].status # "unissued"
      BY <3>1, <1>inv, ThreadsStayIssued
    <3>2. ASSUME post[r].target \in Tasks
          PROVE  version[post[r].target] \in Nat /\ version'[post[r].target] \in Nat
                 /\ version[post[r].target] <= version'[post[r].target]
      BY <3>2, <1>inv DEF TasksMove, TaskWorld, TaskTypes, Later
    <3>3. post[r].version \in Nat
      BY <1>3 DEF Posts
    <3> QED BY <2>1, <3>1, <3>2, <3>3, <1>3, <1>stay DEF Same, RequestFacts, Alive
  <2>2. CASE Taken(r)
    <3>1. ASSUME post[r].target \in Threads
          PROVE  points[post[r].target].status # "unissued"
                   => points'[post[r].target].status # "unissued"
      BY <3>1, <1>inv, ThreadsStayIssued
    <3>2. ASSUME post[r].target \in Tasks
          PROVE  version[post[r].target] \in Nat /\ version'[post[r].target] \in Nat
                 /\ version[post[r].target] <= version'[post[r].target]
      BY <3>2, <1>inv DEF TasksMove, TaskWorld, TaskTypes, Later
    <3>3. post[r].version \in Nat
      BY <1>3 DEF Posts
    <3>4. /\ post[r].stage = "sent" /\ post[r].kind \in Mutations \cup Kinds
          /\ post[r].kind \in Kinds => Known(post[r].target)'
      BY <2>2 DEF Taken
    <3> QED
      BY <2>2, <3>1, <3>2, <3>3, <3>4, <1>3, <1>taken DEF RequestFacts, Mutations, Kinds, Known
  <2>3. CASE \E a \in Answers : Answered(r, a)
    BY <2>3, <1>3, <1>answered DEF Answered, RequestFacts, Alive
  <2>4. CASE Ends(r)
    BY <2>4, <1>ends DEF RequestFacts
  <2> QED BY <2>1, <2>2, <2>3, <2>4, <1>3 DEF Handled
<1>6. ASSUME NEW r \in Requests PROVE CallFacts(r)'
  <2>1. CASE Same(r)
    BY <2>1, <1>3, <1>stay DEF Same, CallFacts, ShownTask, StatusIdentity
  <2>2. CASE Taken(r)
    BY <2>2, <1>3, <1>taken DEF Taken, CallFacts, ShownTask, StatusIdentity
  <2>3. CASE \E a \in Answers : Answered(r, a)
    BY <2>3, <1>3, <1>answered DEF Answered, CallFacts, Alive
  <2>4. CASE Ends(r)
    BY <2>4 DEF Ends, CallFacts
  <2> QED BY <2>1, <2>2, <2>3, <2>4, <1>3 DEF Handled
<1>7. ASSUME NEW r \in Requests PROVE Harmless(r)'
  BY <1>3, <1>4 DEF Harmless, Shields, ShownTask, StatusIdentity
<1>8. ASSUME NEW r \in Requests, post'[r].stage = "done" PROVE Fits(r, post[r].answer)'
  <2>1. CASE Same(r)
    <3>1. Fits(r, post[r].answer) /\ post'[r].answer = post[r].answer
          /\ post'[r].kind = post[r].kind
      BY <2>1, <1>3, <1>8 DEF Same
    <3>2. post[r].answer \in Answers
      BY <3>1 DEF Fits
    <3>3. /\ post[r].answer.task \in Views \cup {Nil}
          /\ post[r].answer.thread \in ThreadViews \cup {Nil}
      BY <3>2 DEF Answers
    <3>4. Truthful(post[r].answer.task)' /\ Issued(post[r].answer.thread)'
      BY <3>1, <3>3, <2>1, <1>inv, TruthStays, IssueStays DEF Fits, Truthful, Issued, Same
    <3> QED BY <3>1, <3>4, <1>4 DEF Fits
  <2>2. CASE \E a \in Answers : Answered(r, a)
    BY <2>2, <1>answered DEF Answered, Fits, Truthful, Issued
  <2> QED BY <2>1, <2>2, <1>3, <1>8, <1>taken, <1>ends DEF Handled
<1> QED BY <1>1, <1>2, <1>5, <1>6, <1>7, <1>8 DEF BenchInv, TabFacts

(* An answer to r that makes a page no other request can surprise. *)
Serves(r, a) ==
    /\ a.kind = "turn" => post[r].kind # "clear"
    /\ a.kind # "turn" => a.task = Nil /\ a.thread = Nil
    /\ a.task = Nil \/ a.thread = Nil
    /\ Truthful(a.task)' /\ Issued(a.thread)'
    /\ \A q \in Requests \ {r} : Loose(q) =>
          /\ a.task # Nil => Spent(q) \/ a.task.task # post[q].target
          /\ a.thread # Nil => a.thread.thread # post[q].target

KnowsOn == \A t \in Threads : Known(t) => Known(t)'

LEMMA OthersStay ==
  ASSUME BenchInv, KnowsOn, \A t \in Tasks : NoNewHolder(t), NEW q \in Requests, post'[q] = post[q]
  PROVE  Same(q)
<1>1. RequestFacts(q)
  BY DEF BenchInv, TabFacts
<1> QED BY <1>1 DEF Same, KnowsOn, NoNewHolder, RequestFacts, Alive

LEMMA AnswerKeeps ==
  ASSUME BenchInv, [Next]_vars, KnowsOn, TasksMove, \A t \in Tasks : NoNewHolder(t),
         UNCHANGED <<page, saved>>, NEW r \in Requests, Alive(r),
         NEW a \in Answers, Answer(r, a), page.call = r => Serves(r, a)
  PROVE  BenchInv'
<1>types. post \in [Requests -> Posts] /\ TaskWorld
  BY DEF BenchInv, BenchTypes, TaskWorld, TaskTypes
<1>1. \A q \in Requests \ {r} : post'[q] = post[q]
  BY <1>types DEF Answer
<1>2. \A q \in Requests \ {r} : Same(q)
  BY <1>1, OthersStay
<1>3. CASE page.call = r
  <2>1. post'[r] = [post[r] EXCEPT !.stage = "done", !.answer = a]
    BY <1>3, <1>types DEF Answer
  <2>2. post'[r] \in Posts /\ post'[r].kind = post[r].kind /\ post'[r].stage = "done"
    BY <2>1, <1>types DEF Posts
  <2>3. ASSUME NEW q \in Requests, Loose(q)'
        PROVE  /\ q # r /\ Loose(q) /\ post'[q] = post[q] /\ (Spent(q) => Spent(q)')
    <3>1. q # r
      BY <2>2, <2>3 DEF Loose, Alive
    <3>2. Loose(q) /\ Alive(q) /\ post'[q] = post[q] /\ post[q] \in Posts /\ RequestFacts(q)
      BY <2>3, <3>1, <1>1, <1>types DEF Loose, Alive, BenchInv, TabFacts
    <3> QED BY <3>1, <3>2, <1>2, <1>types, SpentStays
  <2>4. Fits(r, a)'
    BY <2>2, <2>3, <1>3 DEF Fits, Serves
  <2>5. Answered(r, a)
    BY <1>3, <2>1, <2>4 DEF Answered
  <2>6. post' \in [Requests -> Posts]
    BY <1>types, <1>1, <2>2 DEF Answer
  <2> QED BY <1>2, <2>5, <2>6, WorldKeeps DEF Handled
<1>4. CASE page.call # r
  <2>1. post'[r] = Free /\ Free \in Posts
    BY <1>4, <1>types, NilAssumption DEF Answer, Free, Posts
  <2>2. post' \in [Requests -> Posts]
    BY <1>types, <1>1, <2>1 DEF Answer
  <2> QED BY <1>2, <1>4, <2>1, <2>2, WorldKeeps DEF Handled, Ends
<1> QED BY <1>3, <1>4

(* An answer that shows neither a task nor a thread serves any request. *)
LEMMA EmptyAnswersServe ==
  ASSUME NEW r \in Requests, NEW a \in Answers, a.task = Nil, a.thread = Nil,
         a.kind = "turn" => post[r].kind # "clear"
  PROVE  Serves(r, a)
  BY DEF Serves, Truthful, Issued

LEMMA RefusalKeeps ==
  ASSUME BenchInv, [Next]_vars, KnowsOn, TasksMove, \A t \in Tasks : NoNewHolder(t),
         UNCHANGED <<page, saved>>, NEW r \in Requests, Alive(r),
         Answer(r, Outcome("rejected")) \/ AnswerWithoutTask(r)
  PROVE  BenchInv'
<1> DEFINE a == Outcome("rejected")
           b == TurnAnswer(Nil, Nil)
<1>1. a \in Answers /\ a.task = Nil /\ a.thread = Nil /\ a.kind = "rejected"
  BY DEF Outcome, Answers
<1>2. b \in Answers /\ b.task = Nil /\ b.thread = Nil
  BY DEF TurnAnswer, Answers
<1>3. Answer(r, a) \/ (Answer(r, b) /\ post[r].kind # "clear")
  BY DEF AnswerWithoutTask
<1> HIDE DEF a, b
<1>4. CASE Answer(r, a)
  BY <1>4, <1>1, EmptyAnswersServe, AnswerKeeps
<1>5. CASE Answer(r, b) /\ post[r].kind # "clear"
  BY <1>5, <1>2, EmptyAnswersServe, AnswerKeeps
<1> QED BY <1>3, <1>4, <1>5

-----------------------------------------------------------------------------
(* The handlers of a task request. *)

LEMMA ThreadsUntouched ==
  ASSUME UNCHANGED threadVars
  PROVE  [Next]_vars /\ KnowsOn
  BY DEF threadVars, vars, KnowsOn, Known

NewTaskAnswer(t) ==
    TurnAnswer([task |-> t, version |-> 1, status |-> "active"], Nil)

(* A task nobody was told of is nobody's target. *)
LEMMA NewTaskServes ==
  ASSUME BenchInv, NEW r \in Requests, NEW t \in Tasks, status[t] = "unissued",
         status'[t] = "active", version'[t] = 1, post[r].kind # "clear"
  PROVE  NewTaskAnswer(t) \in Answers /\ Serves(r, NewTaskAnswer(t))
<1> DEFINE w == [task |-> t, version |-> 1, status |-> "active"]
           a == [kind |-> "turn", task |-> w, thread |-> Nil]
<1>1. NewTaskAnswer(t) = a
  BY DEF NewTaskAnswer, TurnAnswer
<1>2. w \in Views
  BY DEF Views, Port!PortStatus, Port!PortLive
<1>3. a \in Answers
  BY <1>2 DEF Answers
<1>4. Truthful(w)' /\ Issued(Nil)'
  BY DEF Truthful, Issued, Port!PortLive, Port!PortEnded
<1>5. ASSUME NEW q \in Requests, Loose(q) PROVE t # post[q].target
  <2>1. RequestFacts(q) /\ Alive(q) /\ post[q].version \in Nat /\ post[q].kind \in AllKinds \cup {Nil}
    BY <1>5 DEF BenchInv, TabFacts, BenchTypes, Posts, Loose
  <2>2. version[t] = 0
    BY DEF BenchInv, TaskFacts
  <2> QED BY <2>1, <2>2, IdsAssumption, NilAssumption DEF RequestFacts, Alive, AllKinds
<1>6. a.kind = "turn" /\ a.task = w /\ a.thread = Nil /\ w.task = t
  OBVIOUS
<1>7. Truthful(a.task)' /\ Issued(a.thread)'
  BY <1>4
<1> HIDE DEF a, w
<1> QED BY <1>1, <1>3, <1>5, <1>6, <1>7 DEF Serves

LEMMA TaskStartKeeps == ASSUME BenchInv, NEW r \in Requests, TaskStart(r) PROVE BenchInv'
<1>1. TaskWorld /\ Alive(r) /\ post[r].kind = "start" /\ UNCHANGED <<threadVars, page, saved>>
  BY DEF BenchInv, BenchTypes, TaskWorld, TaskTypes, TaskStart, Sent, Alive
<1>2. PICK t \in Tasks : Port!Issue(t) /\ Answer(r, TurnAnswer(View(t)', Nil))
  BY DEF TaskStart, NewTask
<1>3. /\ TasksMove /\ \A x \in Tasks : NoNewHolder(x)
      /\ status'[t] = "active" /\ version'[t] = 1 /\ status[t] = "unissued"
  BY <1>1, <1>2, IssueMoves
<1>4. Answer(r, NewTaskAnswer(t))
  BY <1>2, <1>3 DEF NewTaskAnswer, View
<1>5. NewTaskAnswer(t) \in Answers /\ Serves(r, NewTaskAnswer(t))
  BY <1>1, <1>3, NewTaskServes
<1> QED BY <1>1, <1>3, <1>4, <1>5, AnswerKeeps, ThreadsUntouched

LEMMA TaskSwitchKeeps == ASSUME BenchInv, NEW r \in Requests, TaskSwitch(r) PROVE BenchInv'
<1>1. /\ TaskWorld /\ Alive(r) /\ post[r].kind = "switch" /\ RequestFacts(r)
      /\ UNCHANGED <<threadVars, page, saved>>
  BY DEF BenchInv, TabFacts, BenchTypes, TaskWorld, TaskTypes, TaskSwitch, Running, Alive
<1>2. PICK new \in Tasks : /\ Port!Switch(r, post[r].target, new)
                           /\ Answer(r, TurnAnswer(View(new)', Nil))
  BY DEF TaskSwitch, NewTask
<1>3. /\ TasksMove /\ \A x \in Tasks : NoNewHolder(x)
      /\ status'[new] = "active" /\ version'[new] = 1 /\ status[new] = "unissued"
  <2>1. post[r].target \in Tasks
    BY <1>1 DEF RequestFacts, Mutations
  <2> QED BY <1>1, <1>2, <2>1, SwitchMoves
<1>4. Answer(r, NewTaskAnswer(new))
  BY <1>2, <1>3 DEF NewTaskAnswer, View
<1>5. NewTaskAnswer(new) \in Answers /\ Serves(r, NewTaskAnswer(new))
  BY <1>1, <1>3, NewTaskServes
<1> QED BY <1>1, <1>3, <1>4, <1>5, AnswerKeeps, ThreadsUntouched

(* What the commit tells of a task is safe to show: the tab waits for it, so   *)
(* every other request for this task is one the server has moved past.        *)
LEMMA TaskCommitKeeps == ASSUME BenchInv, NEW r \in Requests, TaskCommit(r) PROVE BenchInv'
<1>1. PICK t \in {post[r].target} :
        /\ Port!Commit(r, t, CommitAs(r))
        /\ Answer(r, IF post[r].kind = "clear" THEN Outcome("cleared")
                     ELSE TurnAnswer(View(t)', Nil))
  BY DEF TaskCommit
<1>2. /\ TaskWorld /\ Alive(r) /\ post[r].kind \in Mutations /\ t \in Tasks
      /\ RequestFacts(r) /\ CallFacts(r)
      /\ UNCHANGED <<threadVars, page, saved>>
  BY <1>1 DEF BenchInv, TabFacts, BenchTypes, TaskWorld, TaskTypes, TaskCommit, Running, Alive,
              RequestFacts
<1>3. PICK to \in {"active", "cancelled", "cleared"} : to = CommitAs(r)
  BY DEF CommitAs
<1>4. PICK v \in Nat : v = version[t]
  BY <1>2 DEF TaskWorld, TaskTypes
<1>5. /\ TasksMove /\ \A x \in Tasks : NoNewHolder(x)
      /\ status'[t] = to /\ version'[t] = v + 1
  BY <1>1, <1>2, <1>3, <1>4, CommitMoves
<1> DEFINE w == [task |-> t, version |-> v + 1, status |-> to]
<1>6. CASE post[r].kind = "clear"
  <2> DEFINE a == Outcome("cleared")
  <2>1. Answer(r, a) /\ a \in Answers /\ a.task = Nil /\ a.thread = Nil /\ a.kind = "cleared"
    BY <1>1, <1>6 DEF Outcome, Answers
  <2> HIDE DEF a
  <2> QED BY <1>2, <1>5, <2>1, EmptyAnswersServe, AnswerKeeps, ThreadsUntouched
<1>7. CASE post[r].kind # "clear"
  <2> DEFINE a == [kind |-> "turn", task |-> w, thread |-> Nil]
  <2>1. w \in Views
    BY <1>2 DEF Views, Port!PortStatus, Port!PortLive, Port!PortEnded
  <2>2. Answer(r, a)
    BY <1>1, <1>5, <1>7 DEF TurnAnswer, View
  <2>3. a \in Answers /\ a.kind = "turn" /\ a.task = w /\ a.thread = Nil
    BY <2>1 DEF Answers
  <2>4. Truthful(w)' /\ w.task = t
    BY <1>5 DEF Truthful, Port!PortLive, Port!PortEnded
  <2>5. ASSUME page.call = r, NEW q \in Requests \ {r}, Loose(q)
        PROVE  Spent(q) \/ t # post[q].target
    <3>1. Spent(q) \/ Shields(page, q)
      BY <2>5 DEF BenchInv, TabFacts, Harmless
    <3>2. ~page.frozen /\ ShownTask(page) # Nil /\ ShownTask(page).task = t
      BY <1>1, <1>2, <1>7, <2>5 DEF CallFacts
    <3> QED BY <3>1, <3>2 DEF Shields
  <2>6. Truthful(a.task)' /\ Issued(a.thread)'
    BY <2>3, <2>4 DEF Issued
  <2> HIDE DEF a, w
  <2>7. page.call = r => Serves(r, a)
    BY <1>7, <2>3, <2>4, <2>5, <2>6 DEF Serves
  <2> QED BY <1>2, <1>5, <2>2, <2>3, <2>7, AnswerKeeps, ThreadsUntouched
<1> QED BY <1>6, <1>7

(* A claim takes the task at the version its request names. *)
LEMMA TaskClaimKeeps == ASSUME BenchInv, NEW r \in Requests, TaskClaim(r) PROVE BenchInv'
<1> DEFINE t == post[r].target
<1>1. /\ TaskWorld /\ post \in [Requests -> Posts] /\ post[r].stage = "sent"
      /\ post[r].kind \in Mutations /\ t \in Tasks /\ RequestFacts(r)
      /\ version[t] = post[r].version /\ Port!Claim(r, t)
      /\ UNCHANGED <<threadVars, page, saved>>
  BY DEF BenchInv, TabFacts, BenchTypes, TaskWorld, TaskTypes, TaskClaim, Sent, Alive, RequestFacts
<1>2. /\ TasksMove /\ \A x \in Tasks \ {t} : NoNewHolder(x)
      /\ status[t] = "active" /\ holders'[t] = {r}
  BY <1>1, ClaimMoves
<1>3. post' = [post EXCEPT ![r] = [post[r] EXCEPT !.stage = "running"]]
  BY DEF TaskClaim
<1>4. post' \in [Requests -> Posts]
  BY <1>1, <1>3 DEF Posts
<1>5. ~Spent(r)
  BY <1>1, <1>2 DEF Spent
<1>6. Taken(r)
  <2>1. post'[r] = [post[r] EXCEPT !.stage = "running"]
    BY <1>1, <1>3
  <2>2. post[r].kind \notin Kinds
    BY <1>1 DEF Mutations, Kinds
  <2> QED BY <1>1, <1>5, <2>1, <2>2 DEF Taken
<1>7. ASSUME NEW q \in Requests \ {r} PROVE Same(q)
  <2>1. post'[q] = post[q] /\ RequestFacts(q)
    BY <1>1, <1>3 DEF BenchInv, TabFacts
  <2>2. KnowsOn
    BY <1>1, ThreadsUntouched
  <2>3. \A x \in Tasks : q \in holders'[x] => q \in holders[x]
    BY <1>2 DEF NoNewHolder
  <2> QED BY <2>1, <2>2, <2>3 DEF Same, KnowsOn, RequestFacts, Alive
<1>8. [Next]_vars
  BY <1>1, ThreadsUntouched
<1> QED BY <1>1, <1>2, <1>4, <1>6, <1>7, <1>8, WorldKeeps DEF Handled

(* Whatever refuses a task request, or breaks its turn off. *)
LEMMA TaskRefusalsKeep ==
  ASSUME BenchInv, NEW r \in Requests, TaskRefused(r) \/ ClaimLost(r) \/ TaskTurnFails(r)
  PROVE  BenchInv'
<1>1. TaskWorld /\ Alive(r) /\ UNCHANGED <<threadVars, page, saved>>
  BY DEF BenchInv, BenchTypes, TaskWorld, TaskTypes, TaskRefused, ClaimLost, TaskTurnFails, Sent,
         Running, Alive
<1>2. Answer(r, Outcome("rejected")) \/ AnswerWithoutTask(r)
  BY DEF TaskRefused, ClaimLost, TaskTurnFails
<1>3. TasksMove /\ \A x \in Tasks : NoNewHolder(x)
  <2>1. CASE UNCHANGED taskVars
    BY <1>1, <2>1, TasksStay
  <2>2. CASE TaskTurnFails(r)
    BY <1>1, <2>2, HoldersGo DEF TaskTurnFails
  <2> QED BY <2>1, <2>2 DEF TaskRefused, ClaimLost
<1> QED BY <1>1, <1>2, <1>3, RefusalKeeps, ThreadsUntouched

-----------------------------------------------------------------------------
(* The handlers of a thread request. *)

LEMMA AskKeeps == ASSUME BenchInv, [Next]_vars, NEW r \in Requests, Ask(r) PROVE BenchInv'
<1>1. /\ TaskWorld /\ Alive(r) /\ post[r].kind = "ask" /\ UNCHANGED <<taskVars, page, saved>>
      /\ ThreadInv
  BY DEF BenchInv, BenchTypes, TaskWorld, TaskTypes, Ask, Sent, Alive
<1>2. TasksMove /\ \A x \in Tasks : NoNewHolder(x)
  BY <1>1, TasksStay
<1>3. CASE Answer(r, TurnAnswer(Nil, Nil)) /\ UNCHANGED threadVars
  <2> DEFINE a == TurnAnswer(Nil, Nil)
  <2>1. Answer(r, a) /\ a \in Answers /\ a.task = Nil /\ a.thread = Nil
    BY <1>3 DEF TurnAnswer, Answers
  <2> HIDE DEF a
  <2> QED BY <1>1, <1>2, <1>3, <2>1, EmptyAnswersServe, AnswerKeeps, ThreadsUntouched
<1>4. ASSUME NEW t \in Threads, Create(t), Answer(r, TurnAnswer(Nil, ThreadView(t)')) PROVE BenchInv'
  <2>1. points \in [Threads -> Point] /\ points' \in [Threads -> Point]
    BY <1>1, ThreadStepInv DEF ThreadInv, TypeOK
  <2>2. points'[t].status \in Open /\ \A x \in Threads \ {t} : points'[x] = points[x]
    BY <1>4, <2>1 DEF Create
  <2>3. KnowsOn
    BY <2>2 DEF KnowsOn, Known, Open
  <2>4. PICK w \in ThreadViews :
          w = [thread |-> t, version |-> points'[t].version, status |-> points'[t].status]
    <3>1. points'[t] \in Point /\ points'[t].version \in Nat
      BY <2>1 DEF Point, MaxVersion
    <3>2. [thread |-> t, version |-> points'[t].version, status |-> points'[t].status]
            \in ThreadViews
      BY <2>2, <3>1 DEF ThreadViews
    <3> QED BY <3>2
  <2> DEFINE a == [kind |-> "turn", task |-> Nil, thread |-> w]
  <2>5. Answer(r, a)
    BY <1>4, <2>4 DEF TurnAnswer, ThreadView
  <2>6. a \in Answers /\ a.kind = "turn" /\ a.task = Nil /\ a.thread = w
    BY DEF Answers
  <2>7. w.thread = t /\ Issued(w)' /\ Truthful(Nil)'
    BY <2>2, <2>4 DEF Issued, Truthful, Open
  <2>8. ASSUME NEW q \in Requests, Loose(q) PROVE t # post[q].target
    <3>1. RequestFacts(q) /\ Alive(q) /\ post[q].kind \in AllKinds \cup {Nil}
      BY <2>8 DEF BenchInv, TabFacts, BenchTypes, Posts, Loose
    <3>2. points[t].status = "unissued"
      BY <1>4 DEF Create
    <3> QED BY <3>1, <3>2, IdsAssumption, NilAssumption DEF RequestFacts, Alive, AllKinds
  <2>9. Truthful(a.task)' /\ Issued(a.thread)'
    BY <2>6, <2>7
  <2> HIDE DEF a
  <2>10. Serves(r, a)
    BY <1>1, <2>6, <2>7, <2>8, <2>9 DEF Serves
  <2> QED BY <1>1, <1>2, <2>3, <2>5, <2>6, <2>10, AnswerKeeps
<1> QED BY <1>3, <1>4 DEF Ask

LEMMA ThreadClaimKeeps ==
  ASSUME BenchInv, [Next]_vars, NEW r \in Requests, ThreadClaim(r)
  PROVE  BenchInv'
<1>t. PICK t \in Threads : t = post[r].target
  BY DEF BenchInv, TabFacts, ThreadClaim, Sent, Alive, RequestFacts
<1>1. /\ TaskWorld /\ ThreadInv /\ post \in [Requests -> Posts] /\ post[r].stage = "sent"
      /\ post[r].kind \in Kinds /\ Claim(r, t, post[r].version, post[r].kind)
      /\ UNCHANGED <<taskVars, page, saved>>
  BY <1>t DEF BenchInv, BenchTypes, TaskWorld, TaskTypes, ThreadClaim, Sent
<1>2. TasksMove /\ \A x \in Tasks : NoNewHolder(x)
  BY <1>1, TasksStay
<1>3. post' = [post EXCEPT ![r] = [post[r] EXCEPT !.stage = "running"]]
  BY DEF ThreadClaim
<1>4. post' \in [Requests -> Posts]
  BY <1>1, <1>3 DEF Posts
<1>5. ~Restart
  <2>1. points \in [Threads -> Point] /\ points[t].status \in Open
    BY <1>1 DEF ThreadInv, TypeOK, Claim, ClaimPoint, Open
  <2>2. points'[t] # NoPoint("lost")
    <3>1. PICK s \in Claimed : points' = [points EXCEPT ![t].status = s, ![t].version = @ + 1]
      BY <1>1 DEF Claim, ClaimPoint, Claimed
    <3>2. points' = [points EXCEPT ![t] =
                       [status |-> s, version |-> points[t].version + 1,
                        expires |-> points[t].expires, optIn |-> points[t].optIn]]
      BY <2>1, <3>1, NextVersion
    <3>3. points'[t].status = s
      BY <2>1, <3>2
    <3> QED BY <3>3 DEF NoPoint, Claimed
  <2> QED BY <1>1, <2>1, <2>2 DEF Restart, Known, Open
<1>6. KnowsOn /\ Known(t) /\ Known(t)'
  <2>1. Known(t)
    BY <1>1 DEF Claim, ClaimPoint, Known
  <2> QED BY <1>1, <1>5, <2>1, ThreadsStayIssued DEF KnowsOn
<1>7. Taken(r)
  <2>1. post'[r] = [post[r] EXCEPT !.stage = "running"]
    BY <1>1, <1>3
  <2>2. ~Spent(r)
    BY <1>1 DEF Spent, Mutations, Kinds
  <2>3. post'[r].target = t
    BY <2>1, <1>t, <1>1 DEF Posts
  <2>4. Known(post[r].target)'
    BY <2>3, <1>6 DEF Known
  <2> QED BY <1>1, <2>1, <2>2, <2>4 DEF Taken
<1>8. ASSUME NEW q \in Requests \ {r} PROVE Same(q)
  BY <1>1, <1>2, <1>3, <1>6, OthersStay
<1> QED BY <1>1, <1>2, <1>4, <1>7, <1>8, WorldKeeps DEF Handled

LEMMA ThreadRefusedKeeps == ASSUME BenchInv, NEW r \in Requests, ThreadRefused(r) PROVE BenchInv'
<1>1. /\ TaskWorld /\ Alive(r) /\ AnswerWithoutTask(r)
      /\ UNCHANGED <<threadVars, taskVars, page, saved>>
  BY DEF BenchInv, BenchTypes, TaskWorld, TaskTypes, ThreadRefused, Sent, Alive
<1>2. TasksMove /\ \A x \in Tasks : NoNewHolder(x)
  BY <1>1, TasksStay
<1> QED BY <1>1, <1>2, RefusalKeeps, ThreadsUntouched

(* A settled thread is shown to the tab that waits for it; every other request *)
(* for this thread was forgotten by a reload.                                  *)
LEMMA ThreadSettleKeeps ==
  ASSUME BenchInv, [Next]_vars, NEW r \in Requests, ThreadSettle(r)
  PROVE  BenchInv'
<1>t. PICK t \in {post[r].target} :
        Answer(r, TurnAnswer(Nil,
           IF points' # points THEN ThreadView(t)'
           ELSE [thread |-> t, version |-> turn[r].version, status |->
                   IF turn[r].kind = "resume" THEN "claimed" ELSE "follow_up_claimed"]))
  BY DEF ThreadSettle
<1>1. /\ TaskWorld /\ ThreadInv /\ Alive(r) /\ RequestFacts(r) /\ CallFacts(r)
      /\ post[r].stage = "running" /\ post[r].kind \in Kinds /\ t \in Threads /\ Known(t)
      /\ Settle(r) /\ r \in Workers /\ UNCHANGED <<taskVars, page, saved>>
  BY <1>t, RequestsAssumption
  DEF BenchInv, TabFacts, BenchTypes, TaskWorld, TaskTypes, ThreadSettle, Running, Alive,
      RequestFacts
<1>2. TasksMove /\ \A x \in Tasks : NoNewHolder(x)
  BY <1>1, TasksStay
<1>3. turn[r] \in Turn /\ turn[r].version \in Nat
  <2>1. turn[r] # Idle
    BY <1>1 DEF Settle, SettleResume, SettleFollowUp, Idle
  <2> QED BY <1>1, <2>1 DEF ThreadInv, TypeOK, Turn, MaxVersion
<1>4. /\ points \in [Threads -> Point] /\ points' \in [Threads -> Point]
  BY <1>1, ThreadStepInv DEF ThreadInv, TypeOK
<1>5. ~Restart \/ UNCHANGED points
  <2>1. ASSUME UNCHANGED points PROVE ~Restart \/ UNCHANGED points
    BY <2>1
  <2>2. ASSUME points' # points PROVE ~Restart
    <3>1. turn[r].thread \in Threads
      BY <1>3 DEF Turn
    <3>2. PICK s \in {"resolved", "follow_up_ready"} :
            points' = [points EXCEPT ![turn[r].thread].status = s,
                                     ![turn[r].thread].version = @ + 1]
      BY <1>1, <2>2 DEF Settle, SettleResume, SettleFollowUp, Resolve, Promote, Advance
    <3>3. points' = [points EXCEPT ![turn[r].thread] =
                       [status |-> s, version |-> points[turn[r].thread].version + 1,
                        expires |-> points[turn[r].thread].expires,
                        optIn |-> points[turn[r].thread].optIn]]
      BY <1>4, <3>1, <3>2, NextVersion
    <3>4. points'[turn[r].thread].status = s
      BY <1>4, <3>1, <3>3
    <3>5. Known(turn[r].thread)
      BY <1>1, <2>2
      DEF Settle, SettleResume, SettleFollowUp, Resolve, Promote, Stands, Known, Claimed
    <3> QED BY <3>1, <3>4, <3>5 DEF Restart, NoPoint
  <2> QED BY <2>1, <2>2
<1>6. KnowsOn
  BY <1>1, <1>5, ThreadsStayIssued DEF KnowsOn, Known
<1>7. PICK w \in ThreadViews : Answer(r, TurnAnswer(Nil, w)) /\ w.thread = t
  <2>1. CASE points' # points
    <3>1. /\ points'[t].version \in Nat
          /\ points'[t].status \in Open \cup Claimed \cup Ended
      BY <1>1, <1>4, <1>6 DEF Point, MaxVersion, KnowsOn, Known
    <3>2. [thread |-> t, version |-> points'[t].version, status |-> points'[t].status]
            \in ThreadViews
      BY <1>1, <3>1 DEF ThreadViews
    <3>3. Answer(r, TurnAnswer(Nil, [thread |-> t, version |-> points'[t].version,
                                     status |-> points'[t].status]))
      BY <1>t, <2>1 DEF ThreadView
    <3> QED BY <3>2, <3>3
  <2>2. CASE points' = points
    <3> DEFINE s == IF turn[r].kind = "resume" THEN "claimed" ELSE "follow_up_claimed"
    <3>1. s \in Open \cup Claimed \cup Ended
      BY DEF Claimed
    <3>2. Answer(r, TurnAnswer(Nil, [thread |-> t, version |-> turn[r].version, status |-> s]))
      BY <1>t, <2>2
    <3> HIDE DEF s
    <3>3. [thread |-> t, version |-> turn[r].version, status |-> s] \in ThreadViews
      BY <1>1, <1>3, <3>1 DEF ThreadViews
    <3> QED BY <3>2, <3>3
  <2> QED BY <2>1, <2>2
<1> DEFINE a == [kind |-> "turn", task |-> Nil, thread |-> w]
<1>8. Answer(r, a) /\ a \in Answers /\ a.kind = "turn" /\ a.task = Nil /\ a.thread = w
  BY <1>7 DEF TurnAnswer, Answers
<1>9. Issued(w)' /\ Truthful(Nil)'
  BY <1>1, <1>6, <1>7 DEF Issued, Truthful, KnowsOn, Known
<1>10. ASSUME page.call = r, NEW q \in Requests \ {r}, Loose(q)
       PROVE  t # post[q].target
  <2>1. Spent(q) \/ Shields(page, q)
    BY <1>10 DEF BenchInv, TabFacts, Harmless
  <2>2. ~page.frozen /\ page.thread # Nil /\ page.thread.thread = t
    BY <1>1, <1>t, <1>10 DEF CallFacts, Kinds
  <2>3. RequestFacts(q) /\ Alive(q)
    BY <1>10 DEF BenchInv, TabFacts, Loose
  <2> QED BY <1>1, <2>1, <2>2, <2>3, IdsAssumption DEF Shields, Spent, RequestFacts
<1>11. Truthful(a.task)' /\ Issued(a.thread)'
  BY <1>8, <1>9
<1>12. post[r].kind # "clear"
  BY <1>1 DEF Kinds
<1> HIDE DEF a
<1>13. page.call = r => Serves(r, a)
  BY <1>7, <1>8, <1>10, <1>11, <1>12 DEF Serves
<1> QED BY <1>1, <1>2, <1>6, <1>8, <1>13, AnswerKeeps

-----------------------------------------------------------------------------
(* Requests that go away, and the rest of the world. *)

LEMMA RequestLostKeeps == ASSUME BenchInv, NEW r \in Requests, RequestLost(r) PROVE BenchInv'
<1>1. /\ TaskWorld /\ post \in [Requests -> Posts]
      /\ UNCHANGED <<threadVars, taskVars, page, saved>>
  BY DEF BenchInv, BenchTypes, TaskWorld, TaskTypes, RequestLost
<1>2. TasksMove /\ \A x \in Tasks : NoNewHolder(x)
  BY <1>1, TasksStay
<1>3. post' = [post EXCEPT ![r] = Free] /\ page.call # r
  BY DEF RequestLost
<1>4. Free \in Posts
  BY NilAssumption DEF Free, Posts
<1>5. \A q \in Requests : Handled(q)
  BY <1>1, <1>2, <1>3, OthersStay, ThreadsUntouched DEF Handled, Ends
<1>6. post' \in [Requests -> Posts]
  BY <1>1, <1>3, <1>4
<1> QED BY <1>1, <1>2, <1>5, <1>6, ThreadsUntouched, WorldKeeps

LEMMA RestartKeeps == ASSUME BenchInv, [Next]_vars, ServerRestarts PROVE BenchInv'
<1> DEFINE a == Outcome("none")
<1>1. /\ TaskWorld /\ post \in [Requests -> Posts] /\ UNCHANGED <<page, saved>>
      /\ UNCHANGED <<status, version>> /\ holders' = [t \in Tasks |-> {}]
  BY DEF BenchInv, BenchTypes, TaskWorld, TaskTypes, ServerRestarts
<1>2. TasksMove /\ \A x \in Tasks : NoNewHolder(x)
  <2>1. holders' = [t \in Tasks |-> holders[t] \ Requests]
    BY <1>1 DEF TaskWorld, TaskTypes
  <2> QED BY <1>1, <2>1, HoldersGo
<1>3. Free \in Posts /\ a \in Answers /\ a.kind = "none" /\ a.task = Nil /\ a.thread = Nil
  BY NilAssumption DEF Free, Posts, Outcome, Answers
<1> HIDE DEF a
<1>4. ASSUME NEW r \in Requests PROVE post'[r] \in Posts /\ Handled(r)
  <2>1. CASE post[r].stage # "running"
    <3>1. post'[r] = post[r]
      BY <1>1, <2>1 DEF ServerRestarts
    <3>2. RequestFacts(r)
      BY DEF BenchInv, TabFacts
    <3>3. Same(r)
      BY <1>2, <2>1, <3>1, <3>2 DEF Same, RequestFacts, NoNewHolder
    <3> QED BY <1>1, <3>1, <3>3 DEF Handled
  <2>2. CASE post[r].stage = "running" /\ page.call # r
    <3>1. post'[r] = Free
      BY <1>1, <2>2 DEF ServerRestarts
    <3> QED BY <1>3, <2>2, <3>1 DEF Handled, Ends
  <2>3. CASE post[r].stage = "running" /\ page.call = r
    <3>1. post'[r] = [post[r] EXCEPT !.stage = "done", !.answer = a]
      BY <1>1, <2>3 DEF ServerRestarts, a
    <3>2. post'[r] \in Posts
      BY <1>1, <1>3, <3>1 DEF Posts
    <3>3. Fits(r, a)'
      BY <1>3 DEF Fits, Truthful, Issued
    <3>4. Answered(r, a)
      BY <2>3, <3>1, <3>3 DEF Answered, Alive
    <3> QED BY <1>3, <3>2, <3>4 DEF Handled
  <2> QED BY <2>1, <2>2, <2>3
<1>5. post' \in [Requests -> Posts]
  BY <1>4 DEF ServerRestarts
<1> QED BY <1>1, <1>2, <1>4, <1>5, WorldKeeps

LEMMA OthersKeep == ASSUME BenchInv, [Next]_vars, Others PROVE BenchInv'
<1>1. /\ TaskWorld /\ ThreadInv /\ post \in [Requests -> Posts]
      /\ UNCHANGED <<taskVars, page, saved, post>>
  BY DEF BenchInv, BenchTypes, TaskWorld, TaskTypes, Others
<1>2. TasksMove /\ \A x \in Tasks : NoNewHolder(x)
  BY <1>1, TasksStay
<1>3. KnowsOn
  <2>1. WhileUp
    BY DEF Others, WhileUp
  <2> QED BY <1>1, <2>1, ThreadsStayKnown DEF KnowsOn, Known
<1>4. \A q \in Requests : Handled(q)
  BY <1>1, <1>2, <1>3, OthersStay DEF Handled
<1> QED BY <1>1, <1>2, <1>4, WorldKeeps

LEMMA LapseKeeps == ASSUME BenchInv, NEW t \in Tasks, TaskLapses(t) PROVE BenchInv'
<1>1. /\ TaskWorld /\ post \in [Requests -> Posts] /\ Port!Lapse({t})
      /\ UNCHANGED <<threadVars, page, saved, post>>
  BY DEF BenchInv, BenchTypes, TaskWorld, TaskTypes, TaskLapses
<1>2. TasksMove /\ \A x \in Tasks : NoNewHolder(x)
  BY <1>1, LapseMoves
<1>3. \A q \in Requests : Handled(q)
  BY <1>1, <1>2, OthersStay, ThreadsUntouched DEF Handled
<1> QED BY <1>1, <1>2, <1>3, WorldKeeps, ThreadsUntouched

-----------------------------------------------------------------------------
(* The tab's steps.  The server stands still. *)

(* A request for a task is a mutation of it. *)
LEMMA TaskTargets ==
  ASSUME BenchInv, NEW q \in Requests, Alive(q), post[q].target \in Tasks
  PROVE  post[q].kind \in Mutations /\ post[q].version \in Nat
<1>1. RequestFacts(q) /\ post[q] \in Posts
  BY DEF BenchInv, TabFacts, BenchTypes
<1>2. post[q].kind \in AllKinds /\ post[q].version \in Nat
  BY <1>1 DEF RequestFacts, Alive, Posts
<1> QED BY <1>1, <1>2, IdsAssumption, NilAssumption DEF AllKinds, RequestFacts

(* Nothing can be done to a task that has ended. *)
LEMMA EndedSpends ==
  ASSUME BenchInv, NEW q \in Requests, Alive(q), NEW w \in Views, Truthful(w),
         w.status \in Port!PortEnded, w.task = post[q].target
  PROVE  Spent(q)
<1>1. w.task \in Tasks /\ w # Nil /\ post[q].kind \in Mutations
  BY TaskTargets, NilAssumption DEF Views
<1>2. status[w.task] \in Port!PortEnded /\ TaskFacts(w.task)
  BY <1>1 DEF Truthful, BenchInv
<1> QED BY <1>1, <1>2 DEF Spent, TaskFacts, Port!PortEnded

(* What a page p may be, with the session s behind it. *)
Becomes(p, s) ==
    /\ p \in Pages /\ s \in Sessions
    /\ page' = p /\ (saved' = s \/ (saved' = Nil /\ s = Fresh(p.mode)))
    /\ Coherent(p) /\ Coherent(s)
    /\ s.mode = p.mode /\ s.acked = p.acked /\ s.recovered = p.recovered /\ s.thread = p.thread
    /\ s.frozen => p.frozen
    /\ p.call = "status" => p.from # Nil /\ StatusIdentity(p.from) # Nil
    /\ p.from # Nil => p.call = "status" /\ Coherent(p.from)

(* What becomes of a request: it is over, or the page that waits for it, or no *)
(* longer does, fits it as it was.                                             *)
Over(r, p) == post'[r] = Free /\ p.call # r

Carried(r, p) ==
    /\ post'[r] \in Posts
    /\ post'[r].stage = post[r].stage /\ post'[r].kind = post[r].kind
    /\ post'[r].target = post[r].target /\ post'[r].version = post[r].version
    /\ post'[r].answer = post[r].answer
    /\ post[r].forgotten => post'[r].forgotten
    /\ post[r].stage = "done" => p.call = r
    /\ p.call = r =>
         /\ post[r].stage # "free"
         /\ post[r].kind # "clear" => ~p.frozen
         /\ Alive(r) /\ post[r].kind \in Mutations =>
              \/ /\ ShownTask(p) # Nil /\ ShownTask(p).task = post[r].target
                 /\ ShownTask(p).version = post[r].version
              \/ post[r].kind = "clear" /\ StatusIdentity(p) = Nil
         /\ Alive(r) /\ post[r].kind \in Kinds =>
              p.thread # Nil /\ p.thread.thread = post[r].target
    /\ Loose(r) /\ ~post'[r].forgotten =>
         /\ p.call # r => Spent(r) \/ Shields(p, r)
         /\ p.from # Nil => Spent(r) \/ Shields(p.from, r)

Posted(r, p) ==
    /\ p.call = r /\ post'[r].stage = "sent"
    /\ RequestFacts(r)' /\ CallFacts(r)' /\ Harmless(r)'

LEMMA TabKeeps ==
  ASSUME BenchInv, UNCHANGED <<threadVars, taskVars>>, NEW p, NEW s, Becomes(p, s),
         post' \in [Requests -> Posts],
         \A r \in Requests : Over(r, p) \/ Carried(r, p) \/ Posted(r, p)
  PROVE  BenchInv'
<1>1. ThreadInv' /\ \A t \in Tasks : TaskFacts(t)'
  BY DEF BenchInv, threadVars, taskVars, ThreadInv, TypeOK, TaskFacts
<1>2. saved' \in Sessions \cup {Nil} /\ page' \in Pages
  BY DEF Becomes
<1>3. BenchTypes'
  BY <1>2 DEF BenchInv, BenchTypes, taskVars
<1>4. \A w : (Truthful(w)' <=> Truthful(w)) /\ (Issued(w)' <=> Issued(w))
  BY DEF Truthful, Issued, threadVars, taskVars
<1>5. Coherent(page)' /\ StatusCallFacts'
  BY <1>4 DEF Becomes, Coherent, StatusCallFacts, StatusIdentity
<1>6. Session' = s
  BY NilAssumption DEF Becomes, Session
<1>7. SessionFacts'
  BY <1>4, <1>6 DEF Becomes, SessionFacts, Coherent
<1>8. ASSUME NEW r \in Requests
      PROVE  /\ RequestFacts(r) /\ post[r] \in Posts
             /\ post[r].stage = "done" => Fits(r, post[r].answer)
  BY DEF BenchInv, BenchTypes, TabFacts
<1>9. ASSUME NEW r \in Requests, Loose(r)', ~Posted(r, p) PROVE Carried(r, p) /\ Loose(r)
  <2>1. CASE Carried(r, p)
    BY <2>1, <1>9 DEF Carried, Loose, Alive
  <2>2. CASE Over(r, p)
    BY <2>2, <1>9 DEF Over, Loose, Alive, Free
  <2> QED BY <1>9, <2>1, <2>2
<1>10. ASSUME NEW r \in Requests, Over(r, p)
       PROVE  /\ RequestFacts(r)' /\ CallFacts(r)' /\ Harmless(r)'
              /\ post'[r].stage # "done"
  <2>1. post'[r].stage = "free" /\ page'.call # r /\ ~Alive(r)'
    BY <1>10 DEF Over, Free, Becomes, Alive
  <2> QED BY <2>1 DEF RequestFacts, CallFacts, Harmless, Loose
<1>11. ASSUME NEW r \in Requests, Carried(r, p), ~Posted(r, p)
       PROVE  /\ RequestFacts(r)' /\ CallFacts(r)' /\ Harmless(r)'
              /\ post'[r].stage = "done" => Fits(r, post[r].answer)'
  <2>1. RequestFacts(r)'
    BY <1>8, <1>11 DEF Carried, RequestFacts, Alive, Becomes, threadVars, taskVars, Known
  <2>2. CallFacts(r)'
    BY <1>11 DEF Carried, CallFacts, Becomes, Alive, ShownTask, StatusIdentity
  <2>3. Spent(r)' <=> Spent(r)
    BY <1>11 DEF Carried, Spent, taskVars
  <2>4. Harmless(r)'
    <3>1. Shields(page, r)' <=> Shields(p, r)
      BY <1>11 DEF Carried, Becomes, Shields, ShownTask, StatusIdentity
    <3>2. Shields(page.from, r)' <=> Shields(p.from, r)
      BY <1>11 DEF Carried, Becomes, Shields, ShownTask, StatusIdentity
    <3>3. Loose(r)' => Loose(r) /\ ~post'[r].forgotten
      BY <1>9, <1>11 DEF Loose
    <3> QED BY <2>3, <3>1, <3>2, <3>3, <1>11 DEF Carried, Becomes, Harmless
  <2>5. ASSUME post'[r].stage = "done" PROVE Fits(r, post[r].answer)'
    <3>1. Fits(r, post[r].answer) /\ post'[r].answer = post[r].answer
          /\ post'[r].kind = post[r].kind
      BY <2>5, <1>8, <1>11 DEF Carried
    <3>2. ASSUME NEW q \in Requests, Loose(q)'
          PROVE  Loose(q) /\ post'[q].target = post[q].target /\ (Spent(q)' <=> Spent(q))
      <4>1. ~Posted(q, p)
        BY <2>5, <1>11 DEF Carried, Posted
      <4> QED BY <3>2, <4>1, <1>9 DEF Carried, Spent, taskVars
    <3> QED BY <3>1, <3>2, <1>4 DEF Fits
  <2> QED BY <2>1, <2>2, <2>4, <2>5
<1>12. ASSUME NEW r \in Requests, Posted(r, p)
       PROVE  /\ RequestFacts(r)' /\ CallFacts(r)' /\ Harmless(r)'
              /\ post'[r].stage # "done"
  BY <1>12 DEF Posted
<1> QED BY <1>1, <1>3, <1>5, <1>7, <1>10, <1>11, <1>12 DEF BenchInv, TabFacts

(* The page and its session as they are. *)
LEMMA TabAsItIs ==
  ASSUME BenchInv
  PROVE  /\ page \in Pages /\ Session \in Sessions /\ post \in [Requests -> Posts]
         /\ saved = Session \/ (saved = Nil /\ Session = Fresh(page.mode))
         /\ Coherent(page) /\ SessionFacts /\ StatusCallFacts
         /\ \A r \in Requests :
              /\ RequestFacts(r) /\ CallFacts(r) /\ Harmless(r)
              /\ post[r].stage = "done" => Fits(r, post[r].answer)
<1>1. /\ page \in Pages /\ saved \in Sessions \cup {Nil} /\ post \in [Requests -> Posts]
  BY DEF BenchInv, BenchTypes
<1>2. Fresh(page.mode) \in Sessions
  BY <1>1 DEF Pages, Sessions, Fresh
<1> QED BY <1>1, <1>2 DEF Session, BenchInv, TabFacts

(* What may be asked of the page shown. *)
Asks(kind, target, v) ==
    LET t == ShownTask(page) IN
    \/ kind \in {"start", "ask"} /\ target = Nil /\ v = 0 /\ ~page.frozen
    \/ /\ kind \in Mutations /\ t # Nil /\ target = t.task /\ v = t.version
       /\ kind # "clear" => ~page.frozen
    \/ /\ kind \in Kinds /\ page.thread # Nil /\ ~page.frozen
       /\ target = page.thread.thread /\ v = page.thread.version

LEMMA SendKeeps ==
  ASSUME BenchInv, NEW r \in Requests, NEW kind, NEW target, NEW v,
         Asks(kind, target, v), Send(r, kind, target, v)
  PROVE  BenchInv'
<1>1. /\ page.call = Nil /\ post[r].stage = "free" /\ page' = [page EXCEPT !.call = r]
      /\ UNCHANGED <<saved, threadVars, taskVars>>
  BY DEF Send
<1>2. PICK p \in Pages : p = page'
  BY <1>1, TabAsItIs DEF Pages
<1>3. /\ p.mode = page.mode /\ p.frozen = page.frozen /\ p.acked = page.acked
      /\ p.recovered = page.recovered /\ p.thread = page.thread /\ p.call = r
      /\ p.from = page.from
  BY <1>1, <1>2, TabAsItIs DEF Pages
<1>4. page.from = Nil /\ p.call # "status" /\ \A q \in Requests : page.call # q
  BY <1>1, <1>3, TabAsItIs, NilAssumption, RequestsAssumption DEF StatusCallFacts
<1>5. PICK s \in Sessions : s = Session
  BY TabAsItIs
<1>6. Becomes(p, s)
  <2>1. Coherent(p)
    BY <1>3, TabAsItIs DEF Coherent
  <2> QED BY <1>1, <1>2, <1>3, <1>4, <1>5, <2>1, TabAsItIs DEF Becomes, SessionFacts
<1>7. ShownTask(page) \in Views \cup {Nil} /\ page.thread \in ThreadViews \cup {Nil}
      /\ ShownTask(p) = ShownTask(page) /\ StatusIdentity(p) = StatusIdentity(page)
  BY <1>3, TabAsItIs DEF Pages, ShownTask, StatusIdentity
<1>8. Truthful(ShownTask(page)) /\ Issued(page.thread)
  BY TabAsItIs DEF Coherent, ShownTask, Truthful
<1>9. ASSUME kind \in Mutations
      PROVE  /\ ShownTask(page) # Nil /\ target = ShownTask(page).task
             /\ v = ShownTask(page).version
             /\ target \in Tasks /\ v \in Nat /\ 1 <= v /\ v <= version[target]
  <2>1. /\ ShownTask(page) # Nil /\ target = ShownTask(page).task
        /\ v = ShownTask(page).version
    BY <1>9 DEF Asks, Mutations, Kinds
  <2> QED BY <2>1, <1>7, <1>8 DEF Views, Truthful
<1>10. ASSUME kind \in Kinds
       PROVE  /\ page.thread # Nil /\ target = page.thread.thread
              /\ target \in Threads /\ v \in Nat /\ points[target].status # "unissued"
  <2>1. page.thread # Nil /\ target = page.thread.thread /\ v = page.thread.version
    BY <1>10 DEF Asks, Mutations, Kinds
  <2> QED BY <2>1, <1>7, <1>8 DEF ThreadViews, Issued
<1>11. kind \in {"start", "ask"} \/ kind \in Mutations \/ kind \in Kinds
  BY DEF Asks
<1>12. PICK x \in Posts :
         /\ x = [Free EXCEPT !.stage = "sent", !.kind = kind, !.target = target, !.version = v]
         /\ x.stage = "sent" /\ x.kind = kind /\ x.target = target /\ x.version = v
  <2>1. target \in Tasks \cup Threads \cup {Nil} /\ v \in Nat
    BY <1>9, <1>10, <1>11 DEF Asks, Mutations, Kinds
  <2>2. [Free EXCEPT !.stage = "sent", !.kind = kind, !.target = target, !.version = v] \in Posts
    BY <1>11, <2>1 DEF Posts, AllKinds, Free
  <2> QED BY <2>2 DEF Free
<1>13. post' = [post EXCEPT ![r] = x]
  BY <1>12, Zenon DEF Send
<1>14. post' \in [Requests -> Posts] /\ post'[r] = x
  BY <1>13, TabAsItIs
<1>15. Posted(r, p)
  <2>1. /\ post'[r].stage = "sent" /\ post'[r].kind = kind /\ post'[r].target = target
        /\ post'[r].version = v /\ page' = p
    BY <1>2, <1>12, <1>14
  <2>2. kind \in {"start", "ask"} => target = Nil /\ ~page.frozen
    BY DEF Asks, Mutations, Kinds
  <2>3. kind # "clear" => ~page.frozen
    BY DEF Asks
  <2>4. RequestFacts(r)'
    <3>1. kind \in AllKinds
      BY <1>11 DEF AllKinds
    <3> QED BY <1>1, <1>9, <1>10, <2>1, <2>2, <3>1 DEF RequestFacts, Alive, threadVars, taskVars
  <2>5. CallFacts(r)'
    BY <1>3, <1>7, <1>9, <1>10, <2>1, <2>3 DEF CallFacts, Alive, ShownTask, StatusIdentity
  <2> QED BY <1>3, <1>4, <2>1, <2>4, <2>5 DEF Harmless, Posted
<1>16. \A q \in Requests \ {r} : Carried(q, p)
  <2> SUFFICES ASSUME NEW q \in Requests \ {r} PROVE Carried(q, p)
    OBVIOUS
  <2>1. post'[q] = post[q] /\ p.call # q /\ page.call # q /\ post[q] \in Posts
    BY <1>3, <1>4, <1>13, TabAsItIs
  <2>2. Shields(page, q) => Shields(p, q)
    BY <1>3, <1>7 DEF Shields
  <2>3. RequestFacts(q) /\ Harmless(q)
    BY TabAsItIs
  <2> QED BY <1>3, <1>4, <2>1, <2>2, <2>3 DEF Carried, RequestFacts, Harmless
<1> QED BY <1>1, <1>6, <1>14, <1>15, <1>16, TabKeeps

LEMMA SubmitsKeep ==
  ASSUME BenchInv, NEW r \in Requests,
         SubmitTask(r) \/ SubmitLegacy(r) \/ ClearCurrentTask(r)
  PROVE  BenchInv'
<1>1. PICK kind, target, v : Asks(kind, target, v) /\ Send(r, kind, target, v)
  <2>1. CASE SubmitTask(r)
    <3>1. CASE ShownTask(page) = Nil /\ Send(r, "start", Nil, 0)
      BY <2>1, <3>1 DEF SubmitTask, Asks
    <3>2. ASSUME ShownTask(page) # Nil, NEW kind \in Mutations \ {"clear"},
                 Send(r, kind, ShownTask(page).task, ShownTask(page).version)
          PROVE  \E k, target, v : Asks(k, target, v) /\ Send(r, k, target, v)
      <4>1. Asks(kind, ShownTask(page).task, ShownTask(page).version)
        BY <2>1, <3>2 DEF SubmitTask, Asks
      <4> QED BY <3>2, <4>1
    <3> QED BY <2>1, <3>1, <3>2 DEF SubmitTask
  <2>2. CASE SubmitLegacy(r)
    <3> DEFINE t == page.thread
    <3>1. CASE t # Nil /\ Send(r, "resume", t.thread, t.version)
      <4>1. Asks("resume", t.thread, t.version)
        BY <2>2, <3>1 DEF SubmitLegacy, Asks, Kinds
      <4> QED BY <3>1, <4>1
    <3>2. CASE t # Nil /\ Send(r, "follow_up", t.thread, t.version)
      <4>1. Asks("follow_up", t.thread, t.version)
        BY <2>2, <3>2 DEF SubmitLegacy, Asks, Kinds
      <4> QED BY <3>2, <4>1
    <3>3. CASE Send(r, "ask", Nil, 0)
      <4>1. Asks("ask", Nil, 0)
        BY <2>2, <3>3 DEF SubmitLegacy, Asks
      <4> QED BY <3>3, <4>1
    <3> QED BY <2>2, <3>1, <3>2, <3>3 DEF SubmitLegacy
  <2>3. CASE ClearCurrentTask(r)
    <3>1. Asks("clear", ShownTask(page).task, ShownTask(page).version)
      BY <2>3 DEF ClearCurrentTask, Asks, Mutations
    <3> QED BY <2>3, <3>1 DEF ClearCurrentTask
  <2> QED BY <2>1, <2>2, <2>3
<1> QED BY <1>1, SendKeeps

(* A page whose status is asked for is a page to go on from. *)
LEMMA CheckKeeps == ASSUME BenchInv, CheckTaskStatus PROVE BenchInv'
<1>1. /\ page.frozen /\ page.call = Nil /\ StatusIdentity(page) # Nil
      /\ page' = [page EXCEPT !.call = "status", !.from = page]
      /\ UNCHANGED <<saved, post, threadVars, taskVars>>
  BY DEF CheckTaskStatus
<1>2. page.from = Nil /\ \A q \in Requests : page.call # q /\ "status" # q
  BY <1>1, TabAsItIs, NilAssumption, RequestsAssumption DEF StatusCallFacts
<1>3. PICK f \in Froms : f = page
  BY <1>1, <1>2, TabAsItIs DEF Pages, Froms
<1>4. PICK p \in Pages : p = page'
  BY <1>1, <1>3, TabAsItIs DEF Pages
<1>5. /\ p.mode = page.mode /\ p.frozen = page.frozen /\ p.acked = page.acked
      /\ p.recovered = page.recovered /\ p.thread = page.thread /\ p.call = "status"
      /\ p.from = page
  BY <1>1, <1>4, TabAsItIs DEF Pages
<1>6. PICK s \in Sessions : s = Session
  BY TabAsItIs
<1>7. page # Nil
  BY <1>3, NilAssumption DEF Froms, Sessions
<1>8. Becomes(p, s)
  <2>1. Coherent(p)
    BY <1>5, TabAsItIs DEF Coherent
  <2> QED BY <1>1, <1>4, <1>5, <1>6, <1>7, <2>1, TabAsItIs DEF Becomes, SessionFacts
<1>9. \A q \in Requests : Carried(q, p)
  <2> SUFFICES ASSUME NEW q \in Requests PROVE Carried(q, p)
    OBVIOUS
  <2>1. post'[q] = post[q] /\ post[q] \in Posts /\ p.call # q /\ page.call # q
    BY <1>1, <1>2, <1>5, TabAsItIs
  <2>2. Shields(page, q) => Shields(p, q)
    BY <1>5 DEF Shields, ShownTask, StatusIdentity
  <2>3. RequestFacts(q) /\ Harmless(q)
    BY TabAsItIs
  <2> QED BY <1>5, <2>1, <2>2, <2>3 DEF Carried, RequestFacts, Harmless
<1> QED BY <1>1, <1>8, <1>9, TabAsItIs, TabKeeps

LEMMA StatusLostKeeps == ASSUME BenchInv, StatusLost PROVE BenchInv'
<1>1. /\ page.call = "status" /\ page' = [page EXCEPT !.call = Nil, !.from = Nil]
      /\ UNCHANGED <<saved, post, threadVars, taskVars>>
  BY DEF StatusLost, Done
<1>2. \A q \in Requests : page.call # q
  BY <1>1, RequestsAssumption
<1>3. PICK p \in Pages : p = page'
  BY <1>1, TabAsItIs DEF Pages
<1>4. /\ p.mode = page.mode /\ p.frozen = page.frozen /\ p.acked = page.acked
      /\ p.recovered = page.recovered /\ p.thread = page.thread /\ p.call = Nil
      /\ p.from = Nil
  BY <1>1, <1>3, TabAsItIs DEF Pages
<1>5. PICK s \in Sessions : s = Session
  BY TabAsItIs
<1>6. Becomes(p, s)
  <2>1. Coherent(p)
    BY <1>4, TabAsItIs DEF Coherent
  <2> QED BY <1>1, <1>3, <1>4, <1>5, <2>1, NilAssumption, TabAsItIs DEF Becomes, SessionFacts
<1>7. \A q \in Requests : Carried(q, p)
  <2> SUFFICES ASSUME NEW q \in Requests PROVE Carried(q, p)
    OBVIOUS
  <2>1. post'[q] = post[q] /\ post[q] \in Posts /\ p.call # q /\ page.call # q
    BY <1>1, <1>2, <1>4, NilAssumption, TabAsItIs
  <2>2. Shields(page, q) => Shields(p, q)
    BY <1>4 DEF Shields, ShownTask, StatusIdentity
  <2>3. RequestFacts(q) /\ Harmless(q)
    BY TabAsItIs
  <2> QED BY <1>4, <2>1, <2>2, <2>3 DEF Carried, RequestFacts, Harmless
<1> QED BY <1>1, <1>6, <1>7, TabAsItIs, TabKeeps

(* An empty page, and the session without one, shield from everything. *)
LEMMA FreshFacts ==
  ASSUME NEW mode \in Modes
  PROVE  /\ Fresh(mode) \in Sessions /\ Fresh(mode) \in Pages
         /\ Fresh(mode).mode = mode /\ Fresh(mode).frozen = FALSE
         /\ Fresh(mode).acked = Nil /\ Fresh(mode).recovered = Nil /\ Fresh(mode).thread = Nil
         /\ Fresh(mode).call = Nil /\ Fresh(mode).from = Nil
         /\ Coherent(Fresh(mode))
  BY DEF Fresh, Sessions, Pages, Coherent, Truthful, Issued

LEMMA StartFreshKeeps == ASSUME BenchInv, StartFresh PROVE BenchInv'
<1>1. /\ page.frozen /\ saved' = Nil
      /\ page' = [Fresh(page.mode) EXCEPT !.call = page.call, !.from = page.from]
      /\ UNCHANGED <<post, threadVars, taskVars>>
  BY DEF StartFresh
<1>2. page.mode \in Modes
  BY TabAsItIs DEF Pages
<1>3. PICK p \in Pages : p = page'
  BY <1>1, <1>2, TabAsItIs, FreshFacts DEF Pages
<1>4. /\ p.mode = page.mode /\ ~p.frozen /\ p.acked = Nil /\ p.recovered = Nil
      /\ p.thread = Nil /\ p.call = page.call /\ p.from = page.from
  BY <1>1, <1>3 DEF Fresh
<1>5. PICK s \in Sessions : s = Fresh(page.mode)
  BY <1>2, FreshFacts
<1>6. Becomes(p, s)
  <2>1. Coherent(p)
    BY <1>4 DEF Coherent, Truthful, Issued
  <2>2. /\ s.mode = p.mode /\ s.acked = p.acked /\ s.recovered = p.recovered
        /\ s.thread = p.thread /\ ~s.frozen /\ Coherent(s)
    BY <1>2, <1>4, <1>5, FreshFacts
  <2> QED BY <1>1, <1>3, <1>4, <1>5, <2>1, <2>2, TabAsItIs DEF Becomes, StatusCallFacts
<1>7. \A q \in Requests : Carried(q, p)
  <2> SUFFICES ASSUME NEW q \in Requests PROVE Carried(q, p)
    OBVIOUS
  <2>1. post'[q] = post[q] /\ post[q] \in Posts
    BY <1>1, TabAsItIs
  <2>2. Shields(p, q) /\ StatusIdentity(p) = Nil
    BY <1>4 DEF Shields, ShownTask, StatusIdentity
  <2>3. RequestFacts(q) /\ Harmless(q)
    BY TabAsItIs
  <2>4. page.call = q => post[q].stage # "free" /\ post[q].kind = "clear"
    BY <1>1, TabAsItIs DEF CallFacts
  <2>5. "clear" \notin Kinds
    BY DEF Kinds
  <2> QED BY <1>4, <2>1, <2>2, <2>3, <2>4, <2>5 DEF Carried, RequestFacts, Harmless
<1> QED BY <1>1, <1>6, <1>7, TabAsItIs, TabKeeps

(* A reload forgets every request the page it brings back is not frozen for.   *)
LEMMA ReloadKeeps == ASSUME BenchInv, Reload PROVE BenchInv'
<1>1. /\ page' = Session /\ UNCHANGED <<saved, threadVars, taskVars>>
      /\ post' = [r \in Requests |->
                    IF post[r].stage \in {"free", "done"} THEN Free
                    ELSE [post[r] EXCEPT !.forgotten = @ \/ ~page'.frozen]]
  BY DEF Reload, Session
<1>2. PICK p \in Sessions : p = Session
  BY TabAsItIs
<1>3. /\ p.mode = page.mode /\ p.acked = page.acked /\ p.recovered = page.recovered
      /\ p.thread = page.thread /\ (p.frozen => page.frozen) /\ p.frozen \in BOOLEAN
      /\ p.call = Nil /\ p.from = Nil /\ Coherent(p)
  BY <1>2, TabAsItIs DEF SessionFacts, Sessions
<1>4. p \in Pages
  BY <1>2 DEF Sessions, Pages
<1>5. Becomes(p, p)
  BY <1>1, <1>2, <1>3, <1>4, NilAssumption, TabAsItIs DEF Becomes
<1>6. ASSUME NEW q \in Requests, post[q].stage \in {"free", "done"}
      PROVE  post'[q] \in Posts /\ Over(q, p)
  <2>1. Free \in Posts
    BY NilAssumption DEF Free, Posts
  <2> QED BY <1>1, <1>3, <1>6, <2>1, NilAssumption DEF Over
<1>7. ASSUME NEW q \in Requests, post[q].stage \notin {"free", "done"}
      PROVE  post'[q] \in Posts /\ Carried(q, p)
  <2>1. post[q] \in Posts
    BY TabAsItIs
  <2>2. PICK b \in BOOLEAN : b <=> (post[q].forgotten \/ ~p.frozen)
    OBVIOUS
  <2>3. post'[q] = [post[q] EXCEPT !.forgotten = b]
    <3>1. post'[q] = [post[q] EXCEPT !.forgotten = post[q].forgotten \/ ~page'.frozen]
      BY <1>1, <1>7
    <3>2. b = (post[q].forgotten \/ ~page'.frozen)
      BY <1>1, <1>2, <2>2
    <3> QED BY <3>1, <3>2, Zenon
  <2>4. /\ post'[q] \in Posts
        /\ post'[q].stage = post[q].stage /\ post'[q].kind = post[q].kind
        /\ post'[q].target = post[q].target /\ post'[q].version = post[q].version
        /\ post'[q].answer = post[q].answer /\ (post'[q].forgotten <=> b)
    BY <2>1, <2>3 DEF Posts
  <2>5. ASSUME Loose(q), ~b PROVE Spent(q) \/ Shields(p, q)
    <3>1. p.frozen /\ page.frozen
      BY <1>3, <2>2, <2>5
    <3>2. StatusIdentity(p) = StatusIdentity(page)
      BY <1>3 DEF StatusIdentity
    <3>3. CASE page.call # q
      BY <2>5, <3>1, <3>2, <3>3, TabAsItIs DEF Harmless, Shields
    <3>4. CASE page.call = q /\ StatusIdentity(page) # Nil
      <4>1. /\ Alive(q) /\ post[q].kind = "clear" /\ CallFacts(q) /\ post[q].version \in Nat
        BY <2>1, <2>5, <3>1, <3>4, TabAsItIs DEF Loose, CallFacts, Posts
      <4>2. ShownTask(page) # Nil /\ ShownTask(page).version = post[q].version
        BY <3>4, <4>1 DEF CallFacts, Mutations
      <4>3. ShownTask(page) = StatusIdentity(page)
        BY <4>2 DEF ShownTask, StatusIdentity
      <4> QED BY <3>1, <3>2, <4>1, <4>2, <4>3 DEF Shields
    <3>5. CASE StatusIdentity(page) = Nil
      BY <3>1, <3>2, <3>5 DEF Shields
    <3> QED BY <3>3, <3>4, <3>5
  <2> QED BY <1>3, <1>7, <2>2, <2>4, <2>5, NilAssumption DEF Carried
<1>8. post' \in [Requests -> Posts]
  <2>1. \A q \in Requests : post'[q] \in Posts
    BY <1>6, <1>7
  <2> QED BY <1>1, <2>1
<1> QED BY <1>1, <1>5, <1>6, <1>7, <1>8, TabKeeps

(* What a status check tells thaws the page only when the task has left the    *)
(* version it was frozen at behind, or has ended.                              *)
LEMMA LearnKeeps == ASSUME BenchInv, LearnStatus PROVE BenchInv'
<1>1. PICK f \in Froms : f = page.from
  BY TabAsItIs, NilAssumption DEF LearnStatus, StatusCallFacts, Pages
<1>2. /\ Coherent(f) /\ StatusIdentity(f) # Nil /\ f.frozen /\ page.call = "status"
      /\ page.from = f /\ page.from # Nil
  BY <1>1, TabAsItIs DEF LearnStatus, StatusCallFacts, Froms
<1>3. PICK old \in Views : old = StatusIdentity(f)
  BY <1>2 DEF StatusIdentity, Froms
<1>4. PICK t \in Tasks : t = old.task
  BY DEF Views
<1>5. old # Nil /\ Truthful(old) /\ 1 <= old.version /\ old.version <= version[t]
      /\ old.version \in Nat
  BY <1>2, <1>3, <1>4 DEF Coherent, StatusIdentity, Truthful, Views
<1>6. PICK new : new = View(t)
  OBVIOUS
<1>7. TaskFacts(t) /\ status[t] \in Port!PortStatus /\ version[t] \in Nat
  BY DEF BenchInv, BenchTypes
<1>8. /\ new.task = t /\ new.version = version[t] /\ new.status = status[t]
      /\ new \in Views
  BY <1>6, <1>7 DEF View, Views
<1>9. new # Nil /\ Truthful(new)
  BY <1>5, <1>7, <1>8, NilAssumption
  DEF Truthful, TaskFacts, Port!PortStatus, Port!PortLive, Port!PortEnded
<1>10. PICK open \in BOOLEAN : open <=> StillOpen(old, new)
  OBVIOUS
<1>11. /\ page' = [f EXCEPT !.recovered = new, !.frozen = open, !.call = Nil, !.from = Nil]
       /\ saved' = page' /\ UNCHANGED <<post, threadVars, taskVars>>
  <2>1. /\ page' = Done([f EXCEPT !.recovered = new, !.frozen = StillOpen(old, new)])
        /\ saved' = page' /\ UNCHANGED <<post, threadVars, taskVars>>
    BY <1>1, <1>3, <1>4, <1>6, Zenon DEF LearnStatus, Persist
  <2>2. StillOpen(old, new) = open
    BY <1>10 DEF StillOpen
  <2>3. page' = Done([f EXCEPT !.recovered = new, !.frozen = open])
    BY <2>1, <2>2, Zenon
  <2> QED BY <2>1, <2>3 DEF Done, Froms
<1>12. PICK p \in Sessions : p = page'
  BY <1>8, <1>11 DEF Sessions, Froms
<1>13. /\ p.mode = f.mode /\ (p.frozen <=> open) /\ p.acked = f.acked /\ p.recovered = new
       /\ p.thread = f.thread /\ p.call = Nil /\ p.from = Nil /\ p \in Pages
  <2>1. p \in Pages
    BY DEF Sessions, Pages
  <2> QED BY <1>8, <1>11, <1>12, <2>1 DEF Froms
<1>14. f.thread = Nil /\ (f.acked # Nil => f.acked.task = t)
  BY <1>2, <1>3, <1>4 DEF Coherent, StatusIdentity
<1>15. Coherent(p)
  <2>1. ~open => new.status # "claimed"
    BY <1>10 DEF StillOpen
  <2>2. Truthful(f.acked) /\ (f.acked # Nil => f.acked.status = "active")
    BY <1>2 DEF Coherent
  <2> QED BY <1>8, <1>9, <1>13, <1>14, <2>1, <2>2 DEF Coherent, Issued
<1>16. Becomes(p, p)
  BY <1>11, <1>12, <1>13, <1>15, NilAssumption DEF Becomes
<1>17. ASSUME NEW q \in Requests, Loose(q) PROVE Spent(q) \/ Shields(p, q)
  <2>1. Spent(q) \/ Shields(f, q)
    BY <1>2, <1>17, TabAsItIs DEF Harmless
  <2>2. Alive(q) /\ StatusIdentity(p) = new /\ post[q].version \in Nat
    BY <1>9, <1>13, <1>17, TabAsItIs DEF Loose, StatusIdentity, Posts
  <2>3. CASE open
    BY <1>2, <1>3, <1>4, <1>5, <1>7, <1>8, <1>13, <2>1, <2>2, <2>3 DEF Shields
  <2>4. CASE ~open /\ post[q].target = t /\ status[t] = "active"
    <3>1. old.version < version[t]
      BY <1>5, <1>7, <1>8, <1>10, <2>4 DEF StillOpen
    <3>2. Shields(f, q) => post[q].version <= old.version
      BY <1>2, <1>3, <1>4, <2>4 DEF Shields
    <3>3. post[q].kind \in Mutations /\ holders[t] = {}
      BY <1>7, <2>2, <2>4, TaskTargets DEF TaskFacts
    <3> QED BY <1>5, <1>7, <2>1, <2>2, <2>4, <3>1, <3>2, <3>3 DEF Spent
  <2>5. CASE ~open /\ (post[q].target # t \/ status[t] # "active")
    BY <1>8, <1>9, <1>13, <1>14, <2>5 DEF Shields, ShownTask
  <2> QED BY <2>3, <2>4, <2>5
<1>18. \A q \in Requests : Carried(q, p)
  <2> SUFFICES ASSUME NEW q \in Requests PROVE Carried(q, p)
    OBVIOUS
  <2>1. post'[q] = post[q] /\ post[q] \in Posts /\ p.call # q /\ page.call # q
    BY <1>2, <1>11, <1>13, NilAssumption, RequestsAssumption, TabAsItIs
  <2>2. RequestFacts(q)
    BY TabAsItIs
  <2> QED BY <1>13, <1>17, <2>1, <2>2 DEF Carried, RequestFacts
<1> QED BY <1>11, <1>16, <1>18, TabAsItIs, TabKeeps

-----------------------------------------------------------------------------
(* The tab stops waiting. *)

(* The request that is over for the tab: it has been answered. *)
LEMMA OthersNotDone ==
  ASSUME BenchInv, NEW r \in Requests, page.call = r
  PROVE  /\ page.from = Nil
         /\ \A q \in Requests \ {r} : post[q].stage # "done" /\ page.call # q
  BY TabAsItIs, RequestsAssumption DEF StatusCallFacts, RequestFacts

LEMMA ReceiveKeeps == ASSUME BenchInv, NEW r \in Requests, Receive(r) PROVE BenchInv'
<1>1. /\ page.call = r /\ post[r].stage = "done" /\ post' = [post EXCEPT ![r] = Free]
      /\ UNCHANGED <<threadVars, taskVars>>
  BY DEF Receive
<1>2. PICK a \in Answers : a = post[r].answer /\ Fits(r, a)
  BY <1>1, TabAsItIs DEF Fits
<1>3. post' \in [Requests -> Posts] /\ post'[r] = Free /\ Nil # r
      /\ \A q \in Requests \ {r} : post'[q] = post[q] /\ post[q] \in Posts
  <2>1. Free \in Posts
    BY NilAssumption DEF Free, Posts
  <2> QED BY <1>1, <2>1, TabAsItIs, NilAssumption
(* It is enough that the page it makes waits for nothing and surprises nobody. *)
<1>4. ASSUME NEW p, NEW s, Becomes(p, s), p.call = Nil, p.from = Nil,
             \A q \in Requests \ {r} : Loose(q) => Spent(q) \/ Shields(p, q)
      PROVE  BenchInv'
  <2>1. Over(r, p)
    BY <1>3, <1>4 DEF Over
  <2>2. ASSUME NEW q \in Requests \ {r} PROVE Carried(q, p)
    <3>1. p.call # q /\ post[q].stage # "done"
      BY <1>1, <1>4, OthersNotDone, NilAssumption
    <3> QED BY <1>3, <1>4, <3>1 DEF Carried
  <2> QED BY <1>1, <1>3, <1>4, <2>1, <2>2, TabKeeps
<1>5. CASE a.kind = "turn"
  <2> DEFINE acked == IF a.task # Nil /\ a.task.status = "active" THEN a.task ELSE Nil
  <2>1. PICK b \in BOOLEAN : b <=> (post[r].kind = "cancel" /\ a.task # Nil)
    OBVIOUS
  <2>2. /\ a.task \in Views \cup {Nil} /\ a.thread \in ThreadViews \cup {Nil}
        /\ acked \in Views \cup {Nil}
    BY DEF Answers
  <2>3. PICK k \in Views \cup {Nil} : k = acked
    BY <2>2
  <2>4. /\ page' = [page EXCEPT !.acked = k, !.recovered = Nil, !.thread = a.thread,
                                !.frozen = b, !.call = Nil, !.from = Nil]
        /\ saved' = page'
    <3>1. /\ page' = Done([page EXCEPT !.acked = acked, !.recovered = Nil,
                !.thread = a.thread, !.frozen = post[r].kind = "cancel" /\ a.task # Nil])
          /\ saved' = page'
      BY <1>2, <1>5, Zenon DEF Receive, Persist
    <3>2. (post[r].kind = "cancel" /\ a.task # Nil) = b
      BY <2>1
    <3>3. page' = Done([page EXCEPT !.acked = k, !.recovered = Nil, !.thread = a.thread,
                                    !.frozen = b])
      BY <2>3, <3>1, <3>2, Zenon
    <3> QED BY <3>1, <3>3, TabAsItIs DEF Done, Pages
  <2>5. PICK p \in Sessions : p = page'
    BY <2>2, <2>4, TabAsItIs DEF Sessions, Pages
  <2>6. /\ p.acked = k /\ p.recovered = Nil /\ p.thread = a.thread /\ (p.frozen <=> b)
        /\ p.call = Nil /\ p.from = Nil /\ p \in Pages
    <3>1. p \in Pages
      BY DEF Sessions, Pages
    <3> QED BY <2>4, <2>5, <3>1, TabAsItIs DEF Pages
  <2>7. k = Nil \/ (k = a.task /\ a.task # Nil /\ a.task.status = "active")
    BY <2>3
  <2> HIDE DEF acked
  <2>8. Coherent(p)
    BY <1>2, <2>6, <2>7 DEF Coherent, Fits, Truthful
  <2>9. Becomes(p, p)
    BY <2>4, <2>5, <2>6, <2>8, NilAssumption DEF Becomes
  <2>10. ASSUME NEW q \in Requests \ {r}, Loose(q) PROVE Spent(q) \/ Shields(p, q)
    BY <1>2, <2>6, <2>7, <2>10 DEF Fits, Shields, ShownTask, StatusIdentity
  <2> QED BY <1>4, <2>6, <2>9, <2>10
<1>6. CASE a.kind = "rejected"
  <2>1. page' = [page EXCEPT !.call = Nil, !.from = Nil] /\ UNCHANGED saved
    BY <1>2, <1>6 DEF Receive, Done
  <2>2. PICK p \in Pages : p = page'
    BY <2>1, TabAsItIs DEF Pages
  <2>3. /\ p.mode = page.mode /\ p.frozen = page.frozen /\ p.acked = page.acked
        /\ p.recovered = page.recovered /\ p.thread = page.thread /\ p.call = Nil
        /\ p.from = Nil
    BY <2>1, <2>2, TabAsItIs DEF Pages
  <2>4. PICK s \in Sessions : s = Session
    BY TabAsItIs
  <2>5. Becomes(p, s)
    <3>1. Coherent(p)
      BY <2>3, TabAsItIs DEF Coherent
    <3> QED BY <2>1, <2>2, <2>3, <2>4, <3>1, NilAssumption, TabAsItIs DEF Becomes, SessionFacts
  <2>6. ASSUME NEW q \in Requests \ {r}, Loose(q) PROVE Spent(q) \/ Shields(p, q)
    <3>1. Spent(q) \/ Shields(page, q)
      BY <1>1, <2>6, TabAsItIs DEF Harmless
    <3> QED BY <2>3, <3>1 DEF Shields, ShownTask, StatusIdentity
  <2> QED BY <1>4, <2>3, <2>5, <2>6
<1>7. CASE a.kind = "cleared"
  <2>1. PICK p \in Sessions : p = Fresh(page.mode)
    BY TabAsItIs, FreshFacts DEF Pages
  <2>2. page' = p /\ saved' = Nil
    BY <1>2, <1>7, <2>1 DEF Receive
  <2>3. /\ p.mode = page.mode /\ ~p.frozen /\ p.acked = Nil /\ p.recovered = Nil
        /\ p.thread = Nil /\ p.call = Nil /\ p.from = Nil /\ p \in Pages /\ Coherent(p)
    BY <2>1, TabAsItIs, FreshFacts DEF Pages
  <2>4. Becomes(p, p)
    BY <2>1, <2>2, <2>3, NilAssumption DEF Becomes
  <2>5. \A q \in Requests : Shields(p, q)
    BY <2>3 DEF Shields, ShownTask
  <2> QED BY <1>4, <2>3, <2>4, <2>5
<1> QED BY <1>2, <1>5, <1>6, <1>7 DEF Receive

(* A request given up is one the page is frozen for, unless the task it shows  *)
(* has ended: then no request can do anything to it.                           *)
LEMMA UnknownKeeps == ASSUME BenchInv, NEW r \in Requests, OutcomeUnknown(r) PROVE BenchInv'
<1>1. /\ page.call = r /\ UNCHANGED <<threadVars, taskVars>>
      /\ post' = [post EXCEPT ![r] = IF post[r].stage = "done" THEN Free ELSE post[r]]
  BY DEF OutcomeUnknown
<1>2. PICK t \in Views \cup {Nil} : t = ShownTask(page)
  BY TabAsItIs DEF ShownTask, Pages
<1>3. /\ page.acked \in Views \cup {Nil} /\ page.recovered \in Views \cup {Nil}
      /\ Truthful(page.acked) /\ Truthful(page.recovered) /\ CallFacts(r)
  BY TabAsItIs DEF Pages, Coherent
<1>4. post' \in [Requests -> Posts]
      /\ post'[r] = (IF post[r].stage = "done" THEN Free ELSE post[r])
      /\ \A q \in Requests \ {r} : post'[q] = post[q] /\ post[q] \in Posts
  <2>1. Free \in Posts
    BY NilAssumption DEF Free, Posts
  <2> QED BY <1>1, <2>1, TabAsItIs
(* It is enough that the page is frozen, and right about every request. *)
<1>5. ASSUME NEW p, NEW s, Becomes(p, s), p.call = Nil, p.from = Nil,
             \A q \in Requests : Loose(q) => Spent(q) \/ Shields(p, q)
      PROVE  BenchInv'
  <2>1. CASE post[r].stage = "done"
    <3>1. Over(r, p)
      BY <1>4, <1>5, <2>1, NilAssumption DEF Over
    <3>2. ASSUME NEW q \in Requests \ {r} PROVE Carried(q, p)
      <4>1. p.call # q /\ post[q].stage # "done"
        BY <1>1, <1>5, OthersNotDone, NilAssumption
      <4> QED BY <1>4, <1>5, <4>1 DEF Carried
    <3> QED BY <1>1, <1>4, <1>5, <3>1, <3>2, TabKeeps
  <2>2. CASE post[r].stage # "done"
    <3>1. ASSUME NEW q \in Requests PROVE Carried(q, p)
      <4>1. p.call # q /\ post[q].stage # "done" /\ post'[q] = post[q] /\ post[q] \in Posts
        BY <1>1, <1>4, <1>5, <2>2, OthersNotDone, NilAssumption, TabAsItIs
      <4> QED BY <1>5, <4>1 DEF Carried
    <3> QED BY <1>1, <1>4, <1>5, <3>1, TabKeeps
  <2> QED BY <2>1, <2>2
(* A task that is known but not shown, in a page not frozen, has ended. *)
<1>6. ASSUME NEW q \in Requests, Alive(q), ~page.frozen, t = Nil,
             page.recovered # Nil, page.recovered.task = post[q].target
      PROVE  Spent(q)
  <2>1. /\ page.recovered.status \notin {"active", "claimed"} /\ page.recovered \in Views
        /\ page.recovered.status \in Port!PortLive \cup Port!PortEnded
    BY <1>2, <1>3, <1>6, TabAsItIs DEF ShownTask, Coherent, Truthful
  <2>2. page.recovered.status \in Port!PortEnded
    BY <2>1 DEF Port!PortLive
  <2> QED BY <1>3, <1>6, <2>1, <2>2, EndedSpends
(* The request given up is no newer than what is shown. *)
<1>7. ASSUME Loose(r), t # Nil, t.task = post[r].target PROVE post[r].version <= t.version
  <2>1. Alive(r) /\ t \in Views /\ t.task \in Tasks /\ t.version \in Nat
    BY <1>2, <1>7 DEF Loose, Views
  <2>2. post[r].kind \in Mutations
    BY <1>7, <2>1, TaskTargets
  <2>3. StatusIdentity(page) # Nil
    BY <1>2, <1>7 DEF ShownTask, StatusIdentity
  <2> QED BY <1>1, <1>2, <1>3, <2>1, <2>2, <2>3 DEF CallFacts
<1>8. ASSUME NEW q \in Requests \ {r}, Loose(q) PROVE Spent(q) \/ Shields(page, q)
  BY <1>1, <1>8, TabAsItIs DEF Harmless
<1>9. CASE post[r].kind = "clear"
  <2>1. page' = [page EXCEPT !.frozen = TRUE, !.call = Nil, !.from = Nil] /\ UNCHANGED saved
    <3>1. page' = Done([page EXCEPT !.frozen = TRUE]) /\ UNCHANGED saved
      BY <1>9 DEF OutcomeUnknown
    <3> QED BY <3>1, TabAsItIs DEF Done, Pages
  <2>2. PICK p \in Pages : p = page'
    BY <2>1, TabAsItIs DEF Pages
  <2>3. /\ p.mode = page.mode /\ p.frozen /\ p.acked = page.acked
        /\ p.recovered = page.recovered /\ p.thread = page.thread /\ p.call = Nil
        /\ p.from = Nil
    BY <2>1, <2>2, TabAsItIs DEF Pages
  <2>4. PICK s \in Sessions : s = Session
    BY TabAsItIs
  <2>5. Becomes(p, s)
    <3>1. Coherent(p)
      BY <2>3, TabAsItIs DEF Coherent
    <3> QED BY <2>1, <2>2, <2>3, <2>4, <3>1, NilAssumption, TabAsItIs DEF Becomes, SessionFacts
  <2>6. StatusIdentity(p) = StatusIdentity(page)
    BY <2>3 DEF StatusIdentity
  <2>7. ASSUME NEW q \in Requests, Loose(q) PROVE Spent(q) \/ Shields(p, q)
    <3>1. CASE page.frozen /\ q # r
      BY <1>8, <2>3, <2>6, <2>7, <3>1 DEF Shields
    <3>2. CASE ~page.frozen /\ q # r
      <4>1. t # Nil => Spent(q) \/ t.task # post[q].target
        BY <1>2, <1>8, <2>7, <3>2 DEF Shields
      <4>2. t # Nil => StatusIdentity(page) = t
        BY <1>2 DEF ShownTask, StatusIdentity
      <4>3. t = Nil => StatusIdentity(page) = page.recovered
        BY <1>2 DEF ShownTask, StatusIdentity
      <4>4. Alive(q)
        BY <2>7 DEF Loose
      <4> QED BY <1>6, <2>3, <2>6, <3>2, <4>1, <4>2, <4>3, <4>4 DEF Shields
    <3>3. CASE q = r
      <4>1. StatusIdentity(page) = Nil \/ StatusIdentity(page) = t
        BY <1>1, <1>2, <1>3, <1>9, <2>7, <3>3
        DEF CallFacts, Loose, Mutations, ShownTask, StatusIdentity
      <4> QED BY <1>7, <2>3, <2>6, <2>7, <3>3, <4>1 DEF Shields
    <3> QED BY <3>1, <3>2, <3>3
  <2> QED BY <1>5, <2>3, <2>5, <2>7
<1>10. CASE post[r].kind # "clear"
  <2>1. ~page.frozen
    BY <1>1, <1>3, <1>10 DEF CallFacts
  <2>2. /\ page' = [page EXCEPT !.frozen = TRUE, !.recovered = t, !.call = Nil, !.from = Nil]
        /\ saved' = page'
    <3>1. /\ page' = Done([page EXCEPT !.frozen = TRUE, !.recovered = t])
          /\ saved' = page'
      BY <1>2, <1>10, Zenon DEF OutcomeUnknown, Persist
    <3> QED BY <3>1, TabAsItIs DEF Done, Pages
  <2>3. PICK p \in Sessions : p = page'
    BY <1>2, <2>2, TabAsItIs DEF Sessions, Pages
  <2>4. /\ p.frozen /\ p.acked = page.acked /\ p.recovered = t /\ p.thread = page.thread
        /\ p.call = Nil /\ p.from = Nil /\ p \in Pages
    <3>1. p \in Pages
      BY DEF Sessions, Pages
    <3> QED BY <2>2, <2>3, <3>1, TabAsItIs DEF Pages
  <2>5. t = Nil \/ t = page.acked \/ t = page.recovered
    BY <1>2 DEF ShownTask
  <2>6. page.thread # Nil => t = Nil
    BY <2>5, TabAsItIs DEF Coherent
  <2>7. Coherent(p)
    BY <1>3, <2>4, <2>5, <2>6, TabAsItIs DEF Coherent, Truthful
  <2>8. Becomes(p, p)
    BY <2>2, <2>3, <2>4, <2>7, NilAssumption DEF Becomes
  <2>9. ASSUME NEW q \in Requests, Loose(q) PROVE Spent(q) \/ Shields(p, q)
    <3>1. CASE t # Nil
      <4>1. StatusIdentity(p) = t
        BY <2>4, <3>1 DEF StatusIdentity
      <4>2. q # r => Spent(q) \/ t.task # post[q].target
        BY <1>2, <1>8, <2>1, <2>9, <3>1 DEF Shields
      <4> QED BY <1>7, <2>4, <2>9, <3>1, <4>1, <4>2 DEF Shields
    <3>2. CASE t = Nil
      <4>1. StatusIdentity(p) = page.acked /\ (page.acked # Nil => page.recovered # Nil)
        BY <1>2, <2>4, <3>2 DEF StatusIdentity, ShownTask
      <4>2. page.acked # Nil => page.acked.task = page.recovered.task
        BY <4>1, TabAsItIs DEF Coherent
      <4>3. Alive(q)
        BY <2>9 DEF Loose
      <4> QED BY <1>6, <2>1, <2>4, <3>2, <4>1, <4>2, <4>3 DEF Shields
    <3> QED BY <3>1, <3>2
  <2> QED BY <1>5, <2>4, <2>8, <2>9
<1> QED BY <1>9, <1>10

-----------------------------------------------------------------------------
(* BenchInv is inductive. *)

(* A new tab shows nothing and has asked for nothing; no task was issued. *)
LEMMA BenchInitInv == BenchInit => BenchInv
<1> SUFFICES ASSUME BenchInit PROVE BenchInv
  OBVIOUS
<1>1. PICK mode \in Modes : page = Fresh(mode)
  BY DEF BenchInit, Modes
<1>2. saved = Nil /\ post = [r \in Requests |-> Free] /\ Port!PortInit
  BY DEF BenchInit
<1>3. Free \in Posts /\ Free.stage = "free"
  BY NilAssumption DEF Free, Posts
<1>4. /\ page \in Pages /\ page.mode = mode /\ page.frozen = FALSE /\ page.acked = Nil
      /\ page.recovered = Nil /\ page.thread = Nil /\ page.call = Nil /\ page.from = Nil
      /\ Coherent(page)
  BY <1>1, FreshFacts
<1>5. BenchTypes /\ \A t \in Tasks : TaskFacts(t)
  BY <1>2, <1>3, <1>4 DEF BenchTypes, TaskFacts, Port!PortInit, Port!PortStatus
<1>6. Session = page
  BY <1>1, <1>2, <1>4 DEF Session
<1>7. SessionFacts /\ StatusCallFacts
  BY <1>4, <1>6, NilAssumption DEF SessionFacts, StatusCallFacts
<1>8. ASSUME NEW r \in Requests
      PROVE  RequestFacts(r) /\ CallFacts(r) /\ Harmless(r) /\ post[r].stage # "done"
  <2>1. post[r].stage = "free" /\ page.call # r
    BY <1>2, <1>3, <1>4, NilAssumption
  <2> QED BY <2>1 DEF RequestFacts, CallFacts, Harmless, Loose, Alive
<1> QED BY <1>4, <1>5, <1>7, <1>8, BenchInitThreads DEF BenchInv, TabFacts

LEMMA BenchStepInv == BenchInv /\ [BenchNext]_benchVars => BenchInv'
<1> SUFFICES ASSUME BenchInv, [BenchNext]_benchVars PROVE BenchInv'
  OBVIOUS
<1>1. [Next]_vars
  BY BenchStepThreads DEF BenchInv, TabFacts
<1>2. CASE UNCHANGED benchVars
  <2>1. TasksMove /\ \A x \in Tasks : NoNewHolder(x)
    BY <1>2, TasksStay DEF benchVars, BenchInv, BenchTypes, TaskWorld, TaskTypes
  <2>2. KnowsOn /\ UNCHANGED <<page, saved, post>>
    BY <1>2, ThreadsUntouched DEF benchVars
  <2>3. \A q \in Requests : Handled(q)
    BY <2>1, <2>2, OthersStay DEF Handled
  <2>4. post' \in [Requests -> Posts]
    BY <2>2 DEF BenchInv, BenchTypes
  <2> QED BY <1>1, <2>1, <2>2, <2>3, <2>4, WorldKeeps
<1>3. CASE Others \/ ServerRestarts \/ \E t \in Tasks : TaskLapses(t)
  BY <1>1, <1>3, OthersKeep, RestartKeeps, LapseKeeps
<1>4. CASE CheckTaskStatus \/ LearnStatus \/ StatusLost
  BY <1>4, CheckKeeps, LearnKeeps, StatusLostKeeps
<1>5. CASE Reload \/ StartFresh
  BY <1>5, ReloadKeeps, StartFreshKeeps
<1>6. ASSUME NEW r \in Requests, SubmitTask(r) \/ SubmitLegacy(r) \/ ClearCurrentTask(r)
      PROVE  BenchInv'
  BY <1>6, SubmitsKeep
<1>7. ASSUME NEW r \in Requests, Handle(r) PROVE BenchInv'
  <2>1. CASE TaskStart(r) \/ TaskClaim(r) \/ TaskCommit(r) \/ TaskSwitch(r)
    BY <2>1, TaskStartKeeps, TaskClaimKeeps, TaskCommitKeeps, TaskSwitchKeeps
  <2>2. CASE TaskRefused(r) \/ ClaimLost(r) \/ TaskTurnFails(r)
    BY <2>2, TaskRefusalsKeep
  <2>3. CASE Ask(r) \/ ThreadClaim(r) \/ ThreadRefused(r) \/ ThreadSettle(r)
    BY <1>1, <2>3, AskKeeps, ThreadClaimKeeps, ThreadRefusedKeeps, ThreadSettleKeeps
  <2>4. CASE RequestLost(r)
    BY <2>4, RequestLostKeeps
  <2> QED BY <1>7, <2>1, <2>2, <2>3, <2>4 DEF Handle
<1>8. ASSUME NEW r \in Requests, Receive(r) \/ OutcomeUnknown(r) PROVE BenchInv'
  BY <1>8, ReceiveKeeps, UnknownKeeps
<1> QED BY <1>2, <1>3, <1>4, <1>5, <1>6, <1>7, <1>8 DEF BenchNext

(* The tab's invariant, which everything below follows from. *)
THEOREM BenchAlwaysInv == BenchSpec => []BenchInv
<1> QED BY BenchInitInv, BenchStepInv, PTL DEF BenchSpec

-----------------------------------------------------------------------------
(* What the tab may rely on. *)

(* What the tab keeps, in the page and in sessionStorage (workbench.tsx,       *)
(* session-store.ts), is always of the kind it reads it back as, and only a    *)
(* request the page waits for has an answer on its way.                        *)
THEOREM BenchTypesHold == BenchSpec => []BenchTypeOK
<1>1. BenchInv => BenchTypeOK
  BY DEF BenchInv, BenchTypes, BenchTypeOK, Pages, Sessions, Posts, TabFacts, RequestFacts
<1> QED BY BenchAlwaysInv, <1>1, PTL

(* After any series of refusals, lost answers, late statuses, reloads and      *)
(* restarts, neither the page nor its saved session names a version of its     *)
(* task that the server has not reached (workbench.tsx, handleOutcomeUnknown). *)
THEOREM TabStaysBehind == BenchSpec => []TabNeverAhead
<1>1. BenchInv => TabNeverAhead
  <2> SUFFICES ASSUME BenchInv, NEW p \in {page, saved} \ {Nil}, StatusIdentity(p) # Nil
               PROVE  StatusIdentity(p).version <= version[StatusIdentity(p).task]
    BY DEF TabNeverAhead
  <2>1. saved # Nil => Session = saved
    BY DEF Session
  <2>2. Coherent(p)
    BY <2>1, TabAsItIs DEF SessionFacts
  <2> QED BY <2>2 DEF Coherent, Truthful, StatusIdentity
<1> QED BY BenchAlwaysInv, <1>1, PTL

(* A tab that may send again is safe from everything it gave up: whatever it   *)
(* sent before and a reload did not make it forget, however late the server    *)
(* comes to it, can no longer change the task or thread the tab shows.         *)
THEOREM ThawIsSafe == BenchSpec => []ThawedIsSettled
<1>1. BenchInv => ThawedIsSettled
  <2> SUFFICES ASSUME BenchInv, page.call = Nil, ~page.frozen, NEW r \in Requests,
                      InForce(r), ~post[r].forgotten
               PROVE  FALSE
    BY DEF ThawedIsSettled
  <2>1. Alive(r) /\ Loose(r) /\ page.call # r /\ RequestFacts(r)
    BY NilAssumption, TabAsItIs DEF InForce, Alive, Loose
  <2>2. Spent(r) \/ Shields(page, r)
    BY <2>1, TabAsItIs DEF Harmless
  <2>3. CASE /\ ShownTask(page) # Nil /\ post[r].target = ShownTask(page).task
             /\ \/ post[r].stage = "running" /\ r \in holders[ShownTask(page).task]
                \/ /\ post[r].stage = "sent" /\ status[ShownTask(page).task] = "active"
                   /\ version[ShownTask(page).task] = post[r].version
    BY <2>2, <2>3 DEF Shields, Spent
  <2>4. CASE page.thread # Nil /\ post[r].target = page.thread.thread
    <3>1. page.thread.thread \in Threads
      BY <2>4, TabAsItIs DEF Pages, ThreadViews
    <3> QED BY <2>1, <2>2, <2>4, <3>1, IdsAssumption DEF Shields, Spent, RequestFacts
  <2> QED BY <2>3, <2>4 DEF InForce
<1> QED BY BenchAlwaysInv, <1>1, PTL

-----------------------------------------------------------------------------
(* The threads, with the tab among their clients. *)

(* Whatever the tab, its requests, its reloads and the server do is what       *)
(* ThreadCheckpoint lets its clients do, or nothing: the tab takes no way      *)
(* around the manager.                                                         *)
THEOREM TabIsAClient == BenchSpec => [][Next]_vars
<1>1. BenchInv /\ [BenchNext]_benchVars => [Next]_vars
  BY BenchStepThreads DEF BenchInv, TabFacts
<1> QED BY BenchAlwaysInv, <1>1, PTL DEF BenchSpec

(* The checkpoints keep their types (thread.py) under the tab's requests. *)
THEOREM BenchThreadTypes == BenchSpec => []TypeOK
<1>1. BenchInv => TypeOK
  BY DEF BenchInv, ThreadInv
<1> QED BY BenchAlwaysInv, <1>1, PTL

(* However often the tab sends, gives up, reloads and sends again, a thread    *)
(* buys one graph run for its clarification and one for its follow-up.         *)
THEOREM BenchOneRunEach == BenchSpec => []OneRunPerBudget
<1>1. BenchInv => OneRunPerBudget
  BY DEF BenchInv, ThreadInv, TypeOK, Lawful, OneRunPerBudget, Kinds
<1> QED BY BenchAlwaysInv, <1>1, PTL

(* Nor does a request of the tab that comes late open a thread that has ended. *)
THEOREM BenchEndsStay == BenchSpec => EndedNeverReopens
<1>1. BenchInv /\ [BenchNext]_benchVars => [\A t \in Threads : EndStays(t)]_vars
  BY BenchStepThreads, EndStaysStep DEF BenchInv, TabFacts
<1> QED BY BenchAlwaysInv, <1>1, PTL DEF BenchSpec, EndedNeverReopens, EndStays
=============================================================================
