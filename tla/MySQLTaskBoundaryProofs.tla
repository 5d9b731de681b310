---------------------- MODULE MySQLTaskBoundaryProofs ----------------------
(***************************************************************************)
(* What holds of the durable task store for any number of requests, tasks,  *)
(* tokens and payloads, whatever the times are.                             *)
(***************************************************************************)
EXTENDS MySQLTaskBoundary, TLAPS

-----------------------------------------------------------------------------
(* The rows and events the methods write *)

(* What start and commit write is a row. *)
LEMMA ActiveRowType ==
    ASSUME NEW v \in Nat, NEW p \in Payloads, NEW now \in Nat
    PROVE  ActiveRow(v, p, now) \in Row
BY TimesAssumption DEF ActiveRow, Row, RowStatus, Live

(* So is what a terminal commit leaves, *)
LEMMA EndedRowType ==
    ASSUME NEW r \in Row, NEW s \in EndedByTurn, NEW now \in Nat
    PROVE  EndedRow(r, s, now) \in Row
BY TimesAssumption DEF EndedRow, Row, RowStatus, Tombstones

(* what an expiry leaves, and what no row at all stands for. *)
LEMMA ExpiredRowType ==
    ASSUME NEW r \in Row
    PROVE  ExpiredRow(r) \in Row
BY TimesAssumption DEF ExpiredRow, Row, RowStatus, Tombstones

(* A task key no row is stored under stands for a row too. *)
LEMMA NoRowType == NoRow("unissued") \in Row /\ NoRow("purged") \in Row
BY DEF NoRow, NoTime, Row, RowStatus

(* A ledger stays a sequence of events when one is filed. *)
LEMMA FiledEventType ==
    ASSUME NEW l \in Seq(Event), NEW a \in {"started", "claimed", "active"} \cup Tombstones,
           NEW b \in Nat, NEW c \in Nat
    PROVE  Append(l, [action |-> a, before |-> b, after |-> c]) \in Seq(Event)
BY DEF Event

(* Expiry by whoever finds it preserves the types. *)
LEMMA ExpireType ==
    ASSUME TypeOK, NEW ts, Expire(ts)
    PROVE  rows' \in [Tasks -> Row] /\ ledger' \in [Tasks -> Seq(Event)]
<1>1. ASSUME NEW t \in Tasks
      PROVE  Append(ledger[t], ExpiredEvent(rows[t])) \in Seq(Event)
  <2>1. rows[t].version \in Nat /\ ledger[t] \in Seq(Event)
    BY DEF TypeOK, Row
  <2> QED BY <2>1, FiledEventType DEF ExpiredEvent, Tombstones
<1>2. \A t \in Tasks : ExpiredRow(rows[t]) \in Row
  BY ExpiredRowType DEF TypeOK
<1> QED BY <1>1, <1>2 DEF Expire, TypeOK

-----------------------------------------------------------------------------
(* Every variable keeps its type. *)

(* The empty tables are well typed, *)
LEMMA InitType == Init => TypeOK
<1> SUFFICES ASSUME Init PROVE TypeOK
  OBVIOUS
<1>1. rows \in [Tasks -> Row]
  BY NoRowType DEF Init
<1>2. ledger \in [Tasks -> Seq(Event)]
  BY DEF Init
<1>3. req \in [Workers -> Request]
  BY DEF Init, Idle, Request
<1>4. maint \in [phase: MaintPhase, purgeNow: Nat, expireNow: Nat]
  BY DEF Init, NoPass, MaintPhase
<1> QED BY <1>1, <1>2, <1>3, <1>4 DEF Init, TypeOK

(* What the methods remember of a request, *)
LEMMA RequestTypes ==
    /\ Idle \in Request
    /\ \A now \in Nat : StartRequest(now) \in Request
    /\ \A t \in Tasks, now, v \in Nat : ClaimRequest(t, now, v) \in Request
    /\ \A t \in Tasks, now \in Nat, v \in Nat \ {0}, k \in Tokens,
          p \in Payloads \cup {NoPayload} : HeldRequest(t, now, v, k, p) \in Request
BY DEF Idle, StartRequest, ClaimRequest, HeldRequest, Request

(* and what they find of it. *)
LEMMA RequestFacts ==
    ASSUME TypeOK, NEW w \in Workers
    PROVE  /\ req[w].now \in Nat /\ req[w].version \in Nat
           /\ req[w].pc \in {"claim", "held", "commit"} => req[w].task \in Tasks
           /\ req[w].pc \in {"held", "commit"} => /\ req[w].version - 1 \in Nat
                                                 /\ req[w].token \in Tokens
                                                 /\ req[w].seen \in Payloads \cup {NoPayload}
BY DEF TypeOK, Request

(* and every step keeps them so: one case per statement of the module. *)
LEMMA NextType == TypeOK /\ [Next]_vars => TypeOK'
<1> SUFFICES ASSUME TypeOK, [Next]_vars PROVE TypeOK'
  OBVIOUS
<1>1. CASE UNCHANGED vars
  BY <1>1 DEF TypeOK, vars
<1>2. CASE Tick
  BY <1>2 DEF TypeOK, Tick
<1>3. ASSUME NEW w \in Workers, RequestStep(w) PROVE TypeOK'
  <2>1. CASE BeginStart(w)
    BY <2>1, RequestTypes DEF TypeOK, BeginStart
  <2>2. CASE Start(w)
    <3>1. PICK t \in Tasks, p \in Payloads :
             /\ rows' = [rows EXCEPT ![t] = ActiveRow(1, p, req[w].now)]
             /\ ledger' = [ledger EXCEPT ![t] =
                    Append(@, [action |-> "started", before |-> 0, after |-> 1])]
      BY <2>2 DEF Start
    <3>2. ActiveRow(1, p, req[w].now) \in Row
      BY ActiveRowType DEF TypeOK, Request
    <3>3. Append(ledger[t], [action |-> "started", before |-> 0, after |-> 1]) \in Seq(Event)
      BY FiledEventType DEF TypeOK
    <3> QED BY <2>2, <3>1, <3>2, <3>3, RequestTypes DEF TypeOK, Start
  <2>3. CASE BeginClaim(w)
    BY <2>3, RequestTypes DEF TypeOK, BeginClaim
  <2>4. CASE ClaimWin(w)
    <3> DEFINE t == req[w].task
               v == req[w].version
    <3>1. t \in Tasks /\ v \in Nat /\ v + 1 \in Nat \ {0} /\ req[w].now \in Nat
      BY <2>4, RequestFacts DEF ClaimWin
    <3>2. PICK tok \in Tokens :
             /\ issued' = issued \cup {tok}
             /\ rows' = [rows EXCEPT ![t] = ClaimedRow(rows[t], v + 1, tok)]
             /\ req' = [req EXCEPT ![w] =
                          HeldRequest(t, req[w].now, v + 1, tok, rows[t].payload)]
      BY <2>4 DEF ClaimWin
    <3>3. ClaimedRow(rows[t], v + 1, tok) \in Row
      BY <3>1 DEF TypeOK, Row, RowStatus, Live, ClaimedRow
    <3>4. HeldRequest(t, req[w].now, v + 1, tok, rows[t].payload) \in Request
      BY <3>1, RequestTypes DEF TypeOK, Row
    <3>5. Append(ledger[t], [action |-> "claimed", before |-> v, after |-> v + 1]) \in Seq(Event)
      BY <3>1, FiledEventType DEF TypeOK
    <3>6. ledger' \in [Tasks -> Seq(Event)]
      BY <2>4, <3>5 DEF TypeOK, ClaimWin
    <3>7. UNCHANGED <<clock, maint>>
      BY <2>4 DEF ClaimWin
    <3> HIDE DEF t, v
    <3> QED BY <3>1, <3>2, <3>3, <3>4, <3>6, <3>7 DEF TypeOK
  <2>5. CASE ClaimLose(w)
    BY <2>5, RequestTypes, ExpireType DEF TypeOK, ClaimLose
  <2>6. CASE BeginCommit(w)
    <3>1. /\ req[w] \in [pc: {"held", "commit"}, task: Tasks, now: Nat,
                         version: Nat \ {0}, token: Tokens,
                         seen: Payloads \cup {NoPayload}]
          /\ clock \in Nat
      BY <2>6 DEF TypeOK, BeginCommit, Request
    <3>2. [req[w] EXCEPT !.pc = "commit", !.now = clock]
             \in [pc: {"held", "commit"}, task: Tasks, now: Nat,
                 version: Nat \ {0}, token: Tokens, seen: Payloads \cup {NoPayload}]
      BY <3>1
    <3>3. [req[w] EXCEPT !.pc = "commit", !.now = clock] \in Request
      BY <3>2 DEF Request
    <3> QED BY <2>6, <3>3 DEF TypeOK, BeginCommit
  <2>7. CASE CommitWin(w)
    <3> DEFINE t == req[w].task
    <3>1. t \in Tasks /\ req[w].version \in Nat /\ req[w].now \in Nat
      BY <2>7, RequestFacts DEF CommitWin
    <3>2. req[w].version + 1 \in Nat /\ req[w].version - 1 \in Nat
      BY <2>7, <3>1, RequestFacts DEF CommitWin
    <3>3. rows[t] \in Row /\ ledger[t] \in Seq(Event)
      BY <3>1 DEF TypeOK
    <3>4. rows' \in [Tasks -> Row] /\ ledger' \in [Tasks -> Seq(Event)]
      <4>1. CASE CommitActive(w)
        <5>1. \A p \in Payloads : ActiveRow(req[w].version + 1, p, req[w].now) \in Row
          BY <3>1, <3>2, ActiveRowType
        <5>2. Append(ledger[t], [action |-> "active", before |-> req[w].version - 1,
                                 after |-> req[w].version + 1]) \in Seq(Event)
          BY <3>2, <3>3, FiledEventType
        <5>3. PICK p \in Payloads :
                 rows' = [rows EXCEPT ![t] = ActiveRow(req[w].version + 1, p, req[w].now)]
          BY <4>1 DEF CommitActive
        <5>4. rows' \in [Tasks -> Row]
          BY <5>1, <5>3 DEF TypeOK
        <5>5. ledger' \in [Tasks -> Seq(Event)]
          BY <4>1, <5>2 DEF CommitActive, TypeOK
        <5> QED BY <5>4, <5>5
      <4>2. CASE CommitTerminal(w)
        <5>1. \A end \in {"cancelled", "cleared"} :
                /\ EndedRow(rows[t], end, req[w].now) \in Row
                /\ Append(ledger[t], [action |-> end, before |-> req[w].version - 1,
                                      after |-> req[w].version + 1]) \in Seq(Event)
          BY <3>1, <3>2, <3>3, EndedRowType, FiledEventType DEF EndedByTurn, Tombstones
        <5>2. PICK end \in {"cancelled", "cleared"} :
                 /\ rows' = [rows EXCEPT ![t] = EndedRow(rows[t], end, req[w].now)]
                 /\ ledger' = [ledger EXCEPT ![t] = Append(ledger[t],
                       [action |-> end, before |-> req[w].version - 1,
                        after |-> req[w].version + 1])]
          BY <4>2 DEF CommitTerminal
        <5>3. rows' \in [Tasks -> Row]
          BY <5>1, <5>2 DEF TypeOK
        <5>4. ledger' \in [Tasks -> Seq(Event)]
          BY <5>1, <5>2 DEF TypeOK
        <5> QED BY <5>3, <5>4
      <4>3. CASE SwitchTask(w)
        <5>1. EndedRow(rows[t], "switched", req[w].now) \in Row
          BY <3>1, <3>3, EndedRowType DEF EndedByTurn
        <5>2. \A p \in Payloads : ActiveRow(1, p, req[w].now) \in Row
          BY <3>1, ActiveRowType
        <5>3. \A new \in Tasks :
                Append(ledger[new], [action |-> "switched", before |-> req[w].version - 1,
                                     after |-> 1]) \in Seq(Event)
          BY <3>2, FiledEventType DEF TypeOK, Tombstones, EndedByTurn
        <5>4. PICK new \in Tasks, p \in Payloads :
                 /\ rows' = [rows EXCEPT ![t] = EndedRow(rows[t], "switched", req[w].now),
                                         ![new] = ActiveRow(1, p, req[w].now)]
                 /\ ledger' = [ledger EXCEPT ![new] = Append(ledger[new],
                       [action |-> "switched", before |-> req[w].version - 1, after |-> 1])]
          BY <4>3 DEF SwitchTask
        <5>5. rows' \in [Tasks -> Row]
          BY <3>1, <5>1, <5>2, <5>4 DEF TypeOK
        <5>6. ledger' \in [Tasks -> Seq(Event)]
          BY <5>3, <5>4 DEF TypeOK
        <5> QED BY <5>5, <5>6
      <4> QED BY <2>7, <4>1, <4>2, <4>3 DEF CommitWin
    <3> QED BY <2>7, <3>4, RequestTypes DEF TypeOK, CommitWin
  <2>8. CASE CommitLose(w)
    BY <2>8, RequestTypes, ExpireType DEF TypeOK, CommitLose
  <2>9. CASE Drop(w)
    BY <2>9, RequestTypes DEF TypeOK, Drop
  <2> QED BY <1>3, <2>1, <2>2, <2>3, <2>4, <2>5, <2>6, <2>7, <2>8, <2>9 DEF RequestStep
<1>4. CASE BeginPurge
  BY <1>4 DEF TypeOK, BeginPurge, MaintPhase
<1>5. CASE BeginExpire
  BY <1>5 DEF TypeOK, BeginExpire, MaintPhase
<1>6. CASE ExpireStale
  BY <1>6, ExpireType DEF TypeOK, ExpireStale, MaintPhase
<1>7. CASE Purge
  BY <1>7, NoRowType DEF TypeOK, Purge, NoPass, MaintPhase
<1>8. CASE MaintenanceStops
  BY <1>8 DEF TypeOK, MaintenanceStops, NoPass, MaintPhase
<1> QED BY <1>1, <1>2, <1>3, <1>4, <1>5, <1>6, <1>7, <1>8 DEF Next, Maintenance

(* Types are right for every number of requests, tasks and tokens. *)
THEOREM TypesAreRight == Spec => []TypeOK
BY InitType, NextType, PTL DEF Spec

-----------------------------------------------------------------------------
(* What may happen to a row: everything below is proved from these six cases. *)

(* The clocks that requests and maintenance read are in the past. *)
NowsArePast ==
    /\ \A w \in Workers : req[w].now <= clock
    /\ maint.purgeNow <= clock /\ maint.expireNow <= clock

Issues(t) ==
    /\ rows[t].status = "unissued"
    /\ \E p \in Payloads, now \in Nat : now <= clock /\ rows'[t] = ActiveRow(1, p, now)

Claims(w, t) ==
    /\ rows[t].status = "active"
    /\ \E tok \in Tokens \ issued :
          /\ rows'[t] = ClaimedRow(rows[t], rows[t].version + 1, tok)
          /\ issued' = issued \cup {tok}
          /\ req' = [req EXCEPT ![w] = HeldRequest(t, req[w].now, rows[t].version + 1,
                                                  tok, rows[t].payload)]

Commits(w, t) ==
    /\ Holds(w, t) /\ req[w].pc = "commit"
    /\ \/ \E p \in Payloads : rows'[t] = ActiveRow(rows[t].version + 1, p, req[w].now)
       \/ \E s \in EndedByTurn : rows'[t] = EndedRow(rows[t], s, req[w].now)

Expires(t) ==
    /\ rows[t].status \in Live /\ rows[t].expires <= clock
    /\ rows'[t] = ExpiredRow(rows[t])

Purges(t) ==
    /\ rows[t].purgeAfter # NoTime /\ rows[t].purgeAfter <= clock
    /\ rows'[t] = NoRow("purged")

RowStep(t) ==
    \/ rows'[t] = rows[t]
    \/ Issues(t)
    \/ \E w \in Workers : Claims(w, t) \/ Commits(w, t)
    \/ Expires(t)
    \/ Purges(t)

(* The clocks are in the past at first, *)
LEMMA InitNows == Init => NowsArePast
BY DEF Init, NowsArePast, Idle, NoPass

(* and stay there, for time only grows. *)
LEMMA NextNows == TypeOK /\ NowsArePast /\ [Next]_vars => NowsArePast'
<1> SUFFICES ASSUME TypeOK, NowsArePast, [Next]_vars PROVE NowsArePast'
  OBVIOUS
<1> USE DEF NowsArePast
<1>0. clock \in Nat /\ \A w \in Workers : req[w].now \in Nat
  BY RequestFacts DEF TypeOK
<1>1. CASE UNCHANGED vars
  BY <1>1 DEF vars
<1>2. CASE Tick
  BY <1>0, <1>2 DEF Tick, TypeOK
<1>3. ASSUME NEW w \in Workers, RequestStep(w) PROVE NowsArePast'
  <2>0. StartRequest(clock).now = clock
        /\ \A t, v : ClaimRequest(t, clock, v).now = clock
    BY DEF StartRequest, ClaimRequest
  <2>1. CASE BeginStart(w) \/ BeginClaim(w)
    <3>1. \E r : req' = [req EXCEPT ![w] = r] /\ r.now = clock
      BY <2>0, <2>1 DEF BeginStart, BeginClaim
    <3> QED BY <1>0, <2>1, <3>1 DEF BeginStart, BeginClaim, TypeOK
  <2>2. CASE BeginCommit(w)
    <3>1. [req[w] EXCEPT !.pc = "commit", !.now = clock].now = clock
      BY DEF TypeOK, Request
    <3> QED BY <1>0, <2>2, <3>1 DEF BeginCommit, TypeOK
  <2>3. CASE Start(w) \/ ClaimLose(w) \/ CommitWin(w) \/ CommitLose(w) \/ Drop(w)
    BY <1>0, <2>3 DEF Start, ClaimLose, CommitWin, CommitLose, Drop, Idle, TypeOK
  <2>4. CASE ClaimWin(w)
    BY <1>0, <2>4 DEF ClaimWin, HeldRequest, TypeOK
  <2> QED BY <1>3, <2>1, <2>2, <2>3, <2>4 DEF RequestStep
<1>4. CASE Maintenance \/ MaintenanceStops
  BY <1>0, <1>4 DEF Maintenance, MaintenanceStops, BeginPurge, BeginExpire, ExpireStale,
                    Purge, NoPass, TypeOK
<1> QED BY <1>1, <1>2, <1>3, <1>4 DEF Next

(* Whoever expires rows expires live ones whose time has come. *)
LEMMA ExpireSteps ==
    ASSUME TypeOK, NEW ts, NEW now \in Nat, now <= clock, Expire(ts),
           \A x \in ts : Lapsed(rows[x], now), NEW t \in Tasks
    PROVE  rows'[t] = rows[t] \/ Expires(t)
<1>1. rows[t].expires \in Nat /\ clock \in Nat
  BY DEF TypeOK, Row
<1> QED BY <1>1 DEF Expire, Lapsed, Expires

(* A row changes in these six ways only. *)
LEMMA RowSteps ==
    ASSUME TypeOK, NowsArePast, [Next]_vars, NEW t \in Tasks
    PROVE  RowStep(t)
<1>0. rows \in [Tasks -> Row]
  BY DEF TypeOK
<1>1. CASE UNCHANGED vars \/ Tick
  BY <1>1 DEF vars, Tick, RowStep
<1>2. ASSUME NEW w \in Workers, RequestStep(w) PROVE RowStep(t)
  <2>0. req[w].now \in Nat /\ req[w].now <= clock
    BY RequestFacts DEF NowsArePast
  <2>1. CASE BeginStart(w) \/ BeginClaim(w) \/ BeginCommit(w) \/ Drop(w)
    BY <2>1 DEF BeginStart, BeginClaim, BeginCommit, Drop, RowStep
  <2>2. CASE Start(w)
    BY <1>0, <2>0, <2>2 DEF Start, RowStep, Issues
  <2>3. CASE ClaimWin(w)
    <3>1. PICK tok \in Tokens \ issued :
             /\ issued' = issued \cup {tok}
             /\ rows' = [rows EXCEPT ![req[w].task] =
                           ClaimedRow(rows[req[w].task], req[w].version + 1, tok)]
             /\ req' = [req EXCEPT ![w] =
                          HeldRequest(req[w].task, req[w].now, req[w].version + 1, tok,
                                      rows[req[w].task].payload)]
      BY <2>3 DEF ClaimWin
    <3>2. CASE t = req[w].task
      <4>1. rows[t].version = req[w].version /\ rows[t].status = "active"
        BY <2>3, <3>2 DEF ClaimWin, ClaimMatches
      <4>2. rows'[t] = ClaimedRow(rows[t], rows[t].version + 1, tok)
        BY <1>0, <3>1, <3>2, <4>1
      <4>3. Claims(w, t)
        BY <3>1, <3>2, <4>1, <4>2 DEF Claims
      <4> QED BY <4>3 DEF RowStep
    <3>3. CASE t # req[w].task
      BY <1>0, <3>1, <3>3 DEF RowStep
    <3> QED BY <3>2, <3>3
  <2>4. CASE ClaimLose(w)
    BY <2>0, <2>4, ExpireSteps DEF ClaimLose, RowStep
  <2>5. CASE CommitWin(w)
    <3>1. req[w].pc = "commit" /\ CommitMatches(w) /\ Holds(w, req[w].task)
      BY <2>5 DEF CommitWin, CommitMatches, Holds
    <3>2. CASE CommitActive(w)
      BY <1>0, <3>1, <3>2 DEF CommitActive, CommitMatches, RowStep, Commits
    <3>3. CASE CommitTerminal(w)
      BY <1>0, <3>1, <3>3 DEF CommitTerminal, RowStep, Commits, EndedByTurn
    <3>4. CASE SwitchTask(w)
      <4>1. PICK new \in Tasks, p \in Payloads :
               /\ rows[new].status = "unissued"
               /\ rows' = [rows EXCEPT
                     ![req[w].task] = EndedRow(rows[req[w].task], "switched", req[w].now),
                     ![new] = ActiveRow(1, p, req[w].now)]
        BY <3>4 DEF SwitchTask
      <4>2. req[w].task # new
        BY <3>1, <4>1 DEF CommitMatches
      <4>3. CASE t = new
        BY <1>0, <2>0, <4>1, <4>3 DEF RowStep, Issues
      <4>4. CASE t = req[w].task
        BY <1>0, <3>1, <4>1, <4>2, <4>4 DEF RowStep, Commits, EndedByTurn
      <4>5. CASE t # new /\ t # req[w].task
        BY <1>0, <4>1, <4>5 DEF RowStep
      <4> QED BY <4>3, <4>4, <4>5
    <3> QED BY <2>5, <3>2, <3>3, <3>4 DEF CommitWin
  <2>6. CASE CommitLose(w)
    BY <2>0, <2>6, ExpireSteps DEF CommitLose, RowStep
  <2> QED BY <1>2, <2>1, <2>2, <2>3, <2>4, <2>5, <2>6 DEF RequestStep
<1>3. CASE BeginPurge \/ BeginExpire \/ MaintenanceStops
  BY <1>3 DEF BeginPurge, BeginExpire, MaintenanceStops, RowStep
<1>4. CASE ExpireStale
  <2>1. maint.expireNow \in Nat /\ maint.expireNow <= clock
    BY DEF TypeOK, NowsArePast
  <2> QED BY <1>4, <2>1, ExpireSteps DEF ExpireStale, Stale, RowStep
<1>5. CASE Purge
  <2>1. maint.purgeNow \in Nat /\ maint.purgeNow <= clock /\ clock \in Nat
    BY DEF TypeOK, NowsArePast
  <2>2. PICK ts \in SUBSET Purgeable :
           rows' = [x \in Tasks |-> IF x \in ts THEN NoRow("purged") ELSE rows[x]]
    BY <1>5 DEF Purge
  <2>3. CASE t \in ts
    <3>1. rows[t].purgeAfter # NoTime /\ rows[t].purgeAfter <= maint.purgeNow
      BY <2>3 DEF Purgeable
    <3>2. rows[t].purgeAfter \in Nat
      BY <1>0, <3>1 DEF Row
    <3> QED BY <2>1, <2>2, <2>3, <3>1, <3>2 DEF RowStep, Purges
  <2>4. CASE t \notin ts
    BY <2>2, <2>4 DEF RowStep
  <2> QED BY <2>3, <2>4
<1> QED BY <1>1, <1>2, <1>3, <1>4, <1>5 DEF Next, Maintenance
-----------------------------------------------------------------------------
(* What may happen to a request. *)

Holding(w) == req[w].pc \in {"held", "commit"}

ReadsCommitClock(w) ==
    /\ req[w].pc = "held" /\ req'[w].pc = "commit" /\ req'[w].now = clock
    /\ req'[w].task = req[w].task /\ req'[w].version = req[w].version
    /\ req'[w].token = req[w].token /\ req'[w].seen = req[w].seen
    /\ UNCHANGED <<clock, rows, issued>>

ReqStep(w) ==
    \/ req'[w] = req[w]
    \/ req'[w].pc \notin {"held", "commit"}
    \/ ReadsCommitClock(w)
    \/ \E t \in Tasks : Claims(w, t)

(* A request that holds a claim held it before, has just read the clock for *)
(* its commit, or has just won the claim.                                    *)
LEMMA RequestSteps ==
    ASSUME TypeOK, [Next]_vars, NEW w \in Workers
    PROVE  ReqStep(w)
<1>0. req \in [Workers -> Request]
  BY DEF TypeOK
<1>1. CASE UNCHANGED vars \/ Tick \/ Maintenance \/ MaintenanceStops
  BY <1>1 DEF vars, Tick, Maintenance, BeginPurge, BeginExpire, ExpireStale, Purge,
              MaintenanceStops, ReqStep
<1>2. ASSUME NEW v \in Workers, RequestStep(v) PROVE ReqStep(w)
  <2>1. CASE BeginStart(v) \/ BeginClaim(v)
    <3>1. \E r : req' = [req EXCEPT ![v] = r] /\ r.pc \notin {"held", "commit"}
      BY <2>1 DEF BeginStart, BeginClaim, StartRequest, ClaimRequest
    <3> QED BY <1>0, <3>1 DEF ReqStep
  <2>2. CASE BeginCommit(v)
    <3>1. CASE w = v
      <4>1. req'[w] = [req[w] EXCEPT !.pc = "commit", !.now = clock]
        BY <1>0, <2>2, <3>1 DEF BeginCommit
      <4>2. req[w] \in [pc: {"held", "commit"}, task: Tasks, now: Nat, version: Nat \ {0},
                        token: Tokens, seen: Payloads \cup {NoPayload}]
        BY <1>0, <2>2, <3>1 DEF BeginCommit, Request
      <4> QED BY <2>2, <3>1, <4>1, <4>2 DEF BeginCommit, ReqStep, ReadsCommitClock
    <3>2. CASE w # v
      BY <1>0, <2>2, <3>2 DEF BeginCommit, ReqStep
    <3> QED BY <3>1, <3>2
  <2>3. CASE Start(v) \/ ClaimLose(v) \/ CommitWin(v) \/ CommitLose(v) \/ Drop(v)
    BY <1>0, <2>3 DEF Start, ClaimLose, CommitWin, CommitLose, Drop, Idle, ReqStep
  <2>4. CASE ClaimWin(v)
    <3>1. CASE w = v
      <4>1. req[v].task \in Tasks /\ rows \in [Tasks -> Row]
        BY <2>4, RequestFacts DEF ClaimWin, TypeOK
      <4>2. Claims(v, req[v].task)
        BY <2>4, <4>1 DEF ClaimWin, ClaimMatches, Claims
      <4> QED BY <3>1, <4>1, <4>2 DEF ReqStep
    <3>2. CASE w # v
      BY <1>0, <2>4, <3>2 DEF ClaimWin, ReqStep
    <3> QED BY <3>1, <3>2
  <2> QED BY <1>2, <2>1, <2>2, <2>3, <2>4 DEF RequestStep
<1> QED BY <1>1, <1>2 DEF Next

(* Time runs forward and a token, once drawn, stays drawn. *)
LEMMA OnlyGrows ==
    ASSUME TypeOK, [Next]_vars
    PROVE  clock <= clock' /\ issued \subseteq issued'
<1>1. ASSUME NEW w \in Workers, RequestStep(w) PROVE clock' = clock /\ issued \subseteq issued'
  BY <1>1 DEF RequestStep, BeginStart, Start, BeginClaim, ClaimWin, ClaimLose, BeginCommit,
              CommitWin, CommitLose, Drop
<1>2. CASE UNCHANGED vars \/ Tick \/ Maintenance \/ MaintenanceStops
  BY <1>2 DEF vars, Tick, Maintenance, BeginPurge, BeginExpire, ExpireStale, Purge,
              MaintenanceStops, TypeOK
<1> QED BY <1>1, <1>2 DEF Next, TypeOK

-----------------------------------------------------------------------------
(* The inductive invariant. Columns agree because a claim starts from an     *)
(* active row; the rest is what the clocks leave: a lease never reaches past *)
(* TTL from now, nor past TTL from the clock its holder read to commit.      *)

Leases ==
    \A t \in Tasks : rows[t].status \in Live => rows[t].expires <= clock + TTL

TokensDrawn ==
    /\ \A w \in Workers : Holding(w) => req[w].token \in issued
    /\ \A t \in Tasks : rows[t].status = "claimed" => rows[t].token \in issued

TokensDiffer ==
    \A v, w \in Workers :
        Holding(v) /\ Holding(w) /\ req[v].token = req[w].token => v = w

CommitOutlives ==
    \A t \in Tasks, w \in Workers :
        Holds(w, t) /\ req[w].pc = "commit" => rows[t].expires <= req[w].now + TTL

RowInv == ColumnsAgree /\ Leases

ClaimInv == TokensDrawn /\ TokensDiffer /\ HolderSawTheRow /\ CommitOutlives

StoreInv == TypeOK /\ NowsArePast /\ RowInv /\ ClaimInv

(* The empty tables satisfy it. *)
LEMMA InitInv == Init => StoreInv
<1> SUFFICES ASSUME Init PROVE StoreInv
  OBVIOUS
<1>1. ColumnsAgree
  BY DEF Init, ColumnsAgree, Agrees, NoRow, Live, Tombstones, EndedByTurn
<1>2. Leases
  BY DEF Init, Leases, NoRow, Live
<1>3. ClaimInv
  BY DEF Init, ClaimInv, TokensDrawn, TokensDiffer, HolderSawTheRow, CommitOutlives,
         Holding, Holds, Idle, NoRow
<1> QED BY <1>1, <1>2, <1>3, InitType, InitNows DEF StoreInv, RowInv

(* What a commit writes: an active row with a new lease, or a tombstone. *)
LEMMA CommittedRow ==
    ASSUME NEW w \in Workers, NEW t \in Tasks, Commits(w, t)
    PROVE  /\ rows'[t].version = rows[t].version + 1 /\ rows'[t].token = NoToken
           /\ \/ /\ rows'[t].status = "active" /\ rows'[t].payload \in Payloads
                 /\ rows'[t].expires = req[w].now + TTL /\ rows'[t].purgeAfter = NoTime
              \/ /\ rows'[t].status \in EndedByTurn /\ rows'[t].payload = NoPayload
                 /\ rows'[t].purgeAfter = req[w].now + Retention
<1>1. CASE \E p \in Payloads : rows'[t] = ActiveRow(rows[t].version + 1, p, req[w].now)
  BY <1>1 DEF ActiveRow
<1>2. CASE \E s \in EndedByTurn : rows'[t] = EndedRow(rows[t], s, req[w].now)
  BY <1>2 DEF EndedRow
<1> QED BY <1>1, <1>2 DEF Commits

(* Every way a row may change leaves its columns agreeing, *)
LEMMA RowsKeepAgreeing ==
    ASSUME StoreInv, NEW t \in Tasks, RowStep(t)
    PROVE  Agrees(rows'[t])
<1> USE NullsAssumption, TimesAssumption DEF Agrees, Live, Tombstones, EndedByTurn, NoTime
<1>0. rows[t] \in Row /\ Agrees(rows[t])
  BY DEF StoreInv, TypeOK, RowInv, ColumnsAgree
<1>1. CASE Issues(t)
  BY <1>1 DEF Issues, ActiveRow
<1>2. ASSUME NEW w \in Workers, Claims(w, t) PROVE Agrees(rows'[t])
  BY <1>0, <1>2 DEF Claims, ClaimedRow
<1>3. ASSUME NEW w \in Workers, Commits(w, t) PROVE Agrees(rows'[t])
  <2>1. req[w].now \in Nat
    BY RequestFacts DEF StoreInv
  <2> QED BY <1>3, <2>1, CommittedRow
<1>4. CASE Expires(t)
  <2>1. /\ rows'[t].status = "expired" /\ rows'[t].token = NoToken
        /\ rows'[t].payload = NoPayload
        /\ rows'[t].purgeAfter = rows[t].expires + Retention
    BY <1>4 DEF Expires, ExpiredRow
  <2>2. rows[t].expires + Retention # NoTime
    BY <1>0 DEF Row
  <2> QED BY <2>1, <2>2
<1>5. CASE Purges(t)
  BY <1>5 DEF Purges, NoRow
<1> QED BY <1>0, <1>1, <1>2, <1>3, <1>4, <1>5 DEF RowStep

(* and a live lease within TTL of the clock. *)
LEMMA RowsKeepLeases ==
    ASSUME StoreInv, NEW t \in Tasks, RowStep(t), clock <= clock', clock' \in Nat,
           rows'[t].status \in Live
    PROVE  rows'[t].expires <= clock' + TTL
<1> USE TimesAssumption DEF Live
<1>0. /\ rows[t] \in Row /\ clock \in Nat
      /\ rows[t].status \in Live => rows[t].expires <= clock + TTL
  BY DEF StoreInv, TypeOK, RowInv, Leases
<1>1. CASE Issues(t)
  <2>1. PICK p \in Payloads, now \in Nat :
           now <= clock /\ rows'[t] = ActiveRow(1, p, now)
    BY <1>1 DEF Issues
  <2>2. rows'[t].expires = now + TTL
    BY <2>1 DEF ActiveRow
  <2> QED BY <1>0, <2>1, <2>2
<1>2. ASSUME NEW w \in Workers, Claims(w, t) PROVE rows'[t].expires <= clock' + TTL
  BY <1>0, <1>2 DEF Claims, ClaimedRow, Row
<1>3. ASSUME NEW w \in Workers, Commits(w, t) PROVE rows'[t].expires <= clock' + TTL
  <2>1. req[w].now \in Nat /\ req[w].now <= clock
    BY RequestFacts DEF StoreInv, NowsArePast
  <2> QED BY <1>0, <1>3, <2>1, CommittedRow DEF EndedByTurn
<1>4. CASE Expires(t) \/ Purges(t)
  BY <1>4 DEF Expires, ExpiredRow, Purges, NoRow
<1>5. CASE rows'[t] = rows[t]
  BY <1>0, <1>5 DEF Row
<1> QED BY <1>1, <1>2, <1>3, <1>4, <1>5 DEF RowStep

(* Tokens stay distinct, for one is drawn only once. *)
LEMMA TokensStayDistinct ==
    ASSUME StoreInv, [Next]_vars
    PROVE  TokensDrawn' /\ TokensDiffer'
<1>0. /\ TokensDrawn /\ TokensDiffer /\ issued \subseteq issued'
      /\ \A w \in Workers : ReqStep(w)
      /\ \A t \in Tasks : RowStep(t)
      /\ req \in [Workers -> Request]
  BY RequestSteps, RowSteps, OnlyGrows DEF StoreInv, ClaimInv, TypeOK
<1>1. ASSUME NEW w \in Workers, Holding(w)'
      PROVE  \/ Holding(w) /\ req'[w].token = req[w].token
             \/ \E t \in Tasks : Claims(w, t)
  BY <1>0, <1>1 DEF ReqStep, ReadsCommitClock, Holding
<1>2. ASSUME NEW w \in Workers, NEW t \in Tasks, Claims(w, t)
      PROVE  /\ req'[w].token \in issued' \ issued
             /\ \A v \in Workers \ {w} : req'[v] = req[v]
  <2>1. PICK tok \in Tokens \ issued :
           /\ issued' = issued \cup {tok}
           /\ req' = [req EXCEPT ![w] = HeldRequest(t, req[w].now, rows[t].version + 1,
                                                   tok, rows[t].payload)]
    BY <1>2 DEF Claims
  <2>2. req'[w].token = tok
    BY <1>0, <2>1 DEF HeldRequest
  <2> QED BY <1>0, <2>1, <2>2
<1>3. \A w \in Workers : Holding(w)' => req'[w].token \in issued'
  BY <1>0, <1>1, <1>2 DEF TokensDrawn
<1>4. ASSUME NEW t \in Tasks, rows'[t].status = "claimed"
      PROVE  rows'[t].token \in issued'
  <2>1. CASE \E w \in Workers : Claims(w, t)
    BY <2>1 DEF Claims, ClaimedRow
  <2>2. CASE \E w \in Workers : Commits(w, t)
    BY <1>4, <2>2, CommittedRow DEF EndedByTurn
  <2>3. CASE Issues(t)
    BY <1>4, <2>3 DEF Issues, ActiveRow
  <2>4. CASE Expires(t) \/ Purges(t)
    BY <1>4, <2>4 DEF Expires, ExpiredRow, Purges, NoRow
  <2>5. CASE rows'[t] = rows[t]
    BY <1>0, <1>4, <2>5 DEF TokensDrawn
  <2> QED BY <1>0, <2>1, <2>2, <2>3, <2>4, <2>5 DEF RowStep
<1>5. ASSUME NEW v \in Workers, NEW w \in Workers, Holding(v)', Holding(w)',
             req'[v].token = req'[w].token, v # w
      PROVE  FALSE
  <2>1. CASE \E t \in Tasks : Claims(w, t)
    <3>1. req'[w].token \notin issued /\ req'[v] = req[v]
      BY <1>2, <1>5, <2>1
    <3>2. Holding(v)
      BY <1>5, <3>1 DEF Holding
    <3> QED BY <1>0, <1>5, <3>1, <3>2 DEF TokensDrawn
  <2>2. CASE \E t \in Tasks : Claims(v, t)
    <3>1. req'[v].token \notin issued /\ req'[w] = req[w]
      BY <1>2, <1>5, <2>2
    <3>2. Holding(w)
      BY <1>5, <3>1 DEF Holding
    <3> QED BY <1>0, <1>5, <3>1, <3>2 DEF TokensDrawn
  <2>3. CASE ~(\E t \in Tasks : Claims(w, t)) /\ ~(\E t \in Tasks : Claims(v, t))
    BY <1>0, <1>1, <1>5, <2>3 DEF TokensDiffer
  <2> QED BY <2>1, <2>2, <2>3
<1>6. TokensDrawn'
  BY <1>3, <1>4 DEF TokensDrawn
<1> QED BY <1>5, <1>6 DEF TokensDiffer

(* A claim that is held after a step was held before it, or was won by it; *)
(* in the first case the step left its row alone.                           *)
LEMMA HoldingPersists ==
    ASSUME StoreInv, [Next]_vars, NEW w \in Workers, NEW t \in Tasks, Holds(w, t)'
    PROVE  \/ Claims(w, t)
           \/ /\ Holds(w, t) /\ rows'[t] = rows[t]
              /\ req'[w] = req[w] \/ ReadsCommitClock(w)
<1>0. /\ TokensDrawn /\ ReqStep(w) /\ RowStep(t)
      /\ req'[w].pc \in {"held", "commit"} /\ req'[w].task = t
      /\ rows'[t].status = "claimed" /\ rows'[t].token = req'[w].token
      /\ req \in [Workers -> Request]
  BY RequestSteps, RowSteps DEF StoreInv, ClaimInv, Holds, TypeOK
<1>1. ASSUME NEW s \in Tasks, Claims(w, s) PROVE s = t
  BY <1>0, <1>1 DEF Claims, HeldRequest
<1>2. CASE Holding(w) /\ req'[w].task = req[w].task /\ req'[w].token = req[w].token
           /\ (req'[w] = req[w] \/ ReadsCommitClock(w))
  <2>1. req[w].token \in issued
    BY <1>2 DEF StoreInv, ClaimInv, TokensDrawn
  <2>2. rows'[t] = rows[t]
    <3>1. ASSUME NEW v \in Workers, Claims(v, t) PROVE FALSE
      <4>1. PICK tok \in Tokens \ issued : rows'[t] = ClaimedRow(rows[t], rows[t].version + 1, tok)
        BY <3>1 DEF Claims
      <4> QED BY <1>0, <1>2, <2>1, <4>1 DEF ClaimedRow
    <3>2. ASSUME NEW v \in Workers, Commits(v, t) PROVE FALSE
      BY <1>0, <3>2, CommittedRow DEF EndedByTurn
    <3>3. ~Issues(t) /\ ~Expires(t) /\ ~Purges(t)
      <4>1. ~Issues(t)
        <5>1. Issues(t) => rows'[t].status = "active"
          BY DEF Issues, ActiveRow
        <5> QED BY <1>0, <5>1
      <4>2. ~Expires(t) /\ ~Purges(t)
        BY <1>0 DEF Expires, ExpiredRow, Purges, NoRow
      <4> QED BY <4>1, <4>2
    <3> QED BY <1>0, <3>1, <3>2, <3>3 DEF RowStep
  <2> QED BY <1>0, <1>2, <2>2 DEF Holds, Holding
<1>3. CASE \E s \in Tasks : Claims(w, s)
  BY <1>1, <1>3
<1> QED BY <1>0, <1>2, <1>3 DEF ReqStep, ReadsCommitClock, Holding

(* The invariant is inductive. *)
LEMMA NextInv == StoreInv /\ [Next]_vars => StoreInv'
<1> SUFFICES ASSUME StoreInv, [Next]_vars PROVE StoreInv'
  OBVIOUS
<1>1. TypeOK' /\ NowsArePast'
  BY NextType, NextNows DEF StoreInv
<1>2. /\ \A t \in Tasks : RowStep(t)
      /\ clock <= clock' /\ clock' \in Nat
  BY <1>1, RowSteps, OnlyGrows DEF StoreInv, TypeOK
<1>3. RowInv'
  BY <1>2, RowsKeepAgreeing, RowsKeepLeases DEF RowInv, ColumnsAgree, Leases
<1>4. HolderSawTheRow'
  <2> SUFFICES ASSUME NEW t \in Tasks, NEW w \in Workers, Holds(w, t)'
               PROVE  rows'[t].version = req'[w].version /\ rows'[t].payload = req'[w].seen
    BY DEF HolderSawTheRow
  <2>1. CASE Claims(w, t)
    <3>1. PICK tok \in Tokens :
             /\ rows'[t] = ClaimedRow(rows[t], rows[t].version + 1, tok)
             /\ req' = [req EXCEPT ![w] = HeldRequest(t, req[w].now, rows[t].version + 1,
                                                     tok, rows[t].payload)]
      BY <2>1 DEF Claims
    <3>2. req'[w] = HeldRequest(t, req[w].now, rows[t].version + 1, tok, rows[t].payload)
      BY <3>1 DEF StoreInv, TypeOK
    <3> QED BY <3>1, <3>2 DEF ClaimedRow, HeldRequest
  <2>2. CASE Holds(w, t) /\ rows'[t] = rows[t] /\ (req'[w] = req[w] \/ ReadsCommitClock(w))
    BY <2>2 DEF StoreInv, ClaimInv, HolderSawTheRow, ReadsCommitClock
  <2> QED BY <2>1, <2>2, HoldingPersists
<1>5. CommitOutlives'
  <2> SUFFICES ASSUME NEW t \in Tasks, NEW w \in Workers, Holds(w, t)',
                      req'[w].pc = "commit"
               PROVE  rows'[t].expires <= req'[w].now + TTL
    BY DEF CommitOutlives
  <2>1. CASE Claims(w, t)
    BY <2>1 DEF Claims, HeldRequest, StoreInv, TypeOK
  <2>2. CASE Holds(w, t) /\ rows'[t] = rows[t] /\ req'[w] = req[w]
    BY <2>2 DEF StoreInv, ClaimInv, CommitOutlives
  <2>3. CASE Holds(w, t) /\ rows'[t] = rows[t] /\ ReadsCommitClock(w)
    BY <2>3 DEF StoreInv, RowInv, Leases, Live, Holds, ReadsCommitClock
  <2> QED BY <2>1, <2>2, <2>3, HoldingPersists
<1> QED BY <1>1, <1>3, <1>4, <1>5, TokensStayDistinct DEF StoreInv, ClaimInv

(* So it holds throughout. *)
LEMMA StoreInvHolds == Spec => []StoreInv
BY InitInv, NextInv, PTL DEF Spec

-----------------------------------------------------------------------------
(* What the store promises. *)

(* In every row of the table the status tells what the other columns hold. *)
THEOREM ColumnsAlwaysAgree == Spec => []ColumnsAgree
<1>1. StoreInv => ColumnsAgree
  BY DEF StoreInv, RowInv
<1> QED BY <1>1, StoreInvHolds, PTL

(* A claim is one turn's alone: no two requests ever hold the same task. *)
THEOREM NeverTwoHolders == Spec => []OneHolder
<1>1. StoreInv => OneHolder
  BY DEF StoreInv, ClaimInv, TokensDiffer, Holding, OneHolder, Holds
<1> QED BY <1>1, StoreInvHolds, PTL

(* No update is lost: what a holder read is what its commit will replace. *)
THEOREM NoLostUpdate == Spec => []HolderSawTheRow
<1>1. StoreInv => HolderSawTheRow
  BY DEF StoreInv, ClaimInv
<1> QED BY <1>1, StoreInvHolds, PTL

(* A claim is taken from its holder by nothing but an expiry that is due. *)
THEOREM ClaimsAreSafe == Spec => ClaimEndsByHolderOrExpiry
<1>1. ASSUME StoreInv, [Next]_vars, NEW t \in Tasks,
             rows[t].status = "claimed", rows'[t] # rows[t]
      PROVE  \/ \E w \in Workers : Holds(w, t) /\ req[w].pc = "commit"
                                    /\ rows'[t].version = rows[t].version + 1
             \/ rows'[t].status = "expired" /\ rows[t].expires <= clock
  <2>1. RowStep(t) /\ Agrees(rows[t])
    BY <1>1, RowSteps DEF StoreInv, RowInv, ColumnsAgree
  <2>2. ~Issues(t) /\ (\A w \in Workers : ~Claims(w, t))
    BY <1>1 DEF Issues, Claims
  <2>3. ~Purges(t)
    BY <1>1, <2>1 DEF Purges, Agrees, Tombstones, EndedByTurn
  <2>4. ASSUME NEW w \in Workers, Commits(w, t)
        PROVE  /\ Holds(w, t) /\ req[w].pc = "commit"
               /\ rows'[t].version = rows[t].version + 1
    BY <2>4, CommittedRow DEF Commits
  <2>5. ASSUME Expires(t)
        PROVE  rows'[t].status = "expired" /\ rows[t].expires <= clock
    BY <2>5 DEF Expires, ExpiredRow
  <2> QED BY <1>1, <2>1, <2>2, <2>3, <2>4, <2>5 DEF RowStep
<1>2. StoreInv /\ [Next]_vars =>
        [\A t \in Tasks : rows[t].status = "claimed" /\ rows'[t] # rows[t] =>
          \/ \E w \in Workers : Holds(w, t) /\ req[w].pc = "commit"
                               /\ rows'[t].version = rows[t].version + 1
          \/ rows'[t].status = "expired" /\ rows[t].expires <= clock]_vars
  BY <1>1
<1> QED BY <1>2, StoreInvHolds, PTL DEF Spec, ClaimEndsByHolderOrExpiry

(* No write to a live task brings its expiry forward, however long ago the *)
(* writer read its clock.                                                   *)
THEOREM LeasesNeverShorten == Spec => LeaseNeverShortens
<1>1. ASSUME StoreInv, [Next]_vars, NEW t \in Tasks,
             rows[t].status \in Live, rows'[t].status \in Live
      PROVE  rows'[t].expires >= rows[t].expires
  <2>1. RowStep(t) /\ rows[t].expires \in Nat
    BY <1>1, RowSteps DEF StoreInv, TypeOK, Row
  <2>2. ~Issues(t)
    BY <1>1 DEF Issues, Live
  <2>3. ~Expires(t) /\ ~Purges(t)
    BY <1>1 DEF Expires, ExpiredRow, Purges, NoRow, Live
  <2>4. ASSUME NEW w \in Workers, Claims(w, t) PROVE rows'[t].expires = rows[t].expires
    BY <2>4 DEF Claims, ClaimedRow
  <2>5. ASSUME NEW w \in Workers, Commits(w, t)
        PROVE  rows'[t].expires >= rows[t].expires
    <3>1. req[w].now \in Nat /\ rows[t].expires <= req[w].now + TTL
      BY <1>1, <2>5, RequestFacts DEF StoreInv, ClaimInv, CommitOutlives, Commits
    <3>2. rows'[t].expires = req[w].now + TTL
      BY <1>1, <2>5, CommittedRow DEF Live, EndedByTurn
    <3> QED BY <2>1, <3>1, <3>2, TimesAssumption
  <2> QED BY <2>1, <2>2, <2>3, <2>4, <2>5 DEF RowStep
<1>2. StoreInv /\ [Next]_vars =>
        [\A t \in Tasks : rows[t].status \in Live /\ rows'[t].status \in Live
            => rows'[t].expires >= rows[t].expires]_vars
  BY <1>1
<1> QED BY <1>2, StoreInvHolds, PTL DEF Spec, LeaseNeverShortens

(* The events of an ended task are left alone as long as its row is there: a *)
(* statement that files one does so for a row that is, or becomes, live.     *)
LEMMA EndedKeepEvents ==
    ASSUME TypeOK, [Next]_vars, NEW t \in Tasks, rows[t].status \in Tombstones, HasRow(t)'
    PROVE  ledger'[t] = ledger[t]
<1>0. rows \in [Tasks -> Row] /\ ledger \in [Tasks -> Seq(Event)]
  BY DEF TypeOK
<1>1. ASSUME NEW ts, Expire(ts), \A x \in ts : rows[x].status \in Live
      PROVE  ledger'[t] = ledger[t]
  <2>1. t \notin ts
    BY <1>1 DEF Live, Tombstones, EndedByTurn
  <2> QED BY <1>1, <2>1 DEF Expire
<1>2. ASSUME NEW u \in Tasks, NEW e, ledger' = [ledger EXCEPT ![u] = Append(@, e)], t # u
      PROVE  ledger'[t] = ledger[t]
  BY <1>0, <1>2
<1>3. ASSUME NEW w \in Workers, RequestStep(w) PROVE ledger'[t] = ledger[t]
  <2>1. CASE BeginStart(w) \/ BeginClaim(w) \/ BeginCommit(w) \/ Drop(w)
    BY <2>1 DEF BeginStart, BeginClaim, BeginCommit, Drop
  <2>2. CASE Start(w)
    <3>1. PICK u \in Tasks :
            /\ rows[u].status = "unissued"
            /\ ledger' = [ledger EXCEPT ![u] =
                            Append(@, [action |-> "started", before |-> 0, after |-> 1])]
      BY <2>2 DEF Start
    <3>2. t # u
      BY <3>1 DEF Tombstones, EndedByTurn
    <3> QED BY <1>2, <3>1, <3>2
  <2>3. CASE ClaimWin(w)
    <3>1. /\ req[w].task \in Tasks /\ rows[req[w].task].status = "active"
          /\ \E e : ledger' = [ledger EXCEPT ![req[w].task] = Append(@, e)]
      BY <2>3, RequestFacts DEF ClaimWin, ClaimMatches
    <3>2. t # req[w].task
      BY <3>1 DEF Tombstones, EndedByTurn
    <3> QED BY <1>2, <3>1, <3>2
  <2>4. CASE ClaimLose(w)
    BY <1>1, <2>4 DEF ClaimLose, Lapsed
  <2>5. CASE CommitWin(w)
    <3>1. req[w].task \in Tasks /\ rows[req[w].task].status = "claimed"
      BY <2>5, RequestFacts DEF CommitWin, CommitMatches
    <3>2. t # req[w].task
      BY <3>1 DEF Tombstones, EndedByTurn
    <3>3. CASE CommitActive(w) \/ CommitTerminal(w)
      <4>1. \E e : ledger' = [ledger EXCEPT ![req[w].task] = Append(@, e)]
        BY <3>3 DEF CommitActive, CommitTerminal
      <4> QED BY <1>2, <3>1, <3>2, <4>1
    <3>4. CASE SwitchTask(w)
      <4>1. PICK u \in Tasks :
              /\ rows[u].status = "unissued"
              /\ \E e : ledger' = [ledger EXCEPT ![u] = Append(@, e)]
        BY <3>4 DEF SwitchTask
      <4>2. t # u
        BY <4>1 DEF Tombstones, EndedByTurn
      <4> QED BY <1>2, <4>1, <4>2
    <3> QED BY <2>5, <3>3, <3>4 DEF CommitWin
  <2>6. CASE CommitLose(w)
    BY <1>1, <2>6 DEF CommitLose, Lapsed
  <2> QED BY <1>3, <2>1, <2>2, <2>3, <2>4, <2>5, <2>6 DEF RequestStep
<1>4. CASE BeginPurge \/ BeginExpire \/ MaintenanceStops \/ Tick \/ UNCHANGED vars
  BY <1>4 DEF BeginPurge, BeginExpire, MaintenanceStops, Tick, vars
<1>5. CASE ExpireStale
  BY <1>1, <1>5 DEF ExpireStale, Stale, Lapsed
<1>6. CASE Purge
  <2>1. PICK ts : /\ rows' = [x \in Tasks |-> IF x \in ts THEN NoRow("purged") ELSE rows[x]]
                  /\ ledger' = [x \in Tasks |-> IF x \in ts THEN <<>> ELSE ledger[x]]
    BY <1>6 DEF Purge
  <2>2. t \notin ts
    BY <2>1 DEF HasRow, NoRow
  <2> QED BY <2>1, <2>2
<1> QED BY <1>3, <1>4, <1>5, <1>6 DEF Next, Maintenance

(* No task disappears before its retention has passed, however it ended: a    *)
(* live row ends with a full retention ahead, and an ended one, events        *)
(* included, stays as it is until then.                                       *)
THEOREM RetentionIsHonoured == Spec => RetentionHonoured
<1>1. ASSUME StoreInv, [Next]_vars, NEW t \in Tasks, rows[t].status \in Live
      PROVE  rows'[t].status \in Live \/ EndsWithRetention(t)
  <2>0. RowStep(t) /\ Agrees(rows[t]) /\ rows[t] \in Row
    BY <1>1, RowSteps DEF StoreInv, TypeOK, RowInv, ColumnsAgree
  <2>1. CASE rows'[t] = rows[t] \/ Issues(t)
    BY <1>1, <2>1 DEF Issues, Live
  <2>2. ASSUME NEW w \in Workers, Claims(w, t) PROVE rows'[t].status \in Live
    BY <2>2 DEF Claims, ClaimedRow, Live
  <2>3. ASSUME NEW w \in Workers, Commits(w, t)
        PROVE  rows'[t].status \in Live \/ EndsWithRetention(t)
    <3>1. Holds(w, t) /\ req[w].pc = "commit" /\ req[w].now + Retention \in Int
      BY <1>1, <2>3, RequestFacts, TimesAssumption DEF Commits, StoreInv
    <3> QED BY <2>3, <3>1, CommittedRow DEF EndsWithRetention, Live
  <2>4. CASE Expires(t)
    <3>1. rows'[t].status = "expired" /\ rows'[t].purgeAfter = rows[t].expires + Retention
      BY <2>4 DEF Expires, ExpiredRow
    <3>2. rows[t].expires + Retention \in Int
      BY <2>0, TimesAssumption DEF Row
    <3> QED BY <3>1, <3>2 DEF EndsWithRetention
  <2>5. ~Purges(t)
    BY <1>1, <2>0 DEF Purges, Agrees, Live, Tombstones, EndedByTurn
  <2> QED BY <2>0, <2>1, <2>2, <2>3, <2>4, <2>5 DEF RowStep
<1>2. ASSUME StoreInv, [Next]_vars, NEW t \in Tasks, rows[t].status \in Tombstones
      PROVE  \/ rows'[t] = rows[t] /\ ledger'[t] = ledger[t]
             \/ ~HasRow(t)' /\ rows[t].purgeAfter <= clock
  <2>1. RowStep(t)
    BY <1>2, RowSteps DEF StoreInv
  <2>2. ~Issues(t) /\ ~Expires(t) /\ \A w \in Workers : ~Claims(w, t) /\ ~Commits(w, t)
    BY <1>2 DEF Issues, Expires, Claims, Commits, Holds, Live, Tombstones, EndedByTurn
  <2>3. CASE rows'[t] = rows[t]
    <3>1. HasRow(t)'
      BY <1>2, <2>3 DEF HasRow, Tombstones, EndedByTurn
    <3> QED BY <1>2, <2>3, <3>1, EndedKeepEvents DEF StoreInv
  <2>4. CASE Purges(t)
    BY <2>4 DEF Purges, HasRow, NoRow
  <2> QED BY <2>1, <2>2, <2>3, <2>4 DEF RowStep
<1>3. StoreInv /\ [Next]_vars =>
        [\A t \in Tasks :
          /\ rows[t].status \in Live => rows'[t].status \in Live \/ EndsWithRetention(t)
          /\ rows[t].status \in Tombstones =>
                \/ rows'[t] = rows[t] /\ ledger'[t] = ledger[t]
                \/ ~HasRow(t)' /\ rows[t].purgeAfter <= clock]_vars
  BY <1>1, <1>2
<1> QED BY <1>3, StoreInvHolds, PTL DEF Spec, RetentionHonoured

-----------------------------------------------------------------------------
(* What the event ledger tells.                                             *)
(*                                                                          *)
(* Neither property is inductive alone: that a claim may follow the last    *)
(* event needs the row to agree with it, and that an outcome names the      *)
(* version its claim named needs the claim on file to be one step long.     *)
(* FiledInv carries both for every task.                                    *)

Gone == {"unissued", "purged"}

LastOf(l) == l[Len(l)]

LegalHistory(l) == \A i \in 1..(Len(l) - 1) : LegalSuccessor(l[i], l[i + 1])

(* The last event tells status s and version v of a row. *)
Tells(e, s, v) ==
    IF s = "switched" THEN e.action = "claimed" /\ v = e.after + 1
                      ELSE s = StatusAfter(e) /\ v = e.after

(* What is on file for a task whose row has status s and version v. *)
Filed(l, s, v) ==
    /\ LegalHistory(l)
    /\ s \in Gone => l = <<>>
    /\ s \notin Gone =>
          /\ l # <<>> /\ Tells(LastOf(l), s, v)
          /\ LastOf(l).action = "claimed" => LastOf(l).after = LastOf(l).before + 1

FiledInv == \A t \in Tasks : Filed(ledger[t], rows[t].status, rows[t].version)

LedgerInv == TypeOK /\ FiledInv

-----------------------------------------------------------------------------
(* Filing one event after another. *)
LEMMA AppendedEvent ==
    ASSUME NEW l \in Seq(Event), LegalHistory(l), NEW e \in Event,
           l # <<>> => LegalSuccessor(LastOf(l), e)
    PROVE  /\ LegalHistory(Append(l, e)) /\ Append(l, e) # <<>>
           /\ LastOf(Append(l, e)) = e
<1> DEFINE m == Append(l, e)
           n == Len(l)
<1>1. /\ n \in Nat /\ Len(m) = n + 1 /\ m[n + 1] = e
      /\ \A i \in 1..n : m[i] = l[i]
  OBVIOUS
<1>2. n # 0 => l # <<>>
  OBVIOUS
<1>3. m # <<>> /\ LastOf(m) = e
  <2>1. LastOf(m) = e
    BY <1>1 DEF LastOf
  <2>2. m # <<>>
    OBVIOUS
  <2> QED BY <2>1, <2>2
<1>4. l # <<>> => LegalSuccessor(l[n], e)
  BY DEF LastOf
<1>5. \A i \in 1..(n - 1) : LegalSuccessor(l[i], l[i + 1])
  BY DEF LegalHistory
<1> HIDE DEF m, n
<1>6. ASSUME NEW i \in 1..(Len(m) - 1) PROVE LegalSuccessor(m[i], m[i + 1])
  <2>1. CASE i = n
    <3>1. n # 0 /\ m[i] = l[n] /\ m[i + 1] = e
      BY <1>1, <1>6, <2>1
    <3> QED BY <1>2, <1>4, <3>1
  <2>2. CASE i # n
    <3>1. i \in 1..(n - 1) /\ m[i] = l[i] /\ m[i + 1] = l[i + 1]
      BY <1>1, <1>6, <2>2
    <3> QED BY <1>5, <3>1
  <2> QED BY <2>1, <2>2
<1>7. LegalHistory(m)
  BY <1>6 DEF LegalHistory
<1> QED BY <1>3, <1>7 DEF m

(* A step that files e for a task whose row becomes (s, v) keeps its ledger. *)
LEMMA FiledKeeps ==
    ASSUME LedgerInv, NEW t \in Tasks, NEW e \in Event,
           ledger'[t] = Append(ledger[t], e),
           rows[t].status \notin Gone => LegalSuccessor(LastOf(ledger[t]), e),
           rows'[t].status \notin Gone, Tells(e, rows'[t].status, rows'[t].version),
           e.action = "claimed" => e.after = e.before + 1
    PROVE  Filed(ledger'[t], rows'[t].status, rows'[t].version)
<1>1. /\ ledger[t] \in Seq(Event) /\ LegalHistory(ledger[t])
      /\ ledger[t] # <<>> => rows[t].status \notin Gone
  BY DEF LedgerInv, TypeOK, FiledInv, Filed
<1>2. /\ LegalHistory(ledger'[t]) /\ ledger'[t] # <<>> /\ LastOf(ledger'[t]) = e
  BY <1>1, AppendedEvent
<1> QED BY <1>2 DEF Filed

(* Four of the six ways a row changes file an event, and which. *)
LEMMA IssueFiles ==
    ASSUME LedgerInv, NEW t \in Tasks, NEW a \in {"started", "switched"}, NEW b \in Nat,
           rows[t].status = "unissued", rows'[t].status = "active", rows'[t].version = 1,
           ledger'[t] = Append(ledger[t], [action |-> a, before |-> b, after |-> 1])
    PROVE  Filed(ledger'[t], rows'[t].status, rows'[t].version)
<1> DEFINE e == [action |-> a, before |-> b, after |-> 1]
<1>1. e \in Event
  BY DEF Event, Tombstones, EndedByTurn
<1>2. Tells(e, rows'[t].status, rows'[t].version) /\ e.action # "claimed"
  BY DEF Tells, StatusAfter
<1>3. rows[t].status \in Gone /\ rows'[t].status \notin Gone
  BY DEF Gone
<1> HIDE DEF e
<1>4. ledger'[t] = Append(ledger[t], e)
  BY DEF e
<1> QED BY <1>1, <1>2, <1>3, <1>4, FiledKeeps

LEMMA ClaimFiles ==
    ASSUME LedgerInv, NEW t \in Tasks,
           rows[t].status = "active", rows'[t].status = "claimed",
           rows'[t].version = rows[t].version + 1,
           ledger'[t] = Append(ledger[t], [action |-> "claimed", before |-> rows[t].version,
                                           after |-> rows[t].version + 1])
    PROVE  Filed(ledger'[t], rows'[t].status, rows'[t].version)
<1> DEFINE e == [action |-> "claimed", before |-> rows[t].version,
                 after |-> rows[t].version + 1]
<1>1. rows[t].version \in Nat
  BY DEF LedgerInv, TypeOK, Row
<1>2. e \in Event
  BY <1>1 DEF Event
<1>3. Tells(e, rows'[t].status, rows'[t].version) /\ e.after = e.before + 1
  BY DEF Tells, StatusAfter
<1>4. rows'[t].status \notin Gone
  BY DEF Gone
<1>5. /\ LastOf(ledger[t]).action \in {"started", "switched", "active"}
      /\ LastOf(ledger[t]).after = rows[t].version
  BY DEF LedgerInv, FiledInv, Filed, Tells, StatusAfter, Gone
<1>6. LegalSuccessor(LastOf(ledger[t]), e)
  BY <1>5 DEF LegalSuccessor
<1> HIDE DEF e
<1>7. ledger'[t] = Append(ledger[t], e)
  BY DEF e
<1> QED BY <1>2, <1>3, <1>4, <1>6, <1>7, FiledKeeps

LEMMA OutcomeFiles ==
    ASSUME LedgerInv, NEW t \in Tasks, NEW a \in {"active", "cancelled", "cleared"},
           rows[t].status = "claimed", rows'[t].status = a,
           rows'[t].version = rows[t].version + 1, rows[t].version - 1 \in Nat,
           ledger'[t] = Append(ledger[t], [action |-> a, before |-> rows[t].version - 1,
                                           after |-> rows[t].version + 1])
    PROVE  Filed(ledger'[t], rows'[t].status, rows'[t].version)
<1> DEFINE e == [action |-> a, before |-> rows[t].version - 1,
                 after |-> rows[t].version + 1]
<1>1. rows[t].version \in Nat /\ ledger[t] \in Seq(Event)
  BY DEF LedgerInv, TypeOK, Row
<1>2. e \in Event
  BY <1>1 DEF Event, Tombstones, EndedByTurn
<1>3. Tells(e, rows'[t].status, rows'[t].version) /\ e.action # "claimed"
  BY DEF Tells, StatusAfter
<1>4. rows'[t].status \notin Gone
  BY DEF Gone
<1>5. /\ LastOf(ledger[t]).action = "claimed" /\ LastOf(ledger[t]).after = rows[t].version
      /\ LastOf(ledger[t]).after = LastOf(ledger[t]).before + 1
      /\ ledger[t] # <<>>
  BY DEF LedgerInv, FiledInv, Filed, Tells, StatusAfter, Gone
<1>6. LastOf(ledger[t]).before \in Nat
  <2>1. Len(ledger[t]) \in 1..Len(ledger[t])
    BY <1>1, <1>5
  <2>2. LastOf(ledger[t]) \in Event
    BY <1>1, <2>1 DEF LastOf
  <2> HIDE DEF e
  <2> QED BY <2>2 DEF Event
<1>7. LegalSuccessor(LastOf(ledger[t]), e)
  BY <1>1, <1>5, <1>6 DEF LegalSuccessor
<1> HIDE DEF e
<1>8. ledger'[t] = Append(ledger[t], e)
  BY DEF e
<1> QED BY <1>2, <1>3, <1>4, <1>7, <1>8, FiledKeeps

LEMMA ExpiryFiles ==
    ASSUME LedgerInv, NEW t \in Tasks, rows[t].status \in Live,
           rows'[t] = ExpiredRow(rows[t]),
           ledger'[t] = Append(ledger[t], ExpiredEvent(rows[t]))
    PROVE  Filed(ledger'[t], rows'[t].status, rows'[t].version)
<1> DEFINE e == ExpiredEvent(rows[t])
<1>1. rows[t].version \in Nat
  BY DEF LedgerInv, TypeOK, Row
<1>2. e \in Event /\ e.action = "expired" /\ e.before = rows[t].version
      /\ e.after = rows[t].version
  BY <1>1 DEF Event, ExpiredEvent, Tombstones
<1>3. rows'[t].status = "expired" /\ rows'[t].version = rows[t].version
  BY DEF ExpiredRow
<1>4. Tells(e, rows'[t].status, rows'[t].version) /\ e.action # "claimed"
  BY <1>2, <1>3 DEF Tells, StatusAfter
<1>5. rows'[t].status \notin Gone
  BY <1>3 DEF Gone
<1>6. /\ LastOf(ledger[t]).action \in {"started", "switched", "active", "claimed"}
      /\ LastOf(ledger[t]).after = rows[t].version
  BY DEF LedgerInv, FiledInv, Filed, Tells, StatusAfter, Gone, Live
<1>7. LegalSuccessor(LastOf(ledger[t]), e)
  BY <1>2, <1>6 DEF LegalSuccessor
<1> HIDE DEF e
<1>8. ledger'[t] = Append(ledger[t], e)
  BY DEF e
<1> QED BY <1>2, <1>4, <1>5, <1>7, <1>8, FiledKeeps

(* The other two: a task retired by a switch keeps its ledger as it is, and  *)
(* a purge deletes it with the row.                                          *)
LEMMA SwitchedAwayKeeps ==
    ASSUME LedgerInv, NEW t \in Tasks, rows[t].status = "claimed",
           rows'[t].status = "switched", rows'[t].version = rows[t].version + 1,
           ledger'[t] = ledger[t]
    PROVE  Filed(ledger'[t], rows'[t].status, rows'[t].version)
  BY DEF LedgerInv, FiledInv, Filed, Tells, StatusAfter, Gone

LEMMA PurgedKeeps ==
    ASSUME NEW t \in Tasks, rows'[t] = NoRow("purged"), ledger'[t] = <<>>
    PROVE  Filed(ledger'[t], rows'[t].status, rows'[t].version)
<1>1. LegalHistory(<<>>)
  BY DEF LegalHistory
<1> QED BY <1>1 DEF Filed, NoRow, Gone

LEMMA UntouchedKeeps ==
    ASSUME LedgerInv, NEW t \in Tasks, rows'[t] = rows[t], ledger'[t] = ledger[t]
    PROVE  Filed(ledger'[t], rows'[t].status, rows'[t].version)
  BY DEF LedgerInv, FiledInv

-----------------------------------------------------------------------------
LEMMA InitLedger == Init => LedgerInv
<1>1. LegalHistory(<<>>)
  BY DEF LegalHistory
<1> QED BY <1>1, InitType DEF Init, LedgerInv, FiledInv, Filed, NoRow, Gone

(* What a statement that expires a set of rows files. *)
LEMMA ExpireKeeps ==
    ASSUME LedgerInv, NEW ts, Expire(ts), \A x \in ts : rows[x].status \in Live,
           NEW t \in Tasks
    PROVE  Filed(ledger'[t], rows'[t].status, rows'[t].version)
<1>1. CASE t \in ts
  BY <1>1, ExpiryFiles DEF Expire
<1>2. CASE t \notin ts
  BY <1>2, UntouchedKeeps DEF Expire
<1> QED BY <1>1, <1>2

LEMMA ClaimWinKeeps ==
    ASSUME LedgerInv, NEW w \in Workers, ClaimWin(w), NEW t \in Tasks
    PROVE  Filed(ledger'[t], rows'[t].status, rows'[t].version)
<1> DEFINE u == req[w].task
<1>0. rows \in [Tasks -> Row] /\ ledger \in [Tasks -> Seq(Event)]
  BY DEF LedgerInv, TypeOK
<1>1. /\ rows[u].version = req[w].version /\ rows[u].status = "active" /\ u \in Tasks
      /\ ledger' = [ledger EXCEPT ![u] =
                      Append(ledger[u], [action |-> "claimed", before |-> rows[u].version,
                                         after |-> rows[u].version + 1])]
      /\ \E tok \in Tokens :
            rows' = [rows EXCEPT ![u] = ClaimedRow(rows[u], rows[u].version + 1, tok)]
  <2>1. u \in Tasks
    BY RequestFacts DEF LedgerInv, ClaimWin
  <2> QED BY <2>1 DEF ClaimWin, ClaimMatches
<1> HIDE DEF u
<1>2. CASE t = u
  <2>1. rows'[t].status = "claimed" /\ rows'[t].version = rows[t].version + 1
    BY <1>0, <1>1, <1>2 DEF ClaimedRow
  <2>2. ledger'[t] = Append(ledger[t], [action |-> "claimed", before |-> rows[t].version,
                                        after |-> rows[t].version + 1])
    BY <1>0, <1>1, <1>2
  <2> QED BY <1>1, <1>2, <2>1, <2>2, ClaimFiles
<1>3. CASE t # u
  BY <1>0, <1>1, <1>3, UntouchedKeeps
<1> QED BY <1>2, <1>3

LEMMA CommitWinKeeps ==
    ASSUME LedgerInv, NEW w \in Workers, CommitWin(w), NEW t \in Tasks
    PROVE  Filed(ledger'[t], rows'[t].status, rows'[t].version)
<1> DEFINE u == req[w].task
           v == rows[u].version
<1>0. rows \in [Tasks -> Row] /\ ledger \in [Tasks -> Seq(Event)]
  BY DEF LedgerInv, TypeOK
<1>1. /\ req[w].version = v /\ rows[u].status = "claimed" /\ u \in Tasks /\ v - 1 \in Nat
  <2>1. req[w].pc = "commit" /\ CommitMatches(w)
    BY DEF CommitWin
  <2> QED BY <2>1, RequestFacts DEF LedgerInv, CommitMatches
<1>2. CASE CommitActive(w)
  <2>1. ledger' = [ledger EXCEPT ![u] =
                     Append(ledger[u], [action |-> "active", before |-> v - 1,
                                        after |-> v + 1])]
    BY <1>1, <1>2 DEF CommitActive
  <2>2. PICK p \in Payloads : rows' = [rows EXCEPT ![u] = ActiveRow(v + 1, p, req[w].now)]
    BY <1>1, <1>2 DEF CommitActive
  <2>3. rows'[u].status = "active" /\ rows'[u].version = v + 1
    BY <1>0, <1>1, <2>2 DEF ActiveRow
  <2>4. CASE t = u
    BY <1>0, <1>1, <2>1, <2>3, <2>4, OutcomeFiles
  <2>5. CASE t # u
    BY <1>0, <2>1, <2>2, <2>5, UntouchedKeeps
  <2> QED BY <2>4, <2>5
<1>3. CASE CommitTerminal(w)
  <2>1. PICK end \in {"cancelled", "cleared"} :
          /\ rows' = [rows EXCEPT ![u] = EndedRow(rows[u], end, req[w].now)]
          /\ ledger' = [ledger EXCEPT ![u] =
                          Append(ledger[u], [action |-> end, before |-> v - 1,
                                             after |-> v + 1])]
    BY <1>1, <1>3 DEF CommitTerminal
  <2>2. rows'[u].status = end /\ rows'[u].version = v + 1
    BY <1>0, <1>1, <2>1 DEF EndedRow
  <2>3. CASE t = u
    BY <1>0, <1>1, <2>1, <2>2, <2>3, OutcomeFiles
  <2>4. CASE t # u
    BY <1>0, <2>1, <2>4, UntouchedKeeps
  <2> QED BY <2>3, <2>4
<1>4. CASE SwitchTask(w)
  <2>1. PICK new \in Tasks, p \in Payloads :
          /\ rows[new].status = "unissued"
          /\ rows' = [rows EXCEPT ![u] = EndedRow(rows[u], "switched", req[w].now),
                                  ![new] = ActiveRow(1, p, req[w].now)]
          /\ ledger' = [ledger EXCEPT ![new] =
                          Append(ledger[new], [action |-> "switched", before |-> v - 1,
                                               after |-> 1])]
    BY <1>1, <1>4 DEF SwitchTask
  <2>2. u # new
    BY <1>1, <2>1
  <2>3. CASE t = new
    <3>1. rows'[t].status = "active" /\ rows'[t].version = 1
      BY <1>0, <2>1, <2>3 DEF ActiveRow
    <3>2. ledger'[t] = Append(ledger[t], [action |-> "switched", before |-> v - 1,
                                          after |-> 1])
      BY <1>0, <2>1, <2>3
    <3> QED BY <1>1, <2>1, <2>3, <3>1, <3>2, IssueFiles
  <2>4. CASE t = u
    <3>1. rows'[t].status = "switched" /\ rows'[t].version = rows[t].version + 1
      BY <1>0, <1>1, <2>1, <2>2, <2>4 DEF EndedRow
    <3> QED BY <1>0, <1>1, <2>1, <2>2, <2>4, <3>1, SwitchedAwayKeeps
  <2>5. CASE t # new /\ t # u
    BY <1>0, <2>1, <2>5, UntouchedKeeps
  <2> QED BY <2>3, <2>4, <2>5
<1> QED BY <1>2, <1>3, <1>4 DEF CommitWin

LEMMA NextLedger == LedgerInv /\ [Next]_vars => LedgerInv'
<1> SUFFICES ASSUME LedgerInv, [Next]_vars PROVE LedgerInv'
  OBVIOUS
<1>0. TypeOK' /\ rows \in [Tasks -> Row] /\ ledger \in [Tasks -> Seq(Event)]
  BY NextType DEF LedgerInv, TypeOK
<1> SUFFICES ASSUME NEW t \in Tasks
             PROVE  Filed(ledger'[t], rows'[t].status, rows'[t].version)
  BY <1>0 DEF LedgerInv, FiledInv
<1>1. CASE UNCHANGED <<rows, ledger>>
  BY <1>1, UntouchedKeeps
<1>2. ASSUME NEW w \in Workers, RequestStep(w)
      PROVE  Filed(ledger'[t], rows'[t].status, rows'[t].version)
  <2>1. CASE BeginStart(w) \/ BeginClaim(w) \/ BeginCommit(w) \/ Drop(w)
    BY <1>1, <2>1 DEF BeginStart, BeginClaim, BeginCommit, Drop
  <2>2. CASE Start(w)
    <3>1. PICK s \in Tasks, p \in Payloads :
            /\ rows[s].status = "unissued"
            /\ rows' = [rows EXCEPT ![s] = ActiveRow(1, p, req[w].now)]
            /\ ledger' = [ledger EXCEPT ![s] =
                            Append(ledger[s], [action |-> "started", before |-> 0, after |-> 1])]
      BY <2>2 DEF Start
    <3>2. CASE t = s
      <4>1. rows'[t].status = "active" /\ rows'[t].version = 1
        BY <1>0, <3>1, <3>2 DEF ActiveRow
      <4> QED BY <1>0, <3>1, <3>2, <4>1, IssueFiles
    <3>3. CASE t # s
      BY <1>0, <3>1, <3>3, UntouchedKeeps
    <3> QED BY <3>2, <3>3
  <2>3. CASE ClaimWin(w)
    BY <2>3, ClaimWinKeeps
  <2>4. CASE ClaimLose(w)
    BY <2>4, ExpireKeeps DEF ClaimLose, Lapsed
  <2>5. CASE CommitWin(w)
    BY <2>5, CommitWinKeeps
  <2>6. CASE CommitLose(w)
    BY <2>6, ExpireKeeps DEF CommitLose, Lapsed
  <2> QED BY <1>2, <2>1, <2>2, <2>3, <2>4, <2>5, <2>6 DEF RequestStep
<1>3. CASE BeginPurge \/ BeginExpire \/ MaintenanceStops \/ Tick \/ UNCHANGED vars
  BY <1>1, <1>3 DEF BeginPurge, BeginExpire, MaintenanceStops, Tick, vars
<1>4. CASE ExpireStale
  BY <1>4, ExpireKeeps DEF ExpireStale, Stale, Lapsed
<1>5. CASE Purge
  <2>1. PICK ts \in SUBSET Purgeable :
          /\ rows' = [x \in Tasks |-> IF x \in ts THEN NoRow("purged") ELSE rows[x]]
          /\ ledger' = [x \in Tasks |-> IF x \in ts THEN <<>> ELSE ledger[x]]
    BY <1>5 DEF Purge
  <2>2. CASE t \in ts
    BY <2>1, <2>2, PurgedKeeps
  <2>3. CASE t \notin ts
    BY <2>1, <2>3, UntouchedKeeps
  <2> QED BY <2>2, <2>3
<1> QED BY <1>2, <1>3, <1>4, <1>5 DEF Next, Maintenance

LEMMA LedgerInvHolds == Spec => []LedgerInv
BY InitLedger, NextLedger, PTL DEF Spec

-----------------------------------------------------------------------------
(* A task's events are a legal history: claims and outcomes alternate, each   *)
(* version is claimed at most once, an outcome names the version its claim    *)
(* named and nothing follows an end (the INSERTs of mysql_task_boundary.py).  *)
THEOREM LedgersAreLegal == Spec => []LedgerIsLegal
<1>1. LedgerInv => LedgerIsLegal
  BY DEF LedgerInv, FiledInv, Filed, LegalHistory, LedgerIsLegal
<1> QED BY <1>1, LedgerInvHolds, PTL

(* The last event of a task tells the status and version of its row; only the *)
(* ledger of a task retired by a switch stops at the claim.                    *)
THEOREM LedgersTellRows == Spec => []LedgerTellsRow
<1>1. LedgerInv => LedgerTellsRow
  BY DEF LedgerInv, FiledInv, Filed, Tells, LastOf, LedgerTellsRow, HasRow, Gone
<1> QED BY <1>1, LedgerInvHolds, PTL

-----------------------------------------------------------------------------
(* The store implements TaskBoundaryPort: each statement's transaction is   *)
(* one step of the port or none.                                            *)

(* A step's effect on what the port sees: the status, version and holders   *)
(* of every task, given pointwise.                                          *)
PortView(t, s, v, h) ==
    /\ rows'[t].status = s
    /\ rows'[t].version = v
    /\ HoldersOf(t)' = h

Unseen(t) == PortView(t, rows[t].status, rows[t].version, HoldersOf(t))

(* The tokens of the others stay as they were, or go away unheld. *)
KeepsClaim(w, t) ==
    \/ req'[w] = req[w]
    \/ /\ req[w].pc \in {"held", "commit"} /\ req'[w].pc \in {"held", "commit"}
       /\ req'[w].task = req[w].task /\ req'[w].token = req[w].token
    \/ ~Holds(w, t) /\ req'[w].pc \notin {"held", "commit"}

(* A task whose row and claims are left alone looks the same to the port. *)
LEMMA LeftAlone ==
    ASSUME NEW t \in Tasks, rows'[t] = rows[t], \A w \in Workers : KeepsClaim(w, t)
    PROVE  Unseen(t)
<1>1. ASSUME NEW w \in Workers PROVE Holds(w, t)' <=> Holds(w, t)
  BY <1>1 DEF KeepsClaim, Holds
<1>2. HoldersOf(t)' = HoldersOf(t)
  BY <1>1 DEF HoldersOf
<1> QED BY <1>2 DEF Unseen, PortView

(* A task that is not claimed has no holder. *)
LEMMA Unheld ==
    ASSUME NEW t \in Tasks
    PROVE  /\ rows[t].status # "claimed" => HoldersOf(t) = {}
           /\ rows'[t].status # "claimed" => HoldersOf(t)' = {}
BY DEF HoldersOf, Holds

(* A worker that holds a task is its only holder. *)
LEMMA SoleHolder ==
    ASSUME StoreInv, NEW w \in Workers, NEW t \in Tasks, Holds(w, t)
    PROVE  HoldersOf(t) = {w}
BY DEF StoreInv, ClaimInv, TokensDiffer, Holding, HoldersOf, Holds

(* Whoever expires rows whose time has come makes the port lapse them. *)
LEMMA ExpiryLapses ==
    ASSUME StoreInv, NEW ts \in SUBSET Tasks, NEW now \in Nat, Expire(ts),
           \A x \in ts : Lapsed(rows[x], now),
           \A x \in Tasks \ ts, w \in Workers : KeepsClaim(w, x)
    PROVE  Port!Lapse(ts)
<1>1. \A x \in ts : rows[x].status \in Port!PortLive
  BY DEF Lapsed, Live, Port!PortLive
<1>2. ASSUME NEW x \in ts PROVE PortView(x, "expired", rows[x].version, {})
  <2>1. rows'[x] = ExpiredRow(rows[x])
    BY <1>2 DEF Expire
  <2> QED BY <2>1, Unheld DEF PortView, ExpiredRow
<1>3. ASSUME NEW x \in Tasks \ ts PROVE Unseen(x)
  <2>1. rows'[x] = rows[x]
    BY <1>3 DEF Expire
  <2> QED BY <2>1, LeftAlone
<1> QED BY <1>1, <1>2, <1>3 DEF PortView, Unseen, Port!Lapse
-----------------------------------------------------------------------------
(* One lemma per transaction that the port can see. *)

LEMMA StartIssues ==
    ASSUME StoreInv, NEW w \in Workers, Start(w)
    PROVE  \E t \in Tasks : Port!Issue(t)
<1>0. rows \in [Tasks -> Row] /\ req \in [Workers -> Request]
  BY DEF StoreInv, TypeOK
<1>1. PICK t \in Tasks, p \in Payloads :
         /\ rows[t].status = "unissued"
         /\ rows' = [rows EXCEPT ![t] = ActiveRow(1, p, req[w].now)]
  BY DEF Start
<1>2. PortView(t, "active", 1, HoldersOf(t))
  BY <1>0, <1>1, Unheld DEF PortView, ActiveRow
<1>3. ASSUME NEW x \in Tasks \ {t} PROVE Unseen(x)
  <2>1. rows'[x] = rows[x]
    BY <1>0, <1>1
  <2>2. \A v \in Workers : KeepsClaim(v, x)
    BY <1>0 DEF Start, KeepsClaim, Idle, Holds
  <2> QED BY <2>1, <2>2, LeftAlone
<1>4. Port!Issue(t)
  BY <1>1, <1>2, <1>3 DEF PortView, Unseen, Port!Issue
<1> QED BY <1>4

(* The claim that wins becomes the one holder: nobody had its token. *)
LEMMA WinningClaims ==
    ASSUME StoreInv, NEW w \in Workers, ClaimWin(w)
    PROVE  \E t \in Tasks : Port!Claim(w, t)
<1>0. rows \in [Tasks -> Row] /\ req \in [Workers -> Request]
  BY DEF StoreInv, TypeOK
<1> PICK t \in Tasks : t = req[w].task
  BY RequestFacts DEF StoreInv, ClaimWin
<1>1. rows[t].status = "active" /\ rows[t].version = req[w].version
  BY DEF ClaimWin, ClaimMatches
<1>2. PICK tok \in Tokens \ issued :
         /\ rows' = [rows EXCEPT ![t] = ClaimedRow(rows[t], req[w].version + 1, tok)]
         /\ req' = [req EXCEPT ![w] = HeldRequest(t, req[w].now, req[w].version + 1,
                                                  tok, rows[t].payload)]
  BY DEF ClaimWin
<1>3. /\ rows'[t] = ClaimedRow(rows[t], req[w].version + 1, tok)
      /\ req'[w] = HeldRequest(t, req[w].now, req[w].version + 1, tok, rows[t].payload)
      /\ \A u \in Workers \ {w} : req'[u] = req[u]
  BY <1>0, <1>2
<1>4. HoldersOf(t)' = {w}
  <2>1. Holds(w, t)'
    BY <1>3 DEF Holds, HeldRequest, ClaimedRow
  <2>2. ASSUME NEW u \in Workers \ {w} PROVE ~Holds(u, t)'
    <3>1. Holding(u) => req[u].token # tok
      BY <1>2 DEF StoreInv, ClaimInv, TokensDrawn
    <3>2. req'[u] = req[u] /\ rows'[t].token = tok
      BY <1>3 DEF ClaimedRow
    <3> QED BY <3>1, <3>2 DEF Holds, Holding
  <2> QED BY <2>1, <2>2 DEF HoldersOf
<1>5. PortView(t, "claimed", rows[t].version + 1, {w})
  BY <1>1, <1>3, <1>4 DEF PortView, ClaimedRow
<1>6. ASSUME NEW x \in Tasks \ {t} PROVE Unseen(x)
  <2>1. rows'[x] = rows[x]
    BY <1>0, <1>2
  <2>2. ASSUME NEW u \in Workers PROVE Holds(u, x)' <=> Holds(u, x)
    <3>1. CASE u = w
      BY <1>3, <3>1 DEF Holds, HeldRequest, ClaimWin
    <3>2. CASE u # w
      BY <1>3, <2>1, <3>2 DEF Holds
    <3> QED BY <3>1, <3>2
  <2>3. HoldersOf(x)' = HoldersOf(x)
    BY <2>2 DEF HoldersOf
  <2> QED BY <2>1, <2>3 DEF Unseen, PortView
<1>7. HoldersOf(t) = {}
  BY <1>0, <1>1, Unheld
<1>8. Port!Claim(w, t)
  BY <1>1, <1>5, <1>6, <1>7 DEF PortView, Unseen, Port!Claim
<1> QED BY <1>8

(* A claim that loses lapses its task, if its time has come, and nothing else. *)
LEMMA LosingClaimsLapse ==
    ASSUME StoreInv, NEW w \in Workers, ClaimLose(w)
    PROVE  \E ts \in SUBSET Tasks : Port!Lapse(ts)
<1> DEFINE ts == {req[w].task} \cap {x \in Tasks : Lapsed(rows[x], req[w].now)}
<1>1. req[w].now \in Nat /\ req \in [Workers -> Request]
  BY RequestFacts DEF StoreInv, TypeOK
<1>2. Expire(ts) /\ req' = [req EXCEPT ![w] = Idle] /\ req[w].pc = "claim"
  BY DEF ClaimLose
<1>3. \A x \in Tasks \ ts, v \in Workers : KeepsClaim(v, x)
  BY <1>1, <1>2 DEF KeepsClaim, Holds, Idle
<1>4. ts \in SUBSET Tasks /\ \A x \in ts : Lapsed(rows[x], req[w].now)
  OBVIOUS
<1> HIDE DEF ts
<1> QED BY <1>1, <1>2, <1>3, <1>4, ExpiryLapses

(* A commit is its holder's alone, and releases the task whatever it becomes. *)
LEMMA CommitterHolds ==
    ASSUME StoreInv, NEW w \in Workers, req[w].pc = "commit", CommitMatches(w),
           NEW t \in Tasks, t = req[w].task
    PROVE  /\ rows[t].status = "claimed" /\ HoldersOf(t) = {w}
           /\ rows[t].version = req[w].version
           /\ \A x \in Tasks \ {t} : ~Holds(w, x)
<1>1. Holds(w, t)
  BY DEF CommitMatches, Holds
<1> QED BY <1>1, SoleHolder DEF CommitMatches, Holds

LEMMA WinningCommits ==
    ASSUME StoreInv, NEW w \in Workers, CommitWin(w), CommitActive(w) \/ CommitTerminal(w)
    PROVE  \E t \in Tasks, to \in {"active", "cancelled", "cleared"} : Port!Commit(w, t, to)
<1>0. /\ rows \in [Tasks -> Row] /\ req \in [Workers -> Request]
      /\ req[w].pc = "commit" /\ CommitMatches(w) /\ req' = [req EXCEPT ![w] = Idle]
  BY DEF StoreInv, TypeOK, CommitWin
<1> PICK t \in Tasks : t = req[w].task
  BY <1>0, RequestFacts DEF StoreInv
<1>1. PICK r : /\ rows' = [rows EXCEPT ![t] = r]
               /\ r.status \in {"active", "cancelled", "cleared"}
               /\ r.version = req[w].version + 1
  <2>1. CASE CommitActive(w)
    <3>1. PICK p \in Payloads :
             rows' = [rows EXCEPT ![t] = ActiveRow(req[w].version + 1, p, req[w].now)]
      BY <2>1 DEF CommitActive
    <3>2. /\ ActiveRow(req[w].version + 1, p, req[w].now).status = "active"
          /\ ActiveRow(req[w].version + 1, p, req[w].now).version = req[w].version + 1
      BY DEF ActiveRow
    <3> QED BY <3>1, <3>2
  <2>2. CASE CommitTerminal(w)
    <3>1. PICK end \in {"cancelled", "cleared"} :
             rows' = [rows EXCEPT ![t] = EndedRow(rows[t], end, req[w].now)]
      BY <2>2 DEF CommitTerminal
    <3>2. /\ EndedRow(rows[t], end, req[w].now).status = end
          /\ EndedRow(rows[t], end, req[w].now).version = rows[t].version + 1
      BY DEF EndedRow
    <3>3. rows[t].version = req[w].version
      BY <1>0, CommitterHolds
    <3> QED BY <3>1, <3>2, <3>3
  <2> QED BY <2>1, <2>2
<1>2. PortView(t, r.status, rows[t].version + 1, {})
  <2>1. rows'[t].status = r.status /\ rows'[t].version = rows[t].version + 1
    BY <1>0, <1>1, CommitterHolds
  <2>2. rows'[t].status # "claimed"
    BY <1>1, <2>1
  <2> QED BY <2>1, <2>2, Unheld DEF PortView
<1>3. ASSUME NEW x \in Tasks \ {t} PROVE Unseen(x)
  <2>1. rows'[x] = rows[x]
    BY <1>0, <1>1
  <2>2. ~Holds(w, x)
    BY <1>0, CommitterHolds
  <2>3. \A v \in Workers : KeepsClaim(v, x)
    BY <1>0, <2>2 DEF KeepsClaim, Idle
  <2> QED BY <2>1, <2>3, LeftAlone
<1>4. rows[t].status = "claimed" /\ HoldersOf(t) = {w}
  BY <1>0, CommitterHolds
<1>5. Port!Commit(w, t, r.status)
  BY <1>2, <1>3, <1>4 DEF PortView, Unseen, Port!Commit
<1> QED BY <1>1, <1>5

(* A switch retires the old task and issues the new one in the same step. *)
LEMMA WinningSwitches ==
    ASSUME StoreInv, NEW w \in Workers, CommitWin(w), SwitchTask(w)
    PROVE  \E old, new \in Tasks : Port!Switch(w, old, new)
<1>0. /\ rows \in [Tasks -> Row] /\ req \in [Workers -> Request]
      /\ req[w].pc = "commit" /\ CommitMatches(w) /\ req' = [req EXCEPT ![w] = Idle]
  BY DEF StoreInv, TypeOK, CommitWin
<1> PICK t \in Tasks : t = req[w].task
  BY <1>0, RequestFacts DEF StoreInv
<1>1. PICK new \in Tasks, p \in Payloads :
         /\ rows[new].status = "unissued"
         /\ rows' = [rows EXCEPT ![t] = EndedRow(rows[t], "switched", req[w].now),
                                 ![new] = ActiveRow(1, p, req[w].now)]
  BY DEF SwitchTask
<1>2. rows[t].status = "claimed" /\ HoldersOf(t) = {w} /\ new # t
  BY <1>0, <1>1, CommitterHolds
<1>3. PortView(t, "switched", rows[t].version + 1, {})
  <2>1. rows'[t] = EndedRow(rows[t], "switched", req[w].now)
    BY <1>0, <1>1, <1>2
  <2>2. rows'[t].status = "switched" /\ rows'[t].version = rows[t].version + 1
    BY <2>1 DEF EndedRow
  <2> QED BY <2>2, Unheld DEF PortView
<1>4. PortView(new, "active", 1, HoldersOf(new))
  <2>1. rows'[new] = ActiveRow(1, p, req[w].now)
    BY <1>0, <1>1, <1>2
  <2>2. rows'[new].status = "active" /\ rows'[new].version = 1
    BY <2>1 DEF ActiveRow
  <2> QED BY <1>1, <2>2, Unheld DEF PortView
<1>5. ASSUME NEW x \in Tasks \ {t, new} PROVE Unseen(x)
  <2>1. rows'[x] = rows[x]
    BY <1>0, <1>1
  <2>2. ~Holds(w, x)
    BY <1>0, CommitterHolds
  <2>3. \A v \in Workers : KeepsClaim(v, x)
    BY <1>0, <2>2 DEF KeepsClaim, Idle
  <2> QED BY <2>1, <2>3, LeftAlone
<1>6. Port!Switch(w, t, new)
  <2>1. /\ rows'[t].status = "switched" /\ rows'[new].status = "active"
        /\ \A x \in Tasks \ {t, new} : rows'[x].status = rows[x].status
    BY <1>3, <1>4, <1>5 DEF PortView, Unseen
  <2>2. /\ rows'[t].version = rows[t].version + 1 /\ rows'[new].version = 1
        /\ \A x \in Tasks \ {t, new} : rows'[x].version = rows[x].version
    BY <1>3, <1>4, <1>5 DEF PortView, Unseen
  <2>3. HoldersOf(t)' = {} /\ \A x \in Tasks \ {t} : HoldersOf(x)' = HoldersOf(x)
    BY <1>3, <1>4, <1>5 DEF PortView, Unseen
  <2>4. [x \in Tasks |-> rows[x].status]'
           = [[x \in Tasks |-> rows[x].status] EXCEPT ![t] = "switched", ![new] = "active"]
    BY <1>2, <2>1
  <2>5. [x \in Tasks |-> rows[x].version]'
           = [[x \in Tasks |-> rows[x].version] EXCEPT ![t] = @ + 1, ![new] = 1]
    BY <1>2, <2>2
  <2>6. [x \in Tasks |-> HoldersOf(x)]' = [[x \in Tasks |-> HoldersOf(x)] EXCEPT ![t] = {}]
    BY <2>3
  <2> QED BY <1>1, <1>2, <2>4, <2>5, <2>6 DEF Port!Switch
<1> QED BY <1>6

(* A commit that misses lapses its task if its claim is over. Its worker holds *)
(* nothing else: a claim that is still its own misses on the time alone.       *)
LEMMA LosingCommitsLapse ==
    ASSUME StoreInv, NEW w \in Workers, CommitLose(w)
    PROVE  \E ts \in SUBSET Tasks : Port!Lapse(ts)
<1> DEFINE ts == {req[w].task} \cap {x \in Tasks : /\ rows[x].status = "claimed"
                                                   /\ Lapsed(rows[x], req[w].now)}
<1>1. req[w].now \in Nat /\ req \in [Workers -> Request] /\ rows \in [Tasks -> Row]
  BY RequestFacts DEF StoreInv, TypeOK
<1>2. Expire(ts) /\ req' = [req EXCEPT ![w] = Idle] /\ ~CommitMatches(w)
  BY DEF CommitLose
<1>3. ts \in SUBSET Tasks /\ \A x \in ts : Lapsed(rows[x], req[w].now)
  OBVIOUS
<1>4. ASSUME NEW x \in Tasks \ ts PROVE ~Holds(w, x)
  <2> SUFFICES ASSUME Holds(w, x) PROVE FALSE
    OBVIOUS
  <2>1. /\ x = req[w].task /\ rows[x].status = "claimed" /\ rows[x].token = req[w].token
        /\ rows[x].version = req[w].version
    BY DEF StoreInv, ClaimInv, HolderSawTheRow, Holds
  <2>2. rows[x].expires \in Nat /\ ~(rows[x].expires > req[w].now)
    BY <1>1, <1>2, <2>1 DEF CommitMatches, Row
  <2>3. Lapsed(rows[x], req[w].now)
    BY <1>1, <2>1, <2>2 DEF Lapsed, Live
  <2> QED BY <2>1, <2>3
<1> HIDE DEF ts
<1>5. \A x \in Tasks \ ts, v \in Workers : KeepsClaim(v, x)
  BY <1>1, <1>2, <1>4 DEF KeepsClaim, Idle
<1> QED BY <1>1, <1>2, <1>3, <1>5, ExpiryLapses

(* Dropping a request that holds a task abandons it; any other is not seen. *)
LEMMA DropsAbandon ==
    ASSUME StoreInv, NEW w \in Workers, Drop(w)
    PROVE  (\E t \in Tasks : Port!Abandon(w, t)) \/ \A t \in Tasks : Unseen(t)
<1>0. req \in [Workers -> Request] /\ req' = [req EXCEPT ![w] = Idle] /\ rows' = rows
  BY DEF StoreInv, TypeOK, Drop
<1>1. CASE \E t \in Tasks : Holds(w, t)
  <2> PICK t \in Tasks : Holds(w, t)
    BY <1>1
  <2>1. HoldersOf(t) = {w}
    BY SoleHolder
  <2>2. HoldersOf(t)' = {}
    <3>1. ASSUME NEW v \in Workers PROVE ~Holds(v, t)'
      <4>1. CASE v = w
        BY <1>0, <4>1 DEF Holds, Idle
      <4>2. CASE v # w
        BY <1>0, <2>1, <4>2 DEF HoldersOf, Holds
      <4> QED BY <4>1, <4>2
    <3> QED BY <3>1 DEF HoldersOf
  <2>3. \A x \in Tasks \ {t} : Unseen(x)
    <3>1. \A x \in Tasks \ {t} : ~Holds(w, x)
      BY DEF Holds
    <3>2. \A x \in Tasks \ {t}, v \in Workers : KeepsClaim(v, x)
      BY <1>0, <3>1 DEF KeepsClaim, Idle
    <3> QED BY <1>0, <3>2, LeftAlone
  <2>4. Port!Abandon(w, t)
    BY <1>0, <2>1, <2>2, <2>3 DEF Unseen, PortView, Port!Abandon
  <2> QED BY <2>4
<1>2. CASE \A t \in Tasks : ~Holds(w, t)
  <2>1. \A t \in Tasks, v \in Workers : KeepsClaim(v, t)
    BY <1>0, <1>2 DEF KeepsClaim, Idle
  <2> QED BY <1>0, <2>1, LeftAlone
<1> QED BY <1>1, <1>2

(* Maintenance lapses what is stale *)
LEMMA StaleRowsLapse ==
    ASSUME StoreInv, ExpireStale
    PROVE  \E ts \in SUBSET Tasks : Port!Lapse(ts)
<1>1. PICK ts \in SUBSET Stale : Expire(ts)
  BY DEF ExpireStale
<1>2. maint.expireNow \in Nat
  BY DEF StoreInv, TypeOK
<1>3. ts \in SUBSET Tasks /\ \A x \in ts : Lapsed(rows[x], maint.expireNow)
  BY DEF Stale
<1>4. \A x \in Tasks \ ts, w \in Workers : KeepsClaim(w, x)
  BY DEF ExpireStale, KeepsClaim
<1> QED BY <1>1, <1>2, <1>3, <1>4, ExpiryLapses

(* and forgets tombstones: nothing live has a purge date. *)
LEMMA PurgedRowsAreForgotten ==
    ASSUME StoreInv, Purge
    PROVE  \E ts \in SUBSET Tasks : Port!Forget(ts)
<1>1. PICK ts \in SUBSET Purgeable :
         rows' = [t \in Tasks |-> IF t \in ts THEN NoRow("purged") ELSE rows[t]]
  BY DEF Purge
<1>2. \A x \in ts : x \in Tasks /\ rows[x].status \in Port!PortEnded
  BY DEF Purgeable, StoreInv, RowInv, ColumnsAgree, Agrees, Tombstones, EndedByTurn,
         Port!PortEnded
<1>3. ASSUME NEW x \in ts PROVE PortView(x, "purged", 0, HoldersOf(x))
  <2>1. rows'[x].status = "purged" /\ rows'[x].version = 0
    BY <1>1, <1>2 DEF NoRow
  <2>2. rows[x].status # "claimed"
    BY <1>2 DEF Port!PortEnded
  <2> QED BY <1>2, <2>1, <2>2, Unheld DEF PortView
<1>4. ASSUME NEW x \in Tasks \ ts PROVE Unseen(x)
  <2>1. rows'[x] = rows[x]
    BY <1>1
  <2>2. \A w \in Workers : KeepsClaim(w, x)
    BY DEF Purge, KeepsClaim
  <2> QED BY <2>1, <2>2, LeftAlone
<1>5. ts \in SUBSET Tasks
  BY <1>2
<1>6. Port!Forget(ts)
  BY <1>2, <1>3, <1>4 DEF PortView, Unseen, Port!Forget
<1> QED BY <1>5, <1>6

(* Reading a clock, stopping, and the passing of time are not seen. *)
LEMMA OtherStepsAreUnseen ==
    ASSUME StoreInv, NEW t \in Tasks,
           \/ UNCHANGED vars \/ Tick \/ BeginPurge \/ BeginExpire \/ MaintenanceStops
           \/ \E w \in Workers : BeginStart(w) \/ BeginClaim(w) \/ BeginCommit(w)
    PROVE  Unseen(t)
<1>0. req \in [Workers -> Request]
  BY DEF StoreInv, TypeOK
<1>1. CASE UNCHANGED vars \/ Tick \/ BeginPurge \/ BeginExpire \/ MaintenanceStops
  <2>1. rows' = rows /\ req' = req
    BY <1>1 DEF vars, Tick, BeginPurge, BeginExpire, MaintenanceStops
  <2> QED BY <2>1, LeftAlone DEF KeepsClaim
<1>2. ASSUME NEW w \in Workers, BeginStart(w) \/ BeginClaim(w) PROVE Unseen(t)
  <2>1. rows' = rows /\ ~Holds(w, t)
    BY <1>2 DEF BeginStart, BeginClaim, Holds
  <2>2. \E r : req' = [req EXCEPT ![w] = r] /\ r.pc \notin {"held", "commit"}
    BY <1>2 DEF BeginStart, BeginClaim, StartRequest, ClaimRequest
  <2>3. \A v \in Workers : KeepsClaim(v, t)
    BY <1>0, <2>1, <2>2 DEF KeepsClaim
  <2> QED BY <2>1, <2>3, LeftAlone
<1>3. ASSUME NEW w \in Workers, BeginCommit(w) PROVE Unseen(t)
  <2>1. rows' = rows /\ req[w].pc = "held"
    BY <1>3 DEF BeginCommit
  <2>2. req' = [req EXCEPT ![w] = [req[w] EXCEPT !.pc = "commit", !.now = clock]]
    BY <1>3 DEF BeginCommit
  <2>3. req[w] \in [pc: {"held", "commit"}, task: Tasks, now: Nat, version: Nat \ {0},
                    token: Tokens, seen: Payloads \cup {NoPayload}]
    BY <1>0, <2>1 DEF Request
  <2>4. req'[w].pc = "commit" /\ req'[w].task = req[w].task /\ req'[w].token = req[w].token
    BY <1>0, <2>2, <2>3
  <2>5. \A v \in Workers : KeepsClaim(v, t)
    BY <1>0, <2>1, <2>2, <2>4 DEF KeepsClaim
  <2> QED BY <2>1, <2>5, LeftAlone
<1> QED BY <1>1, <1>2, <1>3

-----------------------------------------------------------------------------
(* The empty store is the empty port, *)
LEMMA InitRefines == Init => Port!PortInit
<1> SUFFICES ASSUME Init PROVE Port!PortInit
  OBVIOUS
<1>1. \A t \in Tasks : rows[t].status = "unissued" /\ rows[t].version = 0
  BY DEF Init, NoRow
<1>2. \A t \in Tasks : HoldersOf(t) = {}
  BY <1>1, Unheld
<1> QED BY <1>1, <1>2 DEF Port!PortInit

(* and every step is a step of the port, or none. *)
LEMMA NextRefines == StoreInv /\ [Next]_vars => [Port!PortNext]_(Port!portVars)
<1> SUFFICES ASSUME StoreInv, [Next]_vars PROVE [Port!PortNext]_(Port!portVars)
  OBVIOUS
<1>0. ASSUME \A t \in Tasks : Unseen(t) PROVE UNCHANGED Port!portVars
  BY <1>0 DEF Unseen, PortView, Port!portVars
<1>1. CASE UNCHANGED vars \/ Tick \/ BeginPurge \/ BeginExpire \/ MaintenanceStops
  BY <1>0, <1>1, OtherStepsAreUnseen
<1>2. CASE ExpireStale
  BY <1>2, StaleRowsLapse DEF Port!PortNext
<1>3. CASE Purge
  BY <1>3, PurgedRowsAreForgotten DEF Port!PortNext
<1>4. ASSUME NEW w \in Workers, RequestStep(w) PROVE [Port!PortNext]_(Port!portVars)
  <2>1. CASE BeginStart(w) \/ BeginClaim(w) \/ BeginCommit(w)
    BY <1>0, <2>1, OtherStepsAreUnseen
  <2>2. CASE Start(w)
    BY <2>2, StartIssues DEF Port!PortNext
  <2>3. CASE ClaimWin(w)
    BY <2>3, WinningClaims DEF Port!PortNext
  <2>4. CASE ClaimLose(w)
    BY <2>4, LosingClaimsLapse DEF Port!PortNext
  <2>5. CASE CommitWin(w)
    <3>1. CASE CommitActive(w) \/ CommitTerminal(w)
      BY <2>5, <3>1, WinningCommits DEF Port!PortNext
    <3>2. CASE SwitchTask(w)
      BY <2>5, <3>2, WinningSwitches DEF Port!PortNext
    <3> QED BY <2>5, <3>1, <3>2 DEF CommitWin
  <2>6. CASE CommitLose(w)
    BY <2>6, LosingCommitsLapse DEF Port!PortNext
  <2>7. CASE Drop(w)
    BY <1>0, <2>7, DropsAbandon DEF Port!PortNext
  <2> QED BY <1>4, <2>1, <2>2, <2>3, <2>4, <2>5, <2>6, <2>7 DEF RequestStep
<1> QED BY <1>1, <1>2, <1>3, <1>4 DEF Next, Maintenance

(* The MySQL store keeps the promises of the port, whatever the number of    *)
(* workers and tasks, the TTL and the retention.                             *)
THEOREM StoreImplementsPort == Spec => ImplementsPort
BY InitRefines, NextRefines, StoreInvHolds, PTL DEF Spec, ImplementsPort, Port!PortSpec
=============================================================================
