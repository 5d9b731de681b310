------------------------- MODULE MySQLTaskBoundary -------------------------
(***************************************************************************)
(* The durable task store (engine/phase4b/mysql_task_boundary.py): one row *)
(* per task in agent_task_checkpoints, one ledger of typed events per task *)
(* in agent_task_events, and API requests that claim a row by a            *)
(* conditional UPDATE, run a turn outside any transaction and commit the   *)
(* next version under the claim token they were given.                     *)
(*                                                                         *)
(* Every method reads the clock first and opens its one transaction later, *)
(* so the two are separate steps here: between them the clock runs and     *)
(* other requests, and the maintenance pass, commit. The conditional       *)
(* UPDATE locks its row until the transaction ends, so a transaction is    *)
(* one step. A request may vanish between any two steps (Drop): the turn   *)
(* failed, the worker crashed, or the reply was lost.                      *)
(***************************************************************************)
EXTENDS Integers, Sequences, FiniteSets

CONSTANTS
    Workers,        \* concurrent requests, over all API workers
    Tasks,          \* task keys; uuid4 never repeats, so a key is issued once
    Tokens,         \* claim tokens; token_urlsafe(32) never repeats
    Payloads,       \* encoded TaskState and context a turn may store
    NoTask, NoToken, NoPayload,
    TTL,            \* ttl_seconds
    Retention,      \* tombstone_retention_seconds
    BatchLimit,     \* limit of expire_stale and purge_tombstones
    MaxClock,       \* bound: the clock stops here
    MaxVersion      \* bound: versions a caller names

ASSUME TimesAssumption ==
    /\ TTL \in Nat \ {0}
    /\ Retention \in Nat \ {0}
    /\ BatchLimit \in Nat \ {0}
    /\ MaxClock \in Nat
    /\ MaxVersion \in Nat

ASSUME NullsAssumption ==
    /\ NoTask \notin Tasks
    /\ NoToken \notin Tokens
    /\ NoPayload \notin Payloads

VARIABLES
    clock,      \* the wall clock every process reads
    rows,       \* agent_task_checkpoints, by task key
    ledger,     \* agent_task_events, by task key, in event_id order
    issued,     \* claim tokens handed out so far (none is drawn twice)
    req,        \* each worker's request: where it stands and what it remembers
    maint       \* the maintenance pass

vars == <<clock, rows, ledger, issued, req, maint>>

NoTime == -1                        \* SQL NULL in purge_after_us

Live == {"active", "claimed"}
EndedByTurn == {"cancelled", "cleared", "switched"}
Tombstones == EndedByTurn \cup {"expired"}

(* "unissued" and "purged" both mean that the table has no such row. *)
RowStatus == {"unissued", "purged"} \cup Live \cup Tombstones

Row == [status: RowStatus, version: Nat, payload: Payloads \cup {NoPayload},
        token: Tokens \cup {NoToken}, expires: Nat,
        purgeAfter: Nat \cup {NoTime}]

NoRow(s) == [status |-> s, version |-> 0, payload |-> NoPayload,
             token |-> NoToken, expires |-> 0, purgeAfter |-> NoTime]

Event == [action: {"started", "claimed", "active"} \cup Tombstones,
          before: Nat, after: Nat]

(* What a request remembers: nothing, the task it names, or its TaskClaim. *)
Request ==
    [pc: {"idle", "start"}, task: {NoTask}, now: Nat, version: Nat,
     token: {NoToken}, seen: {NoPayload}]
    \cup [pc: {"claim"}, task: Tasks, now: Nat, version: Nat,
          token: {NoToken}, seen: {NoPayload}]
    \cup [pc: {"held", "commit"}, task: Tasks, now: Nat, version: Nat \ {0},
          token: Tokens, seen: Payloads \cup {NoPayload}]

Idle == [pc |-> "idle", task |-> NoTask, now |-> 0, version |-> 0,
         token |-> NoToken, seen |-> NoPayload]

StartRequest(now) ==
    [pc |-> "start", task |-> NoTask, now |-> now, version |-> 0,
     token |-> NoToken, seen |-> NoPayload]

ClaimRequest(t, now, version) ==
    [pc |-> "claim", task |-> t, now |-> now, version |-> version,
     token |-> NoToken, seen |-> NoPayload]

HeldRequestOfOldVersion(t, now, version, token, seen) ==
    [pc |-> "held", task |-> t, now |-> now, version |-> version - 1,
     token |-> token, seen |-> seen]

(* A TaskClaim: the row's new version and token, and what was read with them. *)
HeldRequest(t, now, version, token, seen) ==
    [pc |-> "held", task |-> t, now |-> now, version |-> version,
     token |-> token, seen |-> seen]

MaintPhase == {"idle", "expire", "expiring", "purge"}

NoPass == [phase |-> "idle", purgeNow |-> 0, expireNow |-> 0]

HasRow(t) == rows[t].status \notin {"unissued", "purged"}

Init ==
    /\ clock = 0
    /\ rows = [t \in Tasks |-> NoRow("unissued")]
    /\ ledger = [t \in Tasks |-> <<>>]
    /\ issued = {}
    /\ req = [w \in Workers |-> Idle]
    /\ maint = NoPass

-----------------------------------------------------------------------------
(* Rows as the methods write them. *)

ActiveRow(version, payload, now) ==
    [status |-> "active", version |-> version, payload |-> payload,
     token |-> NoToken, expires |-> now + TTL, purgeAfter |-> NoTime]

(* A claimed row keeps its payload, its expiry and its purge date. *)
ClaimedRow(r, version, token) ==
    [status |-> "claimed", version |-> version, payload |-> r.payload,
     token |-> token, expires |-> r.expires, purgeAfter |-> r.purgeAfter]

EndedRowPurgesAtOnce(r, s, now) ==
    [status |-> s, version |-> r.version + 1, payload |-> NoPayload,
     token |-> NoToken, expires |-> r.expires, purgeAfter |-> now]

(* A row ended by its holder keeps expires_at and counts retention from now. *)
EndedRow(r, s, now) ==
    [status |-> s, version |-> r.version + 1, payload |-> NoPayload,
     token |-> NoToken, expires |-> r.expires, purgeAfter |-> now + Retention]

ExpiredRowNeverPurges(r) ==
    [status |-> "expired", version |-> r.version, payload |-> NoPayload,
     token |-> NoToken, expires |-> r.expires, purgeAfter |-> r.purgeAfter]

(* A row expired by whoever finds it keeps its version; retention counts   *)
(* from the expiry itself.                                                  *)
ExpiredRow(r) ==
    [status |-> "expired", version |-> r.version, payload |-> NoPayload,
     token |-> NoToken, expires |-> r.expires, purgeAfter |-> r.expires + Retention]

ExpiredEvent(r) ==
    [action |-> "expired", before |-> r.version, after |-> r.version]

Lapsed(r, now) == r.status \in Live /\ r.expires <= now

Expire(ts) ==
    /\ rows' = [t \in Tasks |-> IF t \in ts THEN ExpiredRow(rows[t]) ELSE rows[t]]
    /\ ledger' = [t \in Tasks |->
                    IF t \in ts THEN Append(ledger[t], ExpiredEvent(rows[t]))
                                ELSE ledger[t]]

-----------------------------------------------------------------------------
(* start *)

BeginStart(w) ==
    /\ req[w].pc = "idle"
    /\ req' = [req EXCEPT ![w] = StartRequest(clock)]
    /\ UNCHANGED <<clock, rows, ledger, issued, maint>>

Start(w) ==
    /\ req[w].pc = "start"
    /\ \E t \in Tasks, p \in Payloads :
         /\ rows[t].status = "unissued"
         /\ rows' = [rows EXCEPT ![t] = ActiveRow(1, p, req[w].now)]
         /\ ledger' = [ledger EXCEPT ![t] =
                         Append(@, [action |-> "started", before |-> 0, after |-> 1])]
    /\ req' = [req EXCEPT ![w] = Idle]
    /\ UNCHANGED <<clock, issued, maint>>

-----------------------------------------------------------------------------
(* claim *)

(* A caller may name any version of a task it has heard of. Requests of     *)
(* another owner, tenant or role match no WHERE clause, are told            *)
(* task_unavailable and change nothing: they are left out.                  *)
BeginClaim(w) ==
    /\ req[w].pc = "idle"
    /\ \E t \in Tasks, v \in 1..MaxVersion :
         /\ rows[t].status # "unissued"
         /\ req' = [req EXCEPT ![w] = ClaimRequest(t, clock, v)]
    /\ UNCHANGED <<clock, rows, ledger, issued, maint>>

ClaimMatchesAnyStatus(w) ==
    LET r == rows[req[w].task] IN
    /\ r.version = req[w].version
    /\ r.status \in Live
    /\ r.expires > req[w].now

ClaimMatchesAnyVersion(w) ==
    LET r == rows[req[w].task] IN
    /\ r.status = "active"
    /\ r.expires > req[w].now

(* The WHERE clause of the claiming UPDATE. *)
ClaimMatches(w) ==
    LET r == rows[req[w].task] IN
    /\ r.version = req[w].version
    /\ r.status = "active"
    /\ r.expires > req[w].now

(* The winner: a fresh token, the version after the one it named, and the  *)
(* state and context it reads back in the same transaction.                *)
ClaimWin(w) ==
    LET t == req[w].task IN
    /\ req[w].pc = "claim"
    /\ ClaimMatches(w)
    /\ \E tok \in Tokens \ issued :
         /\ issued' = issued \cup {tok}
         /\ rows' = [rows EXCEPT ![t] = ClaimedRow(@, req[w].version + 1, tok)]
         /\ req' = [req EXCEPT ![w] = HeldRequest(t, req[w].now, req[w].version + 1,
                                                  tok, rows[t].payload)]
    /\ ledger' = [ledger EXCEPT ![t] =
                    Append(@, [action |-> "claimed", before |-> req[w].version,
                               after |-> req[w].version + 1])]
    /\ UNCHANGED <<clock, maint>>

(* A loser that finds the live row past its expiry turns it into a        *)
(* tombstone; any other loser changes nothing.                             *)
ClaimLose(w) ==
    LET t == req[w].task IN
    /\ req[w].pc = "claim"
    /\ ~ClaimMatches(w)
    /\ Expire({t} \cap {x \in Tasks : Lapsed(rows[x], req[w].now)})
    /\ req' = [req EXCEPT ![w] = Idle]
    /\ UNCHANGED <<clock, issued, maint>>

-----------------------------------------------------------------------------
(* commit, clear and switch. What a turn commits is decided before its      *)
(* clock is read; nothing reads the choice until the UPDATE that makes it.  *)

BeginCommitOnClaimClock(w) ==
    /\ req[w].pc = "held"
    /\ req' = [req EXCEPT ![w].pc = "commit"]
    /\ UNCHANGED <<clock, rows, ledger, issued, maint>>

BeginCommit(w) ==
    /\ req[w].pc = "held"
    /\ req' = [req EXCEPT ![w] = [@ EXCEPT !.pc = "commit", !.now = clock]]
    /\ UNCHANGED <<clock, rows, ledger, issued, maint>>

(* The WHERE clause of the committing UPDATE, of commit and of switch. *)
CommitMatches(w) ==
    LET r == rows[req[w].task] IN
    /\ r.version = req[w].version
    /\ r.status = "claimed"
    /\ r.token = req[w].token
    /\ r.expires > req[w].now

CommitActiveFiledUnderClaim(w) ==
    LET t == req[w].task IN
    /\ \E p \in Payloads :
         rows' = [rows EXCEPT ![t] = ActiveRow(req[w].version + 1, p, req[w].now)]
    /\ ledger' = [ledger EXCEPT ![t] =
                    Append(@, [action |-> "active", before |-> req[w].version - 1,
                               after |-> req[w].version])]

CommitActive(w) ==
    LET t == req[w].task IN
    /\ \E p \in Payloads :
         rows' = [rows EXCEPT ![t] = ActiveRow(req[w].version + 1, p, req[w].now)]
    /\ ledger' = [ledger EXCEPT ![t] =
                    Append(@, [action |-> "active", before |-> req[w].version - 1,
                               after |-> req[w].version + 1])]

CommitTerminal(w) ==
    LET t == req[w].task IN
    \E end \in {"cancelled", "cleared"} :
        /\ rows' = [rows EXCEPT ![t] = EndedRow(@, end, req[w].now)]
        /\ ledger' = [ledger EXCEPT ![t] =
                        Append(@, [action |-> end, before |-> req[w].version - 1,
                                   after |-> req[w].version + 1])]

SwitchLeavesOldClaimed(w) ==
    \E new \in Tasks, p \in Payloads :
        /\ rows[new].status = "unissued"
        /\ rows' = [rows EXCEPT ![new] = ActiveRow(1, p, req[w].now)]
        /\ ledger' = [ledger EXCEPT ![new] =
                        Append(@, [action |-> "switched",
                                   before |-> req[w].version - 1, after |-> 1])]

(* One transaction retires the old row and inserts the new one; its one    *)
(* event goes to the new task's ledger.                                    *)
SwitchTask(w) ==
    LET t == req[w].task IN
    /\ \E new \in Tasks, p \in Payloads :
         /\ rows[new].status = "unissued"
         /\ rows' = [rows EXCEPT ![t] = EndedRow(@, "switched", req[w].now),
                                 ![new] = ActiveRow(1, p, req[w].now)]
         /\ ledger' = [ledger EXCEPT ![new] =
                         Append(@, [action |-> "switched",
                                    before |-> req[w].version - 1, after |-> 1])]

CommitWin(w) ==
    /\ req[w].pc = "commit"
    /\ CommitMatches(w)
    /\ CommitActive(w) \/ CommitTerminal(w) \/ SwitchTask(w)
    /\ req' = [req EXCEPT ![w] = Idle]
    /\ UNCHANGED <<clock, issued, maint>>

(* The committer that missed expires a claim past its time, whoever holds it. *)
CommitLose(w) ==
    LET t == req[w].task IN
    /\ req[w].pc = "commit"
    /\ ~CommitMatches(w)
    /\ Expire({t} \cap {x \in Tasks : /\ rows[x].status = "claimed"
                                      /\ Lapsed(rows[x], req[w].now)})
    /\ req' = [req EXCEPT ![w] = Idle]
    /\ UNCHANGED <<clock, issued, maint>>

(* The request ends without its transaction, or after one that rolled back, *)
(* or its reply is lost: a claim it holds stays in the row.                  *)
Drop(w) ==
    /\ req[w].pc # "idle"
    /\ req' = [req EXCEPT ![w] = Idle]
    /\ UNCHANGED <<clock, rows, ledger, issued, maint>>

-----------------------------------------------------------------------------
(* Maintenance: purge_tombstones reads its clock, runs expire_stale, which  *)
(* reads its own, and then deletes.                                         *)

Batch(candidates, due, chosen) ==
    /\ chosen \subseteq candidates
    /\ Cardinality(chosen) = IF Cardinality(candidates) < BatchLimit
                             THEN Cardinality(candidates) ELSE BatchLimit
    /\ \A x \in chosen, y \in candidates \ chosen : due[x] <= due[y]

BeginPurge ==
    /\ maint.phase = "idle"
    /\ maint' = [phase |-> "expire", purgeNow |-> clock, expireNow |-> 0]
    /\ UNCHANGED <<clock, rows, ledger, issued, req>>

BeginExpire ==
    /\ maint.phase = "expire"
    /\ maint' = [phase |-> "expiring", purgeNow |-> maint.purgeNow, expireNow |-> clock]
    /\ UNCHANGED <<clock, rows, ledger, issued, req>>

StaleOnlyActive ==
    {t \in Tasks : rows[t].status = "active" /\ Lapsed(rows[t], maint.expireNow)}

Stale == {t \in Tasks : Lapsed(rows[t], maint.expireNow)}

ExpireStale ==
    /\ maint.phase = "expiring"
    /\ \E ts \in SUBSET Stale :
         /\ Batch(Stale, [t \in Tasks |-> rows[t].expires], ts)
         /\ Expire(ts)
    /\ maint' = [phase |-> "purge", purgeNow |-> maint.purgeNow, expireNow |-> 0]
    /\ UNCHANGED <<clock, issued, req>>

Purgeable == {t \in Tasks : /\ rows[t].purgeAfter # NoTime
                            /\ rows[t].purgeAfter <= maint.purgeNow}

Purge ==
    /\ maint.phase = "purge"
    /\ \E ts \in SUBSET Purgeable :
         /\ Batch(Purgeable, [t \in Tasks |-> rows[t].purgeAfter], ts)
         /\ rows' = [t \in Tasks |-> IF t \in ts THEN NoRow("purged") ELSE rows[t]]
         /\ ledger' = [t \in Tasks |-> IF t \in ts THEN <<>> ELSE ledger[t]]
    /\ maint' = NoPass
    /\ UNCHANGED <<clock, issued, req>>

(* The pass fails or its process dies; each transaction it made stands. *)
MaintenanceStops ==
    /\ maint.phase # "idle"
    /\ maint' = NoPass
    /\ UNCHANGED <<clock, rows, ledger, issued, req>>

Tick ==
    /\ clock < MaxClock
    /\ clock' = clock + 1
    /\ UNCHANGED <<rows, ledger, issued, req, maint>>

-----------------------------------------------------------------------------
RequestStep(w) ==
    \/ BeginStart(w) \/ Start(w)
    \/ BeginClaim(w) \/ ClaimWin(w) \/ ClaimLose(w)
    \/ BeginCommit(w) \/ CommitWin(w) \/ CommitLose(w)
    \/ Drop(w)

Maintenance == BeginPurge \/ BeginExpire \/ ExpireStale \/ Purge

Next ==
    \/ Tick
    \/ \E w \in Workers : RequestStep(w)
    \/ Maintenance
    \/ MaintenanceStops

Spec == Init /\ [][Next]_vars

(* The scheduler is outside the repository: the runbook has the operator    *)
(* call the maintenance pass periodically (docs/state/runbook.md:43), so a  *)
(* pass always starts again, and one that keeps failing finally gets through. *)
Fairness ==
    /\ WF_vars(Tick)
    /\ WF_vars(BeginPurge)
    /\ SF_vars(BeginExpire) /\ SF_vars(ExpireStale) /\ SF_vars(Purge)

FairSpec == Spec /\ Fairness

-----------------------------------------------------------------------------
(* Properties *)

TypeOK ==
    /\ clock \in Nat
    /\ rows \in [Tasks -> Row]
    /\ ledger \in [Tasks -> Seq(Event)]
    /\ issued \subseteq Tokens
    /\ req \in [Workers -> Request]
    /\ maint \in [phase: MaintPhase, purgeNow: Nat, expireNow: Nat]

(* The worker's claim on t is still the row's. *)
Holds(w, t) ==
    /\ req[w].pc \in {"held", "commit"}
    /\ req[w].task = t
    /\ rows[t].status = "claimed"
    /\ rows[t].token = req[w].token

(* A claim on a task is one turn's alone: two requests never both hold it,  *)
(* whatever versions they named and however long they stalled.              *)
OneHolder ==
    \A t \in Tasks : \A v, w \in Workers : Holds(v, t) /\ Holds(w, t) => v = w

(* No lost update: while a request holds a claim the row still carries the  *)
(* very version and payload it read, so its commit builds on them.          *)
HolderSawTheRow ==
    \A t \in Tasks, w \in Workers :
        Holds(w, t) => /\ rows[t].version = req[w].version
                       /\ rows[t].payload = req[w].seen

(* What each status means for the other columns: a tombstone keeps neither  *)
(* payload nor token and always has a purge date; only a claimed row has a  *)
(* token; only a live row has a payload. Six statements write these columns. *)
Agrees(r) ==
    /\ r.status = "claimed" <=> r.token # NoToken
    /\ r.status \in Live <=> r.payload # NoPayload
    /\ r.status \in Tombstones <=> r.purgeAfter # NoTime

ColumnsAgree == \A t \in Tasks : Agrees(rows[t])

(* The ledger of a task is a legal history: claims and their outcomes       *)
(* alternate, every version is claimed at most once, an outcome names the   *)
(* version its claim named, and nothing follows an end.                     *)
LegalSuccessor(e, f) ==
    \/ /\ f.action = "claimed"
       /\ e.action \in {"started", "switched", "active"}
       /\ f.before = e.after /\ f.after = e.after + 1
    \/ /\ f.action \in {"active", "cancelled", "cleared"}
       /\ e.action = "claimed"
       /\ f.before = e.before /\ f.after = e.after + 1
    \/ /\ f.action = "expired"
       /\ e.action \in {"started", "switched", "active", "claimed"}
       /\ f.before = e.after /\ f.after = e.after

LedgerIsLegal ==
    \A t \in Tasks : \A i \in 1..(Len(ledger[t]) - 1) :
        LegalSuccessor(ledger[t][i], ledger[t][i + 1])

(* The last event of a task tells its row, but for a task ended by a switch: *)
(* that event is filed under the new task, and the old ledger stops at the   *)
(* claim, one version short.                                                 *)
StatusAfter(e) == IF e.action \in {"started", "switched"} THEN "active" ELSE e.action

LedgerTellsRow ==
    \A t \in Tasks : HasRow(t) =>
        LET e == ledger[t][Len(ledger[t])] IN
        IF rows[t].status = "switched"
        THEN e.action = "claimed" /\ rows[t].version = e.after + 1
        ELSE rows[t].status = StatusAfter(e) /\ rows[t].version = e.after

(* A claim ends only by its holder's commit, or by an expiry whose time has  *)
(* come: no other request, and no maintenance pass, takes it away earlier.   *)
ClaimEndsByHolderOrExpiry ==
    [][\A t \in Tasks : rows[t].status = "claimed" /\ rows'[t] # rows[t] =>
          \/ \E w \in Workers : Holds(w, t) /\ req[w].pc = "commit"
                               /\ rows'[t].version = rows[t].version + 1
          \/ rows'[t].status = "expired" /\ rows[t].expires <= clock]_vars

(* A commit never shortens the life of its task, though its clock was read   *)
(* before its transaction and others committed in between.                   *)
LeaseNeverShortens ==
    [][\A t \in Tasks : rows[t].status \in Live /\ rows'[t].status \in Live
            => rows'[t].expires >= rows[t].expires]_vars

(* A step that ends t sets the row to be purged a full retention later: after *)
(* the expiry of an expired task, after the clock its holder read of one the  *)
(* holder cancelled, cleared or switched.                                     *)
EndsWithRetention(t) ==
    \/ /\ rows'[t].status = "expired"
       /\ rows'[t].purgeAfter >= rows[t].expires + Retention
    \/ /\ rows'[t].status \in EndedByTurn
       /\ \E w \in Workers : /\ Holds(w, t) /\ req[w].pc = "commit"
                             /\ rows'[t].purgeAfter >= req[w].now + Retention

(* No task disappears before its retention has passed, however it ended: a    *)
(* live one is never deleted, it ends with a full retention ahead of it, and  *)
(* then no statement touches its row or its events until that time has come   *)
(* (purge_tombstones, against every UPDATE and the event INSERTs).            *)
RetentionHonoured ==
    [][\A t \in Tasks :
          /\ rows[t].status \in Live => rows'[t].status \in Live \/ EndsWithRetention(t)
          /\ rows[t].status \in Tombstones =>
                \/ rows'[t] = rows[t] /\ ledger'[t] = ledger[t]
                \/ ~HasRow(t)' /\ rows[t].purgeAfter <= clock]_vars

HoldersOf(t) == {w \in Workers : Holds(w, t)}

Port == INSTANCE TaskBoundaryPort WITH
            Actors <- Workers,
            status <- [t \in Tasks |-> rows[t].status],
            version <- [t \in Tasks |-> rows[t].version],
            holders <- [t \in Tasks |-> HoldersOf(t)]

(* The store implements the port. *)
ImplementsPort == Port!PortSpec

(* A claim nobody will ever commit (its turn was rejected, its worker died)  *)
(* does not lock the task for good.                                          *)
StuckClaimIsReclaimed ==
    \A t \in Tasks :
        (rows[t].status = "claimed" /\ rows[t].expires <= MaxClock)
            ~> (rows[t].status # "claimed")

(* An expired task does not stay in the table for good, however small the    *)
(* batches.                                                                  *)
ExpiredIsPurged ==
    \A t \in Tasks :
        (rows[t].status = "expired" /\ rows[t].expires + Retention <= MaxClock)
            ~> (rows[t].status = "purged")
=============================================================================
