-------------------------- MODULE ThreadCheckpoint --------------------------
(***************************************************************************)
(* Clarification threads and their one bounded follow-up: the in-process    *)
(* checkpoint manager (engine/harness/thread.py) and the turns that use it  *)
(* (engine/harness/turn.py). A turn claims a checkpoint under the manager's *)
(* lock, runs the Harness graph once outside it, and then settles the       *)
(* checkpoint under the lock again; clear may come in between. A restart    *)
(* loses every thread and every turn.                                       *)
(***************************************************************************)
EXTENDS Integers

CONSTANTS
    Workers,        \* concurrent turns
    Threads,        \* thread ids; uuid4 never repeats
    TTL,            \* ttl_seconds
    MaxClock        \* bound: the clock stops here

ASSUME TTLAssumption == TTL \in Nat \ {0} /\ MaxClock \in Nat

VARIABLES
    clock,
    points,     \* the checkpoints, by thread id
    turn,       \* the claim each worker's turn holds
    runs        \* history: graph runs of accepted claims, by thread and kind

vars == <<clock, points, turn, runs>>

Open == {"pending", "follow_up_ready"}
Claimed == {"claimed", "follow_up_claimed"}
Ended == {"resolved", "cleared"}

MaxVersion == 6     \* pending, claimed, ready, claimed, resolved, cleared

Point == [status: {"unissued", "lost"} \cup Open \cup Claimed \cup Ended,
          version: 0..MaxVersion, expires: Nat, optIn: BOOLEAN]

NoPoint(s) == [status |-> s, version |-> 0, expires |-> 0, optIn |-> FALSE]

Kinds == {"resume", "follow_up"}

Turn == [thread: Threads, kind: Kinds, version: 0..MaxVersion]

Idle == [kind |-> "idle"]

Init ==
    /\ clock = 0
    /\ points = [t \in Threads |-> NoPoint("unissued")]
    /\ turn = [w \in Workers |-> Idle]
    /\ runs = [t \in Threads |-> [k \in Kinds |-> 0]]

Known(t) == points[t].status \notin {"unissued", "lost"}

(* An initial turn ends in a clarification, or in a complete answer that     *)
(* offers a follow-up because the request opted in.                          *)
Create(t) ==
    /\ points[t].status = "unissued"
    /\ \E status \in Open, optIn \in BOOLEAN, now \in 0..clock :
         /\ status = "follow_up_ready" => optIn
         /\ points' = [points EXCEPT ![t] =
                         [status |-> status, version |-> 1, expires |-> now + TTL,
                          optIn |-> optIn]]
    /\ UNCHANGED <<clock, turn, runs>>

ClaimOnVersionAlone(t, v, from, to) ==
    /\ points[t].status = from
    /\ clock < points[t].expires
    /\ points[t].version = v
    /\ points' = [points EXCEPT ![t].version = @ + 1]

(* _validate_resumable, _validate_follow_up_claim and the replace that follows *)
(* them. A claim that is refused changes nothing.                             *)
ClaimPoint(t, v, from, to) ==
    /\ points[t].status = from
    /\ clock < points[t].expires
    /\ points[t].version = v
    /\ points' = [points EXCEPT ![t].status = to, ![t].version = @ + 1]

Claim(w, t, v, kind) ==
    /\ turn[w] = Idle
    /\ \/ kind = "resume" /\ ClaimPoint(t, v, "pending", "claimed")
       \/ kind = "follow_up" /\ ClaimPoint(t, v, "follow_up_ready", "follow_up_claimed")
    /\ turn' = [turn EXCEPT ![w] = [thread |-> t, kind |-> kind, version |-> v + 1]]
    /\ runs' = [runs EXCEPT ![t][kind] = @ + 1]
    /\ UNCHANGED clock

StandsUnlessFollowUp(w, statuses) ==
    LET p == points[turn[w].thread]
    IN p.status \in statuses \ {"follow_up_claimed"} /\ p.version = turn[w].version

StandsAnyhow(w, statuses) == Known(turn[w].thread)

(* The checkpoint is still as the turn's claim left it. *)
Stands(w, statuses) ==
    LET p == points[turn[w].thread]
    IN p.status \in statuses /\ p.version = turn[w].version

Advance(w, to) ==
    points' = [points EXCEPT ![turn[w].thread].status = to,
                             ![turn[w].thread].version = @ + 1]

(* resolve; refused, it changes nothing. *)
Resolve(w) ==
    \/ Stands(w, Claimed) /\ Advance(w, "resolved")
    \/ ~Stands(w, Claimed) /\ UNCHANGED points

(* promote_claimed_to_follow_up, refused likewise. It can also refuse the      *)
(* snapshot of an answer, which no answer of the adapters here gives cause to. *)
Promote(w) ==
    \/ Stands(w, {"claimed"}) /\ Advance(w, "follow_up_ready")
    \/ ~Stands(w, {"claimed"}) /\ UNCHANGED points

(* A resume turn whose answer may be followed up is promoted, not resolved. *)
SettleResume(w) ==
    /\ turn[w].kind = "resume"
    /\ \/ Resolve(w)
       \/ points[turn[w].thread].optIn /\ Promote(w)

SettleFollowUp(w) ==
    /\ turn[w].kind = "follow_up"
    /\ Resolve(w)

Settle(w) ==
    /\ SettleResume(w) \/ SettleFollowUp(w)
    /\ turn' = [turn EXCEPT ![w] = Idle]
    /\ UNCHANGED <<clock, runs>>

(* The owner clears a thread whose version it names, whatever goes on in it. *)
Clear(t, v) ==
    /\ Known(t)
    /\ points[t].version = v
    /\ points[t].status # "cleared"
    /\ points' = [points EXCEPT ![t].status = "cleared", ![t].version = @ + 1]
    /\ UNCHANGED <<clock, turn, runs>>

Restart ==
    /\ points' = [t \in Threads |-> IF Known(t) THEN NoPoint("lost") ELSE points[t]]
    /\ turn' = [w \in Workers |-> Idle]
    /\ UNCHANGED <<clock, runs>>

Tick ==
    /\ clock < MaxClock
    /\ clock' = clock + 1
    /\ UNCHANGED <<points, turn, runs>>

Next ==
    \/ Tick \/ Restart
    \/ \E t \in Threads : Create(t) \/ \E v \in 1..MaxVersion : Clear(t, v)
    \/ \E w \in Workers :
          \/ Settle(w)
          \/ \E t \in Threads, v \in 1..MaxVersion, k \in Kinds : Claim(w, t, v, k)

Spec == Init /\ [][Next]_vars

(* A graph run ends, by an answer or a failure that run_harness turns into a *)
(* result, and its turn settles the checkpoint.                              *)
FairSpec == Spec /\ \A w \in Workers : WF_vars(Settle(w))

-----------------------------------------------------------------------------
TypeOK ==
    /\ clock \in Nat
    /\ points \in [Threads -> Point]
    /\ \A w \in Workers : turn[w] = Idle \/ turn[w] \in Turn
    /\ runs \in [Threads -> [Kinds -> Nat]]

(* However many requests race, retry or replay a version, a thread buys one   *)
(* graph run for its clarification and one for its follow-up.                 *)
OneRunPerBudget == \A t \in Threads, k \in Kinds : runs[t][k] <= 1

(* A thread that was resolved or cleared never opens again, though the graph  *)
(* run of a claim that was cleared under it still comes to settle it.         *)
EndedNeverReopens ==
    [][\A t \in Threads :
          /\ points[t].status = "resolved"
               => points'[t].status \in {"resolved", "cleared", "lost"}
          /\ points[t].status = "cleared"
               => points'[t] \in {points[t], NoPoint("lost")}]_vars

(* "Run the graph once outside the lock, and finally resolve unconditionally  *)
(* into a state that cannot be replayed" (turn.py:196): no claim stays open,  *)
(* whatever its graph run came to and whoever cleared the thread meanwhile.   *)
ClaimSettles ==
    \A t \in Threads : (points[t].status \in Claimed) ~> (points[t].status \notin Claimed)
=============================================================================
