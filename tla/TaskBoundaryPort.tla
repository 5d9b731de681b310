-------------------------- MODULE TaskBoundaryPort --------------------------
(***************************************************************************)
(* What a task turn is promised by TaskBoundaryPort (task_boundary.py:     *)
(* 135-148), whichever adapter stands behind it, said without clocks,      *)
(* tokens or database rows: a task has a version, at most one turn holds   *)
(* it at a time, only that turn advances or retires it, and a task that    *)
(* has ended never ends again, and never comes back.                       *)
(***************************************************************************)
EXTENDS Integers

CONSTANTS
    Actors,     \* the turns that may hold a task
    Tasks       \* every task id that can ever be issued

VARIABLES
    status,     \* [Tasks -> PortStatus]
    version,    \* [Tasks -> Nat], the version a caller must name
    holders     \* [Tasks -> SUBSET Actors], the turns that can still commit

portVars == <<status, version, holders>>

PortLive == {"active", "claimed"}
PortEnded == {"cancelled", "switched", "cleared", "expired"}
PortStatus == {"unissued", "purged"} \cup PortLive \cup PortEnded

PortInit ==
    /\ status = [t \in Tasks |-> "unissued"]
    /\ version = [t \in Tasks |-> 0]
    /\ holders = [t \in Tasks |-> {}]

Issue(t) ==
    /\ status[t] = "unissued"
    /\ status' = [status EXCEPT ![t] = "active"]
    /\ version' = [version EXCEPT ![t] = 1]
    /\ UNCHANGED holders

Claim(a, t) ==
    /\ status[t] = "active"
    /\ holders[t] = {}
    /\ status' = [status EXCEPT ![t] = "claimed"]
    /\ version' = [version EXCEPT ![t] = @ + 1]
    /\ holders' = [holders EXCEPT ![t] = {a}]

(* A holder's commit: the task goes on (active) or ends (any other `to`). *)
Commit(a, t, to) ==
    /\ status[t] = "claimed"
    /\ holders[t] = {a}
    /\ status' = [status EXCEPT ![t] = to]
    /\ version' = [version EXCEPT ![t] = @ + 1]
    /\ holders' = [holders EXCEPT ![t] = {}]

(* A holder retires its task and issues a new one, in one step. *)
Switch(a, old, new) ==
    /\ status[old] = "claimed"
    /\ holders[old] = {a}
    /\ status[new] = "unissued"
    /\ status' = [status EXCEPT ![old] = "switched", ![new] = "active"]
    /\ version' = [version EXCEPT ![old] = @ + 1, ![new] = 1]
    /\ holders' = [holders EXCEPT ![old] = {}]

(* A holder goes away without a commit: the task stays claimed, by nobody. *)
Abandon(a, t) ==
    /\ a \in holders[t]
    /\ holders' = [holders EXCEPT ![t] = @ \ {a}]
    /\ UNCHANGED <<status, version>>

(* Only what is still live may lapse, and its holder loses it. *)
Lapse(ts) ==
    /\ \A t \in ts : status[t] \in PortLive
    /\ status' = [t \in Tasks |-> IF t \in ts THEN "expired" ELSE status[t]]
    /\ holders' = [t \in Tasks |-> IF t \in ts THEN {} ELSE holders[t]]
    /\ UNCHANGED version

(* Only what has ended may be forgotten. *)
Forget(ts) ==
    /\ \A t \in ts : status[t] \in PortEnded
    /\ status' = [t \in Tasks |-> IF t \in ts THEN "purged" ELSE status[t]]
    /\ version' = [t \in Tasks |-> IF t \in ts THEN 0 ELSE version[t]]
    /\ UNCHANGED holders

PortNext ==
    \/ \E ts \in SUBSET Tasks : Lapse(ts) \/ Forget(ts)
    \/ \E t \in Tasks :
          \/ Issue(t)
          \/ \E a \in Actors :
                \/ Claim(a, t)
                \/ Abandon(a, t)
                \/ \E to \in {"active", "cancelled", "cleared"} : Commit(a, t, to)
                \/ \E new \in Tasks : Switch(a, t, new)

PortSpec == PortInit /\ [][PortNext]_portVars

-----------------------------------------------------------------------------
(* The promise without its word on how a task ended: an adapter may report  *)
(* as expired what was cancelled, switched or cleared.                      *)

Relabel(ts) ==
    /\ \A t \in ts : status[t] \in PortEnded
    /\ status' = [t \in Tasks |-> IF t \in ts THEN "expired" ELSE status[t]]
    /\ UNCHANGED <<version, holders>>

LenientNext == PortNext \/ \E ts \in SUBSET Tasks : Relabel(ts)

LenientSpec == PortInit /\ [][LenientNext]_portVars
=============================================================================
