------------------------- MODULE MemoryTaskBoundary -------------------------
(***************************************************************************)
(* The in-process adapter of the same port (engine/phase4b/task_boundary.py *)
(* TaskBoundary), used where the durable store is not configured. Every     *)
(* method is one critical section of an RLock, so one step; only start and   *)
(* switch read the clock before they take the lock.                          *)
(***************************************************************************)
EXTENDS Integers

CONSTANTS
    Workers, Tasks, Tokens, NoToken,
    TTL,
    MaxClock,       \* bound: the clock stops here
    MaxVersion      \* bound: versions a caller names

ASSUME MemoryAssumption == TTL \in Nat /\ NoToken \notin Tokens

VARIABLES
    clock,
    items,      \* the dictionary, by task id; "unissued" is an absent key
    issued,     \* claim tokens handed out
    held        \* the claim projection each turn keeps

vars == <<clock, items, issued, held>>

Live == {"active", "claimed"}
EndedByTurn == {"cancelled", "switched", "cleared"}

(* What a commit may leave the item as: a terminal_status that is none of   *)
(* the known ones means active.                                             *)
CommittedAs == {"active", "cancelled", "cleared"}

Item == [status: Live \cup EndedByTurn \cup {"unissued", "expired"},
         version: Nat, token: Tokens \cup {NoToken}, expires: Nat]

Absent == [status |-> "unissued", version |-> 0, token |-> NoToken, expires |-> 0]

Nothing == [task |-> "none", version |-> 0, token |-> NoToken]

Init ==
    /\ clock = 0
    /\ items = [t \in Tasks |-> Absent]
    /\ issued = {}
    /\ held = [w \in Workers |-> Nothing]

Issued(t) == items[t].status # "unissued"

FreshAtZero(now) == [status |-> "active", version |-> 0, token |-> NoToken,
                     expires |-> now + TTL]

Fresh(now) == [status |-> "active", version |-> 1, token |-> NoToken,
               expires |-> now + TTL]

Start ==
    /\ \E t \in Tasks, now \in 0..clock :
         /\ ~Issued(t)
         /\ items' = [items EXCEPT ![t] = Fresh(now)]
    /\ UNCHANGED <<clock, issued, held>>

(* Whatever the item's status was. *)
ExpireItem(t) ==
    /\ clock >= items[t].expires
    /\ items' = [items EXCEPT ![t].status = "expired", ![t].token = NoToken]

ActiveOrClaimed(t) == items[t].status \in Live

MayBeClaimed(t) == items[t].status = "active"

Claim(w, t) ==
    /\ held[w] = Nothing /\ Issued(t)
    /\ \/ ExpireItem(t) /\ UNCHANGED <<issued, held>>
       \/ /\ clock < items[t].expires
          /\ MayBeClaimed(t)
          /\ items[t].version <= MaxVersion
          /\ \E tok \in Tokens \ issued :
               /\ issued' = issued \cup {tok}
               /\ items' = [items EXCEPT ![t].status = "claimed",
                                         ![t].version = @ + 1, ![t].token = tok]
               /\ held' = [held EXCEPT ![w] = [task |-> t, token |-> tok,
                                               version |-> items[t].version + 1]]
    /\ UNCHANGED clock

Matches(w) ==
    LET i == items[held[w].task] IN
    /\ i.status = "claimed" /\ i.version = held[w].version /\ i.token = held[w].token

(* A commit, terminal or not, gives the item a full TTL again. *)
Commit(w) ==
    LET t == held[w].task IN
    /\ held[w] # Nothing
    /\ \/ ExpireItem(t)
       \/ /\ clock < items[t].expires
          /\ IF Matches(w)
             THEN \E s \in CommittedAs :
                    items' = [items EXCEPT ![t] =
                                [status |-> s, version |-> @.version + 1,
                                 token |-> NoToken, expires |-> clock + TTL]]
             ELSE UNCHANGED items
    /\ held' = [held EXCEPT ![w] = Nothing]
    /\ UNCHANGED <<clock, issued>>

Switch(w) ==
    LET t == held[w].task IN
    /\ held[w] # Nothing
    /\ \/ ExpireItem(t)
       \/ /\ clock < items[t].expires
          /\ IF Matches(w)
             THEN \E new \in Tasks, now \in 0..clock :
                    /\ ~Issued(new)
                    /\ items' = [items EXCEPT ![t].status = "switched",
                                              ![t].version = @ + 1,
                                              ![t].token = NoToken,
                                              ![new] = Fresh(now)]
             ELSE UNCHANGED items
    /\ held' = [held EXCEPT ![w] = Nothing]
    /\ UNCHANGED <<clock, issued>>

Drop(w) ==
    /\ held[w] # Nothing
    /\ held' = [held EXCEPT ![w] = Nothing]
    /\ UNCHANGED <<clock, items, issued>>

Tick ==
    /\ clock < MaxClock
    /\ clock' = clock + 1
    /\ UNCHANGED <<items, issued, held>>

Next ==
    \/ Start \/ Tick
    \/ \E w \in Workers :
          \/ \E t \in Tasks : Claim(w, t)
          \/ Commit(w) \/ Switch(w) \/ Drop(w)

Spec == Init /\ [][Next]_vars

-----------------------------------------------------------------------------
(* Properties. *)

(* The dictionary and the projections keep their types. *)
TypeOK ==
    /\ clock \in Nat
    /\ items \in [Tasks -> Item]
    /\ issued \subseteq Tokens
    /\ held \in [Workers -> [task: Tasks, version: Nat \ {0}, token: Tokens] \cup {Nothing}]

(* A turn holds a task while a commit of its projection could still match. *)
Holds(w, t) ==
    /\ held[w].task = t
    /\ items[t].status = "claimed" /\ items[t].version = held[w].version
    /\ items[t].token = held[w].token

HoldersOf(t) == {w \in Workers : Holds(w, t)}

(* Before the TTL of its task is over, a turn that has claimed it can still  *)
(* commit: only time takes a claim away (TaskBoundary.claim refuses a        *)
(* claimed task, and claim, commit and switch expire by the clock alone).    *)
OnlyTimeTakesClaims ==
    \A w \in Workers :
        held[w] # Nothing /\ clock < items[held[w].task].expires
            => Holds(w, held[w].task)

Port == INSTANCE TaskBoundaryPort WITH
            Actors  <- Workers,
            status  <- [t \in Tasks |-> items[t].status],
            version <- [t \in Tasks |-> items[t].version],
            holders <- [t \in Tasks |-> HoldersOf(t)]

(* Every method of the in-process adapter is a step of the port, or of the   *)
(* port that relabels an ended task as expired: with the durable store it    *)
(* shares versions, the single holder, and that nothing ended comes back     *)
(* (TaskBoundary.claim, commit, switch against TaskBoundaryPort).            *)
ImplementsLenientPort == Port!LenientSpec

=============================================================================
