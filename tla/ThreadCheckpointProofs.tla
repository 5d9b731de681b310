---------------------- MODULE ThreadCheckpointProofs ----------------------
(***************************************************************************)
(* What a clarification thread keeps for any number of workers, threads and *)
(* any lifetime: its types, one graph run per budget, and its end.          *)
(*                                                                          *)
(* OneRunPerBudget counts runs, and nothing in a count says that there will *)
(* be no further one. The status does: a checkpoint only moves from pending *)
(* to claimed to ready to claimed again, so Lawful ties the runs a thread   *)
(* has bought, and the versions it can have reached, to its status.         *)
(***************************************************************************)
EXTENDS ThreadCheckpoint, TLAPS

(* The runs bought, and the version reached, by a checkpoint of a status. *)
Lawful(p, r) ==
    /\ r["resume"] \in 0..1 /\ r["follow_up"] \in 0..1
    /\ p.status \in {"unissued", "pending"} => r["resume"] = 0
    /\ p.status \in {"unissued", "pending", "claimed", "follow_up_ready"} => r["follow_up"] = 0
    /\ p.status = "pending" => p.version = 1
    /\ p.status = "claimed" => p.version = 2
    /\ p.status = "follow_up_ready" => p.version \in {1, 3}
    /\ p.status = "follow_up_claimed" => p.version \in {2, 4}
    /\ p.status = "resolved" => p.version \in 3..5

ThreadInv == TypeOK /\ \A t \in Threads : Lawful(points[t], runs[t])

-----------------------------------------------------------------------------
(* No thread has been issued and no run bought. *)
LEMMA ThreadInitInv == Init => ThreadInv
  BY DEF Init, ThreadInv, TypeOK, Lawful, NoPoint, Point, MaxVersion, Open, Claimed, Ended, Kinds

(* A step that changes at most one thread, lawfully, keeps the invariant. *)
LEMMA OneThread ==
  ASSUME ThreadInv, clock' \in Nat,
         \A w \in Workers : turn'[w] = Idle \/ turn'[w] \in Turn,
         NEW t \in Threads, NEW p \in Point, NEW r \in [Kinds -> Nat], Lawful(p, r),
         points' = [points EXCEPT ![t] = p], runs' = [runs EXCEPT ![t] = r]
  PROVE  ThreadInv'
<1>1. points' \in [Threads -> Point] /\ runs' \in [Threads -> [Kinds -> Nat]]
  BY DEF ThreadInv, TypeOK
<1>2. \A x \in Threads : Lawful(points'[x], runs'[x])
  BY DEF ThreadInv, TypeOK
<1>3. (\A x \in Threads : Lawful(points[x], runs[x]))'
  BY <1>2 DEF Lawful
<1> QED BY <1>1, <1>3 DEF ThreadInv, TypeOK

(* Moving a checkpoint on is replacing it by the next version of itself. *)
LEMMA NextVersion ==
  ASSUME points \in [Threads -> Point], NEW t \in Threads, NEW s,
         points' = [points EXCEPT ![t].status = s, ![t].version = @ + 1]
  PROVE  points' = [points EXCEPT ![t] =
                      [status |-> s, version |-> points[t].version + 1,
                       expires |-> points[t].expires, optIn |-> points[t].optIn]]
<1>1. points[t] \in Point
  OBVIOUS
<1> QED BY <1>1 DEF Point

-----------------------------------------------------------------------------
(* Every step keeps the invariant. *)
LEMMA ThreadStepInv == ThreadInv /\ [Next]_vars => ThreadInv'
<1> SUFFICES ASSUME ThreadInv, [Next]_vars PROVE ThreadInv'
  OBVIOUS
<1>types. /\ clock \in Nat /\ points \in [Threads -> Point]
          /\ runs \in [Threads -> [Kinds -> Nat]]
          /\ \A w \in Workers : turn[w] = Idle \/ turn[w] \in Turn
          /\ \A t \in Threads : Lawful(points[t], runs[t])
  BY DEF ThreadInv, TypeOK
<1>1. CASE UNCHANGED vars
  BY <1>1 DEF vars, ThreadInv, TypeOK, Lawful
<1>2. CASE Tick
  BY <1>2, TTLAssumption DEF Tick, ThreadInv, TypeOK, Lawful
<1>3. CASE Restart
  <2>1. points' = [t \in Threads |-> IF Known(t) THEN NoPoint("lost") ELSE points[t]]
        /\ turn' = [w \in Workers |-> Idle] /\ UNCHANGED <<clock, runs>>
    BY <1>3 DEF Restart
  <2>2. NoPoint("lost") \in Point
    BY DEF NoPoint, Point, MaxVersion
  <2>3. \A t \in Threads : Lawful(points'[t], runs[t])
    BY <1>types, <2>1 DEF Lawful, NoPoint
  <2> QED BY <1>types, <2>1, <2>2, <2>3 DEF ThreadInv, TypeOK, Lawful
<1>4. ASSUME NEW t \in Threads, Create(t) PROVE ThreadInv'
  <2>1. PICK status \in Open, optIn \in BOOLEAN, now \in 0..clock :
          points' = [points EXCEPT ![t] = [status |-> status, version |-> 1,
                                           expires |-> now + TTL, optIn |-> optIn]]
    BY <1>4 DEF Create
  <2> DEFINE p == [status |-> status, version |-> 1, expires |-> now + TTL, optIn |-> optIn]
  <2>2. p \in Point
    BY <1>types, TTLAssumption DEF Point, Open, MaxVersion
  <2>3. Lawful(p, runs[t])
    BY <1>4, <1>types DEF Create, Lawful, Open
  <2>4. runs' = [runs EXCEPT ![t] = runs[t]] /\ UNCHANGED <<clock, turn>>
    BY <1>4, <1>types DEF Create
  <2> HIDE DEF p
  <2>5. points' = [points EXCEPT ![t] = p]
    BY <2>1 DEF p
  <2> QED BY <1>types, <2>2, <2>3, <2>4, <2>5, OneThread
<1>5. ASSUME NEW t \in Threads, NEW v \in 1..MaxVersion, Clear(t, v) PROVE ThreadInv'
  <2> DEFINE p == [status |-> "cleared", version |-> points[t].version + 1,
                   expires |-> points[t].expires, optIn |-> points[t].optIn]
  <2>1. points' = [points EXCEPT ![t] = p]
    BY <1>5, <1>types, NextVersion DEF Clear
  <2>2. points[t] \in Point /\ Lawful(points[t], runs[t]) /\ points[t].status # "cleared"
        /\ Known(t)
    BY <1>5, <1>types DEF Clear
  <2>3. points[t].version + 1 \in 0..MaxVersion
    BY <2>2 DEF Known, Lawful, Point, Open, Claimed, Ended, MaxVersion
  <2>4. p \in Point
    BY <2>2, <2>3 DEF Point, Ended
  <2>5. Lawful(p, runs[t])
    BY <2>2 DEF Lawful
  <2>6. runs' = [runs EXCEPT ![t] = runs[t]] /\ UNCHANGED <<clock, turn>>
    BY <1>5, <1>types DEF Clear
  <2> HIDE DEF p
  <2> QED BY <1>types, <2>1, <2>4, <2>5, <2>6, OneThread
<1>6. ASSUME NEW w \in Workers, NEW t \in Threads, NEW v \in 1..MaxVersion, NEW k \in Kinds,
             Claim(w, t, v, k)
      PROVE  ThreadInv'
  <2>1. PICK s \in Claimed :
          /\ points' = [points EXCEPT ![t].status = s, ![t].version = @ + 1]
          /\ \/ k = "resume" /\ s = "claimed" /\ points[t].status = "pending"
             \/ /\ k = "follow_up" /\ s = "follow_up_claimed"
                /\ points[t].status = "follow_up_ready"
    BY <1>6 DEF Claim, ClaimPoint, Claimed
  <2> DEFINE p == [status |-> s, version |-> points[t].version + 1,
                   expires |-> points[t].expires, optIn |-> points[t].optIn]
             r == [runs[t] EXCEPT ![k] = @ + 1]
  <2>2. points[t] \in Point /\ Lawful(points[t], runs[t]) /\ runs[t] \in [Kinds -> Nat]
    BY <1>types
  <2>3. points' = [points EXCEPT ![t] = p]
    BY <1>types, <2>1, NextVersion
  <2>4. p \in Point
    BY <2>1, <2>2 DEF Point, Lawful, Claimed, MaxVersion
  <2>5. r \in [Kinds -> Nat] /\ runs' = [runs EXCEPT ![t] = r]
    BY <1>6, <1>types, <2>2 DEF Claim
  <2>6. Lawful(p, r)
    BY <2>1, <2>2 DEF Lawful, Kinds
  <2>7. v + 1 \in 0..MaxVersion
    BY <1>6, <2>1, <2>2 DEF Claim, ClaimPoint, Lawful, MaxVersion
  <2>8. \A x \in Workers : turn'[x] = Idle \/ turn'[x] \in Turn
    <3>1. [thread |-> t, kind |-> k, version |-> v + 1] \in Turn
      BY <2>7 DEF Turn
    <3>2. turn' = [turn EXCEPT ![w] = [thread |-> t, kind |-> k, version |-> v + 1]]
      BY <1>6 DEF Claim
    <3> QED BY <1>types, <3>1, <3>2
  <2>9. clock' \in Nat
    BY <1>6, <1>types DEF Claim
  <2> HIDE DEF p, r
  <2> QED BY <2>3, <2>4, <2>5, <2>6, <2>8, <2>9, OneThread
<1>7. ASSUME NEW w \in Workers, Settle(w) PROVE ThreadInv'
  <2>1. \A x \in Workers : turn'[x] = Idle \/ turn'[x] \in Turn
    BY <1>7, <1>types DEF Settle
  <2>2. UNCHANGED <<clock, runs>>
    BY <1>7 DEF Settle
  <2>3. CASE UNCHANGED points
    BY <1>types, <2>1, <2>2, <2>3 DEF ThreadInv, TypeOK, Lawful
  <2>4. CASE points' # points
    <3> DEFINE t == turn[w].thread
    <3>1. PICK s \in {"resolved", "follow_up_ready"} :
            /\ points' = [points EXCEPT ![t].status = s, ![t].version = @ + 1]
            /\ points[t].status \in Claimed
            /\ s = "follow_up_ready" => points[t].status = "claimed"
      <4>1. \/ Stands(w, Claimed) /\ Advance(w, "resolved")
            \/ Stands(w, {"claimed"}) /\ Advance(w, "follow_up_ready")
        BY <1>7, <2>4 DEF Settle, SettleResume, SettleFollowUp, Resolve, Promote
      <4>2. CASE Stands(w, Claimed) /\ Advance(w, "resolved")
        BY <4>2 DEF Stands, Advance
      <4>3. CASE Stands(w, {"claimed"}) /\ Advance(w, "follow_up_ready")
        BY <4>3 DEF Stands, Advance, Claimed
      <4> QED BY <4>1, <4>2, <4>3
    <3>2. t \in Threads
      <4>1. turn[w] # Idle
        BY <1>7 DEF Settle, SettleResume, SettleFollowUp, Idle
      <4> QED BY <1>types, <4>1 DEF Turn
    <3> DEFINE p == [status |-> s, version |-> points[t].version + 1,
                     expires |-> points[t].expires, optIn |-> points[t].optIn]
    <3> HIDE DEF t
    <3>3. points[t] \in Point /\ Lawful(points[t], runs[t]) /\ runs[t] \in [Kinds -> Nat]
      BY <1>types, <3>2
    <3>4. points' = [points EXCEPT ![t] = p]
      BY <1>types, <3>1, <3>2, NextVersion
    <3>5. p \in Point
      BY <3>1, <3>3 DEF Point, Lawful, Claimed, Open, Ended, MaxVersion
    <3>6. Lawful(p, runs[t])
      BY <3>1, <3>3 DEF Lawful, Claimed
    <3>7. runs' = [runs EXCEPT ![t] = runs[t]] /\ clock' \in Nat
      BY <1>types, <2>2
    <3> HIDE DEF p
    <3> QED BY <2>1, <3>2, <3>3, <3>4, <3>5, <3>6, <3>7, OneThread
  <2> QED BY <2>3, <2>4
<1> QED
  BY <1>1, <1>2, <1>3, <1>4, <1>5, <1>6, <1>7 DEF Next

LEMMA ThreadAlwaysInv == Spec => []ThreadInv
  BY ThreadInitInv, ThreadStepInv, PTL DEF Spec

-----------------------------------------------------------------------------
(* Checkpoints, claims and counts keep their types; in particular no thread   *)
(* ever needs a seventh version.                                              *)
THEOREM ThreadTypesAreRight == Spec => []TypeOK
<1>1. ThreadInv => TypeOK
  BY DEF ThreadInv
<1> QED BY ThreadAlwaysInv, <1>1, PTL

(* However many requests race, retry or replay a version, a thread buys one   *)
(* graph run for its clarification and one for its follow-up                  *)
(* (claim_pending, claim_follow_up).                                          *)
THEOREM OneRunEach == Spec => []OneRunPerBudget
<1>1. ThreadInv => OneRunPerBudget
  BY DEF ThreadInv, Lawful, OneRunPerBudget, Kinds
<1> QED BY ThreadAlwaysInv, <1>1, PTL

(* What a step may make of a thread that has ended. *)
EndStays(t) ==
    /\ points[t].status = "resolved" => points'[t].status \in {"resolved", "cleared", "lost"}
    /\ points[t].status = "cleared" => points'[t] \in {points[t], NoPoint("lost")}

LEMMA EndStaysStep ==
  ASSUME ThreadInv, Next, NEW t \in Threads
  PROVE  EndStays(t)
<1> USE DEF EndStays
<1>types. points \in [Threads -> Point] /\ points[t] \in Point
  BY DEF ThreadInv, TypeOK
<1>1. CASE Tick
  BY <1>1 DEF Tick
<1>2. CASE Restart
  BY <1>2, <1>types DEF Restart, NoPoint, Known
<1>3. ASSUME NEW x \in Threads, Create(x) PROVE EndStays(t)
  BY <1>3, <1>types DEF Create
<1>4. ASSUME NEW x \in Threads, NEW v \in 1..MaxVersion, Clear(x, v) PROVE EndStays(t)
  <2>1. points' = [points EXCEPT ![x] =
                     [status |-> "cleared", version |-> points[x].version + 1,
                      expires |-> points[x].expires, optIn |-> points[x].optIn]]
    BY <1>4, <1>types, NextVersion DEF Clear
  <2> QED BY <1>4, <1>types, <2>1 DEF Clear
<1>5. ASSUME NEW w \in Workers, NEW x \in Threads, NEW v \in 1..MaxVersion, NEW k \in Kinds,
             Claim(w, x, v, k)
      PROVE  EndStays(t)
  <2>1. points[x].status \in Open /\ (t # x => points'[t] = points[t])
    BY <1>5, <1>types DEF Claim, ClaimPoint, Open
  <2> QED BY <2>1 DEF Open
<1>6. ASSUME NEW w \in Workers, Settle(w) PROVE EndStays(t)
  <2>1. \/ UNCHANGED points
        \/ /\ points[turn[w].thread].status \in Claimed
           /\ t # turn[w].thread => points'[t] = points[t]
    BY <1>6, <1>types
    DEF Settle, SettleResume, SettleFollowUp, Resolve, Promote, Advance, Stands, Claimed
  <2> QED BY <2>1 DEF Claimed
<1> QED BY <1>1, <1>2, <1>3, <1>4, <1>5, <1>6 DEF Next

(* A resolved or cleared thread never opens again, whatever settles later.     *)
THEOREM EndsStay == Spec => EndedNeverReopens
<1>1. ThreadInv /\ [Next]_vars => [\A t \in Threads : EndStays(t)]_vars
  BY EndStaysStep
<1> QED BY ThreadAlwaysInv, <1>1, PTL DEF Spec, EndedNeverReopens, EndStays
=============================================================================
