---------------------- MODULE MemoryTaskBoundaryProofs ----------------------
(***************************************************************************)
(* What holds of the in-process task store for any number of turns and      *)
(* tasks and any TTL, and which port it implements.                         *)
(***************************************************************************)
EXTENDS MemoryTaskBoundary, TLAPS

Projection == [task: Tasks, version: Nat \ {0}, token: Tokens]

(* A projection is of an item that was issued, and names a token of its own. *)
ProjectionsAreKnown ==
    \A w \in Workers : held[w] # Nothing =>
        items[held[w].task].status # "unissued" /\ held[w].token \in issued

TokensDiffer ==
    \A w, v \in Workers :
        w # v /\ held[w] # Nothing /\ held[v] # Nothing => held[w].token # held[v].token

ClaimedHaveTokens == \A t \in Tasks : items[t].status = "claimed" => items[t].token # NoToken

(* That time alone takes a claim away needs every other holder ruled out:    *)
(* two turns of one claimed task would have its one token between them.      *)
MemInv ==
    TypeOK /\ ProjectionsAreKnown /\ TokensDiffer /\ ClaimedHaveTokens /\ OnlyTimeTakesClaims

-----------------------------------------------------------------------------
(* Holding. *)

LEMMA ProjectionFacts ==
    ASSUME MemInv, NEW w \in Workers, held[w] # Nothing
    PROVE  held[w] \in Projection /\ held[w].task \in Tasks
BY DEF MemInv, TypeOK, Projection

(* A turn without a projection holds nothing, *)
LEMMA WithoutProjection ==
    ASSUME MemInv, NEW w \in Workers, NEW t \in Tasks, held[w] = Nothing
    PROVE  ~Holds(w, t)
BY DEF MemInv, ClaimedHaveTokens, Holds, Nothing

(* before a step and after it. *)
LEMMA WithoutProjectionNext ==
    ASSUME MemInv', NEW w \in Workers, NEW t \in Tasks, held'[w] = Nothing
    PROVE  ~Holds(w, t)'
BY DEF MemInv, ClaimedHaveTokens, Holds, Nothing

LEMMA SoleHolder ==
    ASSUME MemInv, NEW w \in Workers, NEW t \in Tasks, Holds(w, t)
    PROVE  /\ HoldersOf(t) = {w}
           /\ \A v \in Workers \ {w} : ~Holds(v, t)
<1>1. ASSUME NEW v \in Workers \ {w}, Holds(v, t) PROVE FALSE
  <2>1. held[w] # Nothing /\ held[v] # Nothing
    BY <1>1, WithoutProjection
  <2>2. held[w].token = held[v].token
    BY <1>1 DEF Holds
  <2> QED BY <2>1, <2>2 DEF MemInv, TokensDiffer
<1> QED BY <1>1 DEF HoldersOf

(* An item that is not claimed has no holder. *)
LEMMA Unheld ==
    ASSUME NEW t \in Tasks
    PROVE  /\ items[t].status # "claimed" => HoldersOf(t) = {}
           /\ items'[t].status # "claimed" => HoldersOf(t)' = {}
BY DEF HoldersOf, Holds

(* Whoever matches may still commit: it holds its task, alone. *)
LEMMA MatchingHolds ==
    ASSUME MemInv, NEW w \in Workers, held[w] # Nothing, Matches(w)
    PROVE  /\ Holds(w, held[w].task) /\ items[held[w].task].status = "claimed"
           /\ \A v \in Workers \ {w} :
                 held[v] # Nothing /\ clock < items[held[v].task].expires
                     => held[v].task # held[w].task
<1>1. Holds(w, held[w].task) /\ items[held[w].task].status = "claimed"
  BY DEF Matches, Holds
<1>2. ASSUME NEW v \in Workers \ {w}, held[v] # Nothing,
             clock < items[held[v].task].expires, held[v].task = held[w].task
      PROVE  FALSE
  <2>1. Holds(v, held[w].task)
    BY <1>2 DEF MemInv, OnlyTimeTakesClaims
  <2> QED BY <1>1, <2>1, SoleHolder, ProjectionFacts
<1> QED BY <1>1, <1>2

-----------------------------------------------------------------------------
(* The invariant. *)

LEMMA ItemTypes ==
    /\ Absent \in Item
    /\ \A now \in Nat : Fresh(now) \in Item
BY MemoryAssumption DEF Absent, Fresh, Item, Live, EndedByTurn

LEMMA MemInitInv == Init => MemInv
<1> SUFFICES ASSUME Init PROVE MemInv
  OBVIOUS
<1>1. TypeOK
  BY ItemTypes DEF Init, TypeOK
<1>2. \A t \in Tasks : items[t].status = "unissued"
  BY DEF Init, Absent
<1>3. \A w \in Workers : held[w] = Nothing
  BY DEF Init
<1> QED BY <1>1, <1>2, <1>3
        DEF MemInv, ProjectionsAreKnown, TokensDiffer, ClaimedHaveTokens, OnlyTimeTakesClaims

(* A step that hands out no claim keeps the invariant if it leaves alone the *)
(* items of those who go on, or finds their time over.                       *)
LEMMA NoClaimHandedOut ==
    ASSUME MemInv, clock' \in Nat, clock' >= clock, issued' = issued,
           items' \in [Tasks -> Item], ClaimedHaveTokens',
           \A t \in Tasks : items[t].status # "unissued" => items'[t].status # "unissued",
           held' \in [Workers -> Projection \cup {Nothing}],
           \A w \in Workers : held'[w] \in {held[w], Nothing},
           \A w \in Workers : held'[w] # Nothing =>
               \/ items'[held[w].task] = items[held[w].task]
               \/ clock' >= items'[held[w].task].expires
    PROVE  MemInv'
<1>1. TypeOK'
  BY DEF MemInv, TypeOK, Projection
<1>2. ProjectionsAreKnown' /\ TokensDiffer'
  BY ProjectionFacts DEF MemInv, ProjectionsAreKnown, TokensDiffer
<1>3. ASSUME NEW w \in Workers, held'[w] # Nothing, clock' < items'[held'[w].task].expires
      PROVE  Holds(w, held[w].task)'
  <2>0. held'[w] = held[w] /\ held[w] # Nothing
    <3>1. held'[w] \in {held[w], Nothing}
      OBVIOUS
    <3> QED BY <1>3, <3>1, Zenon
  <2>1. held'[w] = held[w] /\ held[w] # Nothing /\ held[w].task \in Tasks
    BY <2>0, ProjectionFacts
  <2> PICK t \in Tasks : t = held[w].task
    BY <2>1
  <2>2. /\ items[t] \in Item /\ items'[t] \in Item /\ clock \in Nat
        /\ items[t].expires \in Nat /\ items'[t].expires \in Nat
    BY DEF MemInv, TypeOK, Item
  <2>3. items'[held[w].task] = items[held[w].task] /\ clock < items[held[w].task].expires
    <3>1. clock' < items'[t].expires
      BY <1>3, <2>1
    <3>2. items'[t] = items[t] \/ clock' >= items'[t].expires
      BY <1>3
    <3>3. items'[t] = items[t]
      BY <2>2, <3>1, <3>2
    <3>4. clock < items[t].expires
      BY <2>2, <3>1, <3>3
    <3> QED BY <3>3, <3>4
  <2>4. Holds(w, held[w].task)
    BY <2>1, <2>3 DEF MemInv, OnlyTimeTakesClaims
  <2> QED BY <2>1, <2>3, <2>4 DEF Holds
<1>4. OnlyTimeTakesClaims'
  BY <1>3 DEF OnlyTimeTakesClaims
<1> QED BY <1>1, <1>2, <1>4 DEF MemInv

(* What an expiry leaves. *)
LEMMA Expired ==
    ASSUME MemInv, NEW t \in Tasks, ExpireItem(t)
    PROVE  /\ items' \in [Tasks -> Item] /\ ClaimedHaveTokens'
           /\ items'[t].status = "expired" /\ items'[t].version = items[t].version
           /\ clock >= items'[t].expires
           /\ \A x \in Tasks \ {t} : items'[x] = items[x]
<1>1. items \in [Tasks -> Item]
  BY DEF MemInv, TypeOK
<1>2. /\ items' = [items EXCEPT ![t].status = "expired", ![t].token = NoToken]
      /\ clock >= items[t].expires
  BY DEF ExpireItem
<1>3. /\ items'[t] = [items[t] EXCEPT !.status = "expired", !.token = NoToken]
      /\ \A x \in Tasks \ {t} : items'[x] = items[x]
  BY <1>1, <1>2
<1>4. /\ items'[t] \in Item /\ items'[t].status = "expired"
      /\ items'[t].version = items[t].version /\ items'[t].expires = items[t].expires
  <2>1. PICK i \in Item : i = items[t]
    BY <1>1
  <2>2. items'[t] = [i EXCEPT !.status = "expired", !.token = NoToken]
    BY <1>3, <2>1
  <2> QED BY <2>1, <2>2 DEF Item
<1>5. items' \in [Tasks -> Item]
  BY <1>1, <1>2, <1>3, <1>4
<1>6. ClaimedHaveTokens'
  BY <1>3, <1>4 DEF MemInv, ClaimedHaveTokens
<1> QED BY <1>2, <1>3, <1>4, <1>5, <1>6

(* What a claim that wins leaves: the token is one that nobody had. *)
ClaimWins(w, t) ==
    /\ clock < items[t].expires
    /\ MayBeClaimed(t)
    /\ \E tok \in Tokens \ issued :
         /\ issued' = issued \cup {tok}
         /\ items' = [items EXCEPT ![t].status = "claimed",
                                   ![t].version = @ + 1, ![t].token = tok]
         /\ held' = [held EXCEPT ![w] = [task |-> t, token |-> tok,
                                         version |-> items[t].version + 1]]

LEMMA Claimed ==
    ASSUME MemInv, NEW w \in Workers, NEW t \in Tasks, held[w] = Nothing, ClaimWins(w, t)
    PROVE  \E tok \in Tokens \ issued :
              /\ issued' = issued \cup {tok} /\ tok # NoToken
              /\ items' \in [Tasks -> Item]
              /\ items'[t].status = "claimed" /\ items'[t].version = items[t].version + 1
              /\ items'[t].token = tok
              /\ \A x \in Tasks \ {t} : items'[x] = items[x]
              /\ held' \in [Workers -> Projection \cup {Nothing}]
              /\ held'[w] # Nothing /\ held'[w].task = t /\ held'[w].token = tok
              /\ held'[w].version = items[t].version + 1
              /\ \A v \in Workers \ {w} : held'[v] = held[v]
<1>1. items \in [Tasks -> Item] /\ held \in [Workers -> Projection \cup {Nothing}]
  BY DEF MemInv, TypeOK, Projection
<1>2. PICK tok \in Tokens \ issued :
         /\ issued' = issued \cup {tok}
         /\ items' = [items EXCEPT ![t].status = "claimed",
                                   ![t].version = @ + 1, ![t].token = tok]
         /\ held' = [held EXCEPT ![w] = [task |-> t, token |-> tok,
                                         version |-> items[t].version + 1]]
  BY DEF ClaimWins
<1>3. /\ items'[t] = [items[t] EXCEPT !.status = "claimed", !.version = items[t].version + 1,
                                      !.token = tok]
      /\ \A x \in Tasks \ {t} : items'[x] = items[x]
  BY <1>1, <1>2
<1>4. items[t] \in Item /\ items[t].version \in Nat
  BY <1>1 DEF Item
<1>5. /\ items'[t] \in Item /\ items'[t].status = "claimed"
      /\ items'[t].version = items[t].version + 1 /\ items'[t].token = tok
  <2>1. PICK i \in Item : i = items[t]
    BY <1>4
  <2>2. items'[t] = [i EXCEPT !.status = "claimed", !.version = i.version + 1, !.token = tok]
    BY <1>3, <2>1
  <2>3. "claimed" \in Live /\ i.version + 1 \in Nat
    BY DEF Live, Item
  <2> QED BY <2>1, <2>2, <2>3 DEF Item
<1>6. items' \in [Tasks -> Item]
  BY <1>1, <1>2, <1>3, <1>5
<1>7. /\ held'[w] = [task |-> t, token |-> tok, version |-> items[t].version + 1]
      /\ \A v \in Workers \ {w} : held'[v] = held[v]
  BY <1>1, <1>2
<1>8. tok # NoToken
  BY MemoryAssumption
<1>9. /\ held'[w] \in Projection /\ held'[w] # Nothing
      /\ held'[w].task = t /\ held'[w].token = tok
      /\ held'[w].version = items[t].version + 1
  BY <1>4, <1>7, <1>8 DEF Projection, Nothing
<1>10. held' \in [Workers -> Projection \cup {Nothing}]
  BY <1>1, <1>2, <1>7, <1>9
<1> QED BY <1>2, <1>3, <1>5, <1>6, <1>7, <1>8, <1>9, <1>10

LEMMA ClaimKeeps ==
    ASSUME MemInv, NEW w \in Workers, NEW t \in Tasks, Claim(w, t)
    PROVE  MemInv'
<1>0. held[w] = Nothing /\ items[t].status # "unissued" /\ clock' = clock /\ clock \in Nat
  BY DEF Claim, Issued, MemInv, TypeOK
<1>1. CASE ExpireItem(t) /\ UNCHANGED <<issued, held>>
  <2>1. held' \in [Workers -> Projection \cup {Nothing}]
    BY <1>1 DEF MemInv, TypeOK, Projection
  <2>2. \A v \in Workers : held'[v] # Nothing =>
           \/ items'[held[v].task] = items[held[v].task]
           \/ clock' >= items'[held[v].task].expires
    BY <1>0, <1>1, Expired, ProjectionFacts
  <2>3. \A x \in Tasks : items[x].status # "unissued" => items'[x].status # "unissued"
    BY <1>1, Expired
  <2> QED BY <1>0, <1>1, <2>1, <2>2, <2>3, Expired, NoClaimHandedOut
<1>2. CASE ClaimWins(w, t)
  <2>1. PICK tok \in Tokens \ issued :
              /\ issued' = issued \cup {tok} /\ tok # NoToken
              /\ items' \in [Tasks -> Item]
              /\ items'[t].status = "claimed" /\ items'[t].version = items[t].version + 1
              /\ items'[t].token = tok
              /\ \A x \in Tasks \ {t} : items'[x] = items[x]
              /\ held' \in [Workers -> Projection \cup {Nothing}]
              /\ held'[w] # Nothing /\ held'[w].task = t /\ held'[w].token = tok
              /\ held'[w].version = items[t].version + 1
              /\ \A v \in Workers \ {w} : held'[v] = held[v]
    BY <1>0, <1>2, Claimed
  <2>2. TypeOK'
    BY <1>0, <2>1 DEF MemInv, TypeOK, Projection
  <2>3. ProjectionsAreKnown'
    BY <2>1, ProjectionFacts DEF MemInv, ProjectionsAreKnown
  <2>4. TokensDiffer'
    BY <2>1 DEF MemInv, ProjectionsAreKnown, TokensDiffer
  <2>5. ClaimedHaveTokens'
    BY <2>1 DEF MemInv, ClaimedHaveTokens
  <2>6. ASSUME NEW v \in Workers, held'[v] # Nothing, clock < items'[held'[v].task].expires
        PROVE  Holds(v, held[v].task)'
    <3>1. CASE v = w
      BY <2>1, <3>1 DEF Holds
    <3>2. CASE v # w
      <4>1. held'[v] = held[v] /\ held[v].task \in Tasks
        BY <2>1, <2>6, <3>2, ProjectionFacts
      <4>2. CASE held[v].task # t
        BY <2>1, <2>6, <4>1, <4>2 DEF MemInv, OnlyTimeTakesClaims, Holds
      <4>3. CASE held[v].task = t
        <5>1. clock < items[t].expires /\ items[t].status = "active"
          BY <1>2 DEF ClaimWins, MayBeClaimed
        <5>2. Holds(v, t)
          BY <2>6, <4>1, <4>3, <5>1 DEF MemInv, OnlyTimeTakesClaims
        <5> QED BY <5>1, <5>2 DEF Holds
      <4> QED BY <4>2, <4>3
    <3> QED BY <3>1, <3>2
  <2>7. OnlyTimeTakesClaims'
    BY <1>0, <2>6 DEF OnlyTimeTakesClaims
  <2> QED BY <2>2, <2>3, <2>4, <2>5, <2>7 DEF MemInv
<1> QED BY <1>1, <1>2 DEF Claim, ClaimWins

(* A commit's or a switch's turn gives its projection up; nobody else has a  *)
(* claim of the item it writes.                                              *)
LEMMA OthersAreLeft ==
    ASSUME MemInv, NEW w \in Workers, held[w] # Nothing, Matches(w),
           NEW new \in Tasks, items[new].status = "unissued" \/ new = held[w].task,
           clock' = clock, issued' = issued, held' = [held EXCEPT ![w] = Nothing],
           items' \in [Tasks -> Item], items'[new].status \notin {"claimed", "unissued"},
           items'[held[w].task].status \notin {"claimed", "unissued"},
           clock < items[held[w].task].expires,
           \A x \in Tasks \ {held[w].task, new} : items'[x] = items[x]
    PROVE  MemInv'
<1>1. held \in [Workers -> Projection \cup {Nothing}] /\ clock \in Nat
  BY DEF MemInv, TypeOK, Projection
<1>2. /\ held'[w] = Nothing /\ \A v \in Workers \ {w} : held'[v] = held[v]
      /\ held' \in [Workers -> Projection \cup {Nothing}]
  BY <1>1
<1> PICK t \in Tasks : t = held[w].task
  BY ProjectionFacts
<1>3. ASSUME NEW v \in Workers, held'[v] # Nothing
      PROVE  \/ items'[held[v].task] = items[held[v].task]
             \/ clock' >= items'[held[v].task].expires
  <2>1. v # w /\ held[v] # Nothing
    BY <1>2, <1>3
  <2> PICK x \in Tasks : x = held[v].task
    BY <2>1, ProjectionFacts
  <2>2. x # t
    BY <2>1, MatchingHolds
  <2>3. items[x].status # "unissued"
    BY <2>1 DEF MemInv, ProjectionsAreKnown
  <2>4. x # new
    BY <2>2, <2>3
  <2> QED BY <2>2, <2>4
<1>4. \A x \in Tasks : items[x].status # "unissued" => items'[x].status # "unissued"
  OBVIOUS
<1>5. ClaimedHaveTokens'
  BY DEF MemInv, ClaimedHaveTokens
<1>6. \A v \in Workers : held'[v] \in {held[v], Nothing}
  BY <1>2
<1> QED BY <1>1, <1>2, <1>3, <1>4, <1>5, <1>6, NoClaimHandedOut

(* What a commit that matches leaves. *)
CommitWins(w, s) ==
    /\ clock < items[held[w].task].expires /\ Matches(w)
    /\ items' = [items EXCEPT ![held[w].task] =
                    [status |-> s, version |-> @.version + 1,
                     token |-> NoToken, expires |-> clock + TTL]]

LEMMA Committed ==
    ASSUME MemInv, NEW w \in Workers, held[w] # Nothing, NEW s \in CommittedAs, CommitWins(w, s)
    PROVE  /\ items' \in [Tasks -> Item] /\ items'[held[w].task].status = s
           /\ items'[held[w].task].version = items[held[w].task].version + 1
           /\ \A x \in Tasks \ {held[w].task} : items'[x] = items[x]
<1> PICK t \in Tasks : t = held[w].task
  BY ProjectionFacts
<1>1. items \in [Tasks -> Item] /\ clock \in Nat
  BY DEF MemInv, TypeOK
<1> DEFINE i == [status |-> s, version |-> items[t].version + 1,
                 token |-> NoToken, expires |-> clock + TTL]
<1>2. i \in Item
  <2>1. items[t].version + 1 \in Nat /\ clock + TTL \in Nat
    BY <1>1, MemoryAssumption DEF Item
  <2>2. s \in Live \cup EndedByTurn
    BY DEF CommittedAs, Live, EndedByTurn
  <2> QED BY <2>1, <2>2 DEF Item
<1>3. items' = [items EXCEPT ![t] = i]
  BY DEF CommitWins
<1>4. i.status = s /\ i.version = items[t].version + 1
  OBVIOUS
<1> HIDE DEF i
<1> QED BY <1>1, <1>2, <1>3, <1>4

(* What a switch that matches leaves. *)
SwitchWins(w, new, now) ==
    /\ clock < items[held[w].task].expires /\ Matches(w)
    /\ ~Issued(new)
    /\ items' = [items EXCEPT ![held[w].task].status = "switched",
                              ![held[w].task].version = @ + 1,
                              ![held[w].task].token = NoToken,
                              ![new] = Fresh(now)]

LEMMA Switched ==
    ASSUME MemInv, NEW w \in Workers, held[w] # Nothing, NEW new \in Tasks, NEW now \in Nat,
           SwitchWins(w, new, now)
    PROVE  /\ items' \in [Tasks -> Item] /\ new # held[w].task
           /\ items'[held[w].task].status = "switched"
           /\ items'[held[w].task].version = items[held[w].task].version + 1
           /\ items'[new].status = "active" /\ items'[new].version = 1
           /\ \A x \in Tasks \ {held[w].task, new} : items'[x] = items[x]
<1> PICK t \in Tasks : t = held[w].task
  BY ProjectionFacts
<1>1. items \in [Tasks -> Item]
  BY DEF MemInv, TypeOK
<1>2. new # t
  BY DEF SwitchWins, Matches, Issued
<1>3. /\ items' = [items EXCEPT ![t].status = "switched", ![t].version = @ + 1,
                                ![t].token = NoToken, ![new] = Fresh(now)]
  BY DEF SwitchWins
<1>4. /\ items'[t] = [items[t] EXCEPT !.status = "switched", !.version = items[t].version + 1,
                                      !.token = NoToken]
      /\ items'[new] = Fresh(now)
      /\ \A x \in Tasks \ {t, new} : items'[x] = items[x]
  BY <1>1, <1>2, <1>3
<1>5. /\ items'[t] \in Item /\ items'[t].status = "switched"
      /\ items'[t].version = items[t].version + 1
  <2>1. PICK i \in Item : i = items[t]
    BY <1>1
  <2>2. items'[t] = [i EXCEPT !.status = "switched", !.version = i.version + 1,
                              !.token = NoToken]
    BY <1>4, <2>1
  <2>3. "switched" \in EndedByTurn /\ i.version + 1 \in Nat
    BY DEF EndedByTurn, Item
  <2> QED BY <2>1, <2>2, <2>3 DEF Item
<1>6. Fresh(now) \in Item /\ Fresh(now).status = "active" /\ Fresh(now).version = 1
  BY ItemTypes DEF Fresh
<1>7. items' \in [Tasks -> Item]
  BY <1>1, <1>3, <1>4, <1>5, <1>6
<1> QED BY <1>2, <1>4, <1>5, <1>6, <1>7

(* Giving a projection up with nothing written, or after an expiry. *)
LEMMA GivenUp ==
    ASSUME MemInv, NEW w \in Workers, held[w] # Nothing, clock' = clock, issued' = issued,
           held' = [held EXCEPT ![w] = Nothing],
           ExpireItem(held[w].task) \/ items' = items
    PROVE  MemInv'
<1>1. /\ held \in [Workers -> Projection \cup {Nothing}] /\ clock \in Nat
      /\ items \in [Tasks -> Item]
  BY DEF MemInv, TypeOK, Projection
<1>2. /\ held' \in [Workers -> Projection \cup {Nothing}]
      /\ \A v \in Workers : held'[v] \in {held[v], Nothing}
  BY <1>1
<1>3. CASE items' = items
  <2>1. ClaimedHaveTokens'
    BY <1>3 DEF MemInv, ClaimedHaveTokens
  <2> QED BY <1>1, <1>2, <1>3, <2>1, NoClaimHandedOut
<1>4. CASE ExpireItem(held[w].task)
  <2> PICK t \in Tasks : t = held[w].task
    BY ProjectionFacts
  <2>1. /\ items' \in [Tasks -> Item] /\ ClaimedHaveTokens'
        /\ items'[t].status = "expired" /\ clock >= items'[t].expires
        /\ \A x \in Tasks \ {t} : items'[x] = items[x]
    BY <1>4, Expired
  <2>2. ASSUME NEW v \in Workers, held'[v] # Nothing
        PROVE  \/ items'[held[v].task] = items[held[v].task]
               \/ clock' >= items'[held[v].task].expires
    <3>1. held[v] # Nothing
      <4>1. held'[v] \in {held[v], Nothing}
        BY <1>2
      <4> QED BY <2>2, <4>1, Zenon
    <3> PICK x \in Tasks : x = held[v].task
      BY <3>1, ProjectionFacts
    <3> QED BY <2>1
  <2> QED BY <1>1, <1>2, <2>1, <2>2, NoClaimHandedOut
<1> QED BY <1>3, <1>4

LEMMA CommitKeeps == ASSUME MemInv, NEW w \in Workers, Commit(w) PROVE MemInv'
<1>1. /\ held[w] # Nothing /\ clock' = clock /\ issued' = issued
      /\ held' = [held EXCEPT ![w] = Nothing]
      /\ \/ ExpireItem(held[w].task) \/ items' = items
         \/ \E s \in CommittedAs : CommitWins(w, s)
  BY DEF Commit, CommitWins
<1>2. ASSUME NEW s \in CommittedAs, CommitWins(w, s) PROVE MemInv'
  <2> PICK t \in Tasks : t = held[w].task
    BY <1>1, ProjectionFacts
  <2>1. s \notin {"claimed", "unissued"}
    BY DEF CommittedAs
  <2>2. clock < items[t].expires /\ Matches(w)
    BY <1>2 DEF CommitWins
  <2>3. /\ items' \in [Tasks -> Item] /\ items'[t].status \notin {"claimed", "unissued"}
        /\ \A x \in Tasks \ {t} : items'[x] = items[x]
    BY <1>1, <1>2, <2>1, Committed
  <2>4. /\ t = held[w].task /\ clock < items[held[w].task].expires
        /\ items'[held[w].task].status \notin {"claimed", "unissued"}
        /\ \A x \in Tasks \ {held[w].task, t} : items'[x] = items[x]
    BY <2>2, <2>3
  <2> QED BY <1>1, <2>2, <2>3, <2>4, OthersAreLeft
<1> QED BY <1>1, <1>2, GivenUp

LEMMA SwitchKeeps == ASSUME MemInv, NEW w \in Workers, Switch(w) PROVE MemInv'
<1>1. /\ held[w] # Nothing /\ clock' = clock /\ issued' = issued
      /\ held' = [held EXCEPT ![w] = Nothing]
      /\ \/ ExpireItem(held[w].task) \/ items' = items
         \/ \E new \in Tasks, now \in 0..clock : SwitchWins(w, new, now)
  BY DEF Switch, SwitchWins
<1>2. ASSUME NEW new \in Tasks, NEW now \in 0..clock, SwitchWins(w, new, now) PROVE MemInv'
  <2>1. now \in Nat
    BY DEF MemInv, TypeOK
  <2>2. items[new].status = "unissued" /\ clock < items[held[w].task].expires /\ Matches(w)
    BY <1>2 DEF SwitchWins, Issued
  <2>3. /\ items' \in [Tasks -> Item] /\ items'[held[w].task].status = "switched"
        /\ items'[new].status = "active"
        /\ \A x \in Tasks \ {held[w].task, new} : items'[x] = items[x]
    BY <1>1, <1>2, <2>1, Switched
  <2>4. /\ items'[new].status \notin {"claimed", "unissued"}
        /\ items'[held[w].task].status \notin {"claimed", "unissued"}
    BY <2>3
  <2> QED BY <1>1, <2>2, <2>3, <2>4, OthersAreLeft
<1> QED BY <1>1, <1>2, GivenUp

(* What a start leaves. *)
LEMMA Started ==
    ASSUME MemInv, NEW t \in Tasks, NEW now \in Nat, items' = [items EXCEPT ![t] = Fresh(now)]
    PROVE  /\ items' \in [Tasks -> Item]
           /\ items'[t].status = "active" /\ items'[t].version = 1
           /\ \A x \in Tasks \ {t} : items'[x] = items[x]
<1>1. items \in [Tasks -> Item]
  BY DEF MemInv, TypeOK
<1>2. Fresh(now) \in Item /\ Fresh(now).status = "active" /\ Fresh(now).version = 1
  BY ItemTypes DEF Fresh
<1> QED BY <1>1, <1>2

LEMMA StartKeeps == ASSUME MemInv, Start PROVE MemInv'
<1>1. /\ clock' = clock /\ issued' = issued /\ held' = held
      /\ held \in [Workers -> Projection \cup {Nothing}] /\ clock \in Nat
  BY DEF Start, MemInv, TypeOK, Projection
<1>2. PICK t \in Tasks, now \in 0..clock : /\ items[t].status = "unissued"
                                           /\ items' = [items EXCEPT ![t] = Fresh(now)]
  BY DEF Start, Issued
<1>3. now \in Nat
  BY <1>1
<1>4. /\ items' \in [Tasks -> Item] /\ items'[t].status = "active"
      /\ \A x \in Tasks \ {t} : items'[x] = items[x]
  BY <1>2, <1>3, Started
<1>5. ClaimedHaveTokens'
  BY <1>4 DEF MemInv, ClaimedHaveTokens
<1>6. ASSUME NEW v \in Workers, held[v] # Nothing PROVE items'[held[v].task] = items[held[v].task]
  <2>1. held[v].task \in Tasks /\ items[held[v].task].status # "unissued"
    BY <1>6, ProjectionFacts DEF MemInv, ProjectionsAreKnown
  <2> QED BY <1>2, <1>4, <2>1
<1>7. \A x \in Tasks : items[x].status # "unissued" => items'[x].status # "unissued"
  BY <1>2, <1>4
<1> QED BY <1>1, <1>4, <1>5, <1>6, <1>7, NoClaimHandedOut

LEMMA MemStepInv == MemInv /\ [Next]_vars => MemInv'
<1> SUFFICES ASSUME MemInv, [Next]_vars PROVE MemInv'
  OBVIOUS
<1>1. CASE UNCHANGED vars
  BY <1>1 DEF vars, MemInv, TypeOK, ProjectionsAreKnown, TokensDiffer, ClaimedHaveTokens,
              OnlyTimeTakesClaims, Holds
<1>2. CASE Tick
  <2>1. /\ clock' \in Nat /\ clock' >= clock /\ UNCHANGED <<items, issued, held>>
        /\ items \in [Tasks -> Item] /\ held \in [Workers -> Projection \cup {Nothing}]
    BY <1>2 DEF Tick, MemInv, TypeOK, Projection
  <2>2. ClaimedHaveTokens'
    BY <2>1 DEF MemInv, ClaimedHaveTokens
  <2> QED BY <2>1, <2>2, NoClaimHandedOut
<1>3. CASE Start
  BY <1>3, StartKeeps
<1>4. ASSUME NEW w \in Workers, Drop(w) PROVE MemInv'
  BY <1>4, GivenUp DEF Drop
<1> QED BY <1>1, <1>2, <1>3, <1>4, ClaimKeeps, CommitKeeps, SwitchKeeps DEF Next

(* The dictionary and the projections keep their types. *)
THEOREM MemoryTypesAreRight == Spec => []TypeOK
<1>1. MemInv => TypeOK
  BY DEF MemInv
<1> QED BY MemInitInv, MemStepInv, <1>1, PTL DEF Spec

(* Until its TTL is over a claimed task stays with the turn that claimed it:  *)
(* only time takes a claim away (TaskBoundary.claim, commit, switch).         *)
THEOREM ClaimsLastTheirTTL == Spec => []OnlyTimeTakesClaims
<1>1. MemInv => OnlyTimeTakesClaims
  BY DEF MemInv
<1> QED BY MemInitInv, MemStepInv, <1>1, PTL DEF Spec

-----------------------------------------------------------------------------
(* The in-process store implements the port, but for how an end is reported. *)

(* What the port sees of a task after a step. *)
PortView(t, s, v, h) ==
    /\ items'[t].status = s
    /\ items'[t].version = v
    /\ HoldersOf(t)' = h

Unseen(t) == PortView(t, items[t].status, items[t].version, HoldersOf(t))

(* An item left alone looks the same if whoever gave a projection up did not *)
(* hold it.                                                                  *)
LEMMA LeftAlone ==
    ASSUME MemInv, MemInv', NEW t \in Tasks, items'[t] = items[t],
           \A v \in Workers : held'[v] = held[v] \/ (held'[v] = Nothing /\ ~Holds(v, t))
    PROVE  Unseen(t)
<1>1. ASSUME NEW v \in Workers PROVE Holds(v, t)' <=> Holds(v, t)
  <2>1. CASE held'[v] = held[v]
    BY <2>1 DEF Holds
  <2>2. CASE held'[v] = Nothing /\ ~Holds(v, t)
    BY <2>2, WithoutProjectionNext
  <2> QED BY <2>1, <2>2
<1> QED BY <1>1 DEF Unseen, PortView, HoldersOf

(* Giving up the projection of t releases t and no other task. *)
LEMMA Released ==
    ASSUME MemInv, MemInv', NEW w \in Workers, held[w] # Nothing,
           held' = [held EXCEPT ![w] = Nothing]
    PROVE  /\ \A x \in Tasks : x # held[w].task /\ items'[x] = items[x] => Unseen(x)
           /\ Holds(w, held[w].task) => HoldersOf(held[w].task) = {w}
<1>1. held'[w] = Nothing /\ \A v \in Workers \ {w} : held'[v] = held[v]
  BY DEF MemInv, TypeOK
<1>2. ASSUME NEW x \in Tasks, x # held[w].task, items'[x] = items[x] PROVE Unseen(x)
  <2>1. ~Holds(w, x)
    BY <1>2 DEF Holds
  <2> QED BY <1>1, <1>2, <2>1, LeftAlone
<1>3. Holds(w, held[w].task) => HoldersOf(held[w].task) = {w}
  BY SoleHolder, ProjectionFacts
<1> QED BY <1>2, <1>3

(* An expiry lapses a live task and relabels one that has ended. *)
LEMMA ExpiryLapses ==
    ASSUME MemInv, NEW t \in Tasks, items[t].status # "unissued", ExpireItem(t),
           \A x \in Tasks \ {t} : Unseen(x)
    PROVE  Port!LenientNext
<1>1. items'[t].status = "expired" /\ items'[t].version = items[t].version
  BY Expired
<1>2. PortView(t, "expired", items[t].version, {})
  BY <1>1, Unheld DEF PortView
<1>3. items[t].status \in Live \cup EndedByTurn \cup {"expired"}
  BY DEF MemInv, TypeOK, Item
<1>4. CASE items[t].status \in Live
  <2>1. Port!Lapse({t})
    BY <1>2, <1>4 DEF PortView, Unseen, Port!Lapse, Port!PortLive, Live
  <2> QED BY <2>1 DEF Port!LenientNext, Port!PortNext
<1>5. CASE items[t].status \in EndedByTurn \cup {"expired"}
  <2>1. HoldersOf(t) = {}
    BY <1>5, Unheld DEF EndedByTurn
  <2>2. Port!Relabel({t})
    BY <1>2, <1>5, <2>1 DEF PortView, Unseen, Port!Relabel, Port!PortEnded, EndedByTurn
  <2> QED BY <2>2 DEF Port!LenientNext
<1> QED BY <1>3, <1>4, <1>5

LEMMA NothingIsSeen ==
    ASSUME \A t \in Tasks : Unseen(t)
    PROVE  UNCHANGED Port!portVars
BY DEF Unseen, PortView, Port!portVars

LEMMA StartRefines ==
    ASSUME MemInv, MemInv', Start
    PROVE  Port!LenientNext
<1>1. PICK t \in Tasks, now \in 0..clock : /\ items[t].status = "unissued"
                                           /\ items' = [items EXCEPT ![t] = Fresh(now)]
  BY DEF Start, Issued
<1>2. now \in Nat /\ held' = held
  BY DEF Start, MemInv, TypeOK
<1>3. /\ items'[t].status = "active" /\ items'[t].version = 1
      /\ \A x \in Tasks \ {t} : items'[x] = items[x]
  BY <1>1, <1>2, Started
<1>4. PortView(t, "active", 1, HoldersOf(t))
  BY <1>1, <1>3, Unheld DEF PortView
<1>5. \A x \in Tasks \ {t} : Unseen(x)
  BY <1>2, <1>3, LeftAlone
<1>6. Port!Issue(t)
  BY <1>1, <1>4, <1>5 DEF PortView, Unseen, Port!Issue
<1> QED BY <1>6 DEF Port!LenientNext, Port!PortNext

LEMMA ClaimRefines ==
    ASSUME MemInv, MemInv', NEW w \in Workers, NEW t \in Tasks, Claim(w, t)
    PROVE  Port!LenientNext
<1>0. held[w] = Nothing /\ items[t].status # "unissued"
  BY DEF Claim, Issued
<1>1. CASE ExpireItem(t) /\ held' = held
  <2>1. \A x \in Tasks \ {t} : Unseen(x)
    BY <1>1, Expired, LeftAlone
  <2> QED BY <1>0, <1>1, <2>1, ExpiryLapses
<1>2. CASE ClaimWins(w, t)
  <2>1. PICK tok \in Tokens \ issued :
              /\ items'[t].status = "claimed" /\ items'[t].version = items[t].version + 1
              /\ items'[t].token = tok
              /\ \A x \in Tasks \ {t} : items'[x] = items[x]
              /\ held'[w].task = t /\ held'[w].token = tok
              /\ held'[w].version = items[t].version + 1
              /\ \A v \in Workers \ {w} : held'[v] = held[v]
    BY <1>0, <1>2, Claimed
  <2>2. items[t].status = "active" /\ HoldersOf(t) = {}
    BY <1>2, Unheld DEF ClaimWins, MayBeClaimed
  <2>3. HoldersOf(t)' = {w}
    <3>1. Holds(w, t)'
      BY <2>1 DEF Holds
    <3>2. ASSUME NEW v \in Workers \ {w}, Holds(v, t)' PROVE FALSE
      <4>1. held[v].token = tok
        BY <2>1, <3>2 DEF Holds
      <4>2. CASE held[v] = Nothing
        BY <2>1, <3>2, <4>2, WithoutProjectionNext
      <4>3. CASE held[v] # Nothing
        BY <4>1, <4>3 DEF MemInv, ProjectionsAreKnown
      <4> QED BY <4>2, <4>3
    <3> QED BY <3>1, <3>2 DEF HoldersOf
  <2>4. PortView(t, "claimed", items[t].version + 1, {w})
    BY <2>1, <2>3 DEF PortView
  <2>5. ASSUME NEW x \in Tasks \ {t} PROVE Unseen(x)
    <3>1. ASSUME NEW v \in Workers PROVE Holds(v, x)' <=> Holds(v, x)
      <4>1. CASE v = w
        BY <1>0, <2>1, <4>1, WithoutProjection DEF Holds
      <4>2. CASE v # w
        BY <2>1, <4>2 DEF Holds
      <4> QED BY <4>1, <4>2
    <3> QED BY <2>1, <3>1 DEF Unseen, PortView, HoldersOf
  <2>6. Port!Claim(w, t)
    BY <2>2, <2>4, <2>5 DEF PortView, Unseen, Port!Claim
  <2> QED BY <2>6 DEF Port!LenientNext, Port!PortNext
<1> QED BY <1>1, <1>2 DEF Claim, ClaimWins

LEMMA GivenUpRefines ==
    ASSUME MemInv, MemInv', NEW w \in Workers, held[w] # Nothing,
           held' = [held EXCEPT ![w] = Nothing],
           ExpireItem(held[w].task) \/ items' = items
    PROVE  [Port!LenientNext]_(Port!portVars)
<1> PICK t \in Tasks : t = held[w].task
  BY ProjectionFacts
<1>1. CASE ExpireItem(t)
  <2>1. \A x \in Tasks \ {t} : Unseen(x)
    BY <1>1, Expired, Released
  <2>2. items[t].status # "unissued"
    BY DEF MemInv, ProjectionsAreKnown
  <2> QED BY <1>1, <2>1, <2>2, ExpiryLapses
<1>2. CASE items' = items /\ ~Holds(w, t)
  <2>1. \A v \in Workers : held'[v] = held[v] \/ (held'[v] = Nothing /\ ~Holds(v, t))
    BY <1>2 DEF MemInv, TypeOK
  <2>2. \A x \in Tasks : Unseen(x)
    BY <1>2, <2>1, Released, LeftAlone
  <2> QED BY <2>2, NothingIsSeen
<1>3. CASE items' = items /\ Holds(w, t)
  <2>1. HoldersOf(t) = {w} /\ \A x \in Tasks \ {t} : Unseen(x)
    BY <1>3, Released
  <2>2. HoldersOf(t)' = {}
    <3>1. ASSUME NEW v \in Workers PROVE ~Holds(v, t)'
      <4>1. CASE v = w
        <5>1. held'[w] = Nothing
          BY DEF MemInv, TypeOK
        <5> QED BY <4>1, <5>1, WithoutProjectionNext
      <4>2. CASE v # w
        <5>1. held'[v] = held[v]
          BY <4>2 DEF MemInv, TypeOK
        <5> QED BY <1>3, <2>1, <4>2, <5>1 DEF Holds, HoldersOf
      <4> QED BY <4>1, <4>2
    <3> QED BY <3>1 DEF HoldersOf
  <2>3. Port!Abandon(w, t)
    BY <1>3, <2>1, <2>2 DEF Unseen, PortView, Port!Abandon
  <2> QED BY <2>3 DEF Port!LenientNext, Port!PortNext
<1> QED BY <1>1, <1>2, <1>3

LEMMA CommitRefines ==
    ASSUME MemInv, MemInv', NEW w \in Workers, Commit(w)
    PROVE  [Port!LenientNext]_(Port!portVars)
<1>1. /\ held[w] # Nothing /\ held' = [held EXCEPT ![w] = Nothing]
      /\ \/ ExpireItem(held[w].task) \/ items' = items
         \/ \E s \in CommittedAs : CommitWins(w, s)
  BY DEF Commit, CommitWins
<1>2. ASSUME NEW s \in CommittedAs, CommitWins(w, s) PROVE Port!LenientNext
  <2> PICK t \in Tasks : t = held[w].task
    BY <1>1, ProjectionFacts
  <2>1. Matches(w) /\ items[t].status = "claimed" /\ HoldersOf(t) = {w}
    BY <1>1, <1>2, MatchingHolds, Released DEF CommitWins
  <2>2. /\ items'[t].status = s /\ items'[t].version = items[t].version + 1
        /\ \A x \in Tasks \ {t} : items'[x] = items[x]
    BY <1>1, <1>2, Committed
  <2>3. s \in {"active", "cancelled", "cleared"}
    BY DEF CommittedAs
  <2>4. PortView(t, s, items[t].version + 1, {})
    BY <2>2, <2>3, Unheld DEF PortView
  <2>5. \A x \in Tasks \ {t} : Unseen(x)
    BY <1>1, <2>2, Released
  <2>6. Port!Commit(w, t, s)
    BY <2>1, <2>4, <2>5 DEF PortView, Unseen, Port!Commit
  <2> QED BY <2>3, <2>6 DEF Port!LenientNext, Port!PortNext
<1> QED BY <1>1, <1>2, GivenUpRefines

LEMMA SwitchRefines ==
    ASSUME MemInv, MemInv', NEW w \in Workers, Switch(w)
    PROVE  [Port!LenientNext]_(Port!portVars)
<1>1. /\ held[w] # Nothing /\ held' = [held EXCEPT ![w] = Nothing]
      /\ \/ ExpireItem(held[w].task) \/ items' = items
         \/ \E new \in Tasks, now \in 0..clock : SwitchWins(w, new, now)
  BY DEF Switch, SwitchWins
<1>2. ASSUME NEW new \in Tasks, NEW now \in 0..clock, SwitchWins(w, new, now)
      PROVE  Port!LenientNext
  <2> PICK t \in Tasks : t = held[w].task
    BY <1>1, ProjectionFacts
  <2>1. Matches(w) /\ items[t].status = "claimed" /\ HoldersOf(t) = {w}
    BY <1>1, <1>2, MatchingHolds, Released DEF SwitchWins
  <2>2. items[new].status = "unissued" /\ now \in Nat
    BY <1>2 DEF SwitchWins, Issued, MemInv, TypeOK
  <2>3. /\ items'[t].status = "switched" /\ items'[t].version = items[t].version + 1
        /\ items'[new].status = "active" /\ items'[new].version = 1 /\ new # t
        /\ \A x \in Tasks \ {t, new} : items'[x] = items[x]
    BY <1>1, <1>2, <2>2, Switched
  <2>4. HoldersOf(t)' = {} /\ HoldersOf(new)' = {} /\ HoldersOf(new) = {}
    BY <2>2, <2>3, Unheld
  <2>5. \A x \in Tasks \ {t, new} : Unseen(x)
    BY <1>1, <2>3, Released
  <2>6. /\ items'[t].status = "switched" /\ items'[new].status = "active"
        /\ \A x \in Tasks \ {t, new} : /\ items'[x].status = items[x].status
                                       /\ items'[x].version = items[x].version
        /\ HoldersOf(t)' = {} /\ \A x \in Tasks \ {t} : HoldersOf(x)' = HoldersOf(x)
    BY <2>3, <2>4, <2>5 DEF PortView, Unseen
  <2>7. [x \in Tasks |-> items[x].status]'
           = [[x \in Tasks |-> items[x].status] EXCEPT ![t] = "switched", ![new] = "active"]
    BY <2>3, <2>6
  <2>8. [x \in Tasks |-> items[x].version]'
           = [[x \in Tasks |-> items[x].version] EXCEPT ![t] = @ + 1, ![new] = 1]
    BY <2>3, <2>6
  <2>9. [x \in Tasks |-> HoldersOf(x)]' = [[x \in Tasks |-> HoldersOf(x)] EXCEPT ![t] = {}]
    BY <2>6
  <2>10. Port!Switch(w, t, new)
    BY <2>1, <2>2, <2>3, <2>7, <2>8, <2>9 DEF Port!Switch
  <2> QED BY <2>10 DEF Port!LenientNext, Port!PortNext
<1> QED BY <1>1, <1>2, GivenUpRefines

(* The empty dictionary is the empty port, *)
LEMMA InitRefines == Init => Port!PortInit
<1> SUFFICES ASSUME Init PROVE Port!PortInit
  OBVIOUS
<1>1. \A t \in Tasks : items[t].status = "unissued" /\ items[t].version = 0
  BY DEF Init, Absent
<1>2. \A t \in Tasks : HoldersOf(t) = {}
  BY <1>1, Unheld
<1> QED BY <1>1, <1>2 DEF Port!PortInit

(* and every method is a step of the lenient port, or none. *)
LEMMA NextRefines == MemInv /\ MemInv' /\ [Next]_vars => [Port!LenientNext]_(Port!portVars)
<1> SUFFICES ASSUME MemInv, MemInv', [Next]_vars PROVE [Port!LenientNext]_(Port!portVars)
  OBVIOUS
<1>1. CASE UNCHANGED vars \/ Tick
  <2>1. items' = items /\ held' = held
    BY <1>1 DEF vars, Tick
  <2> QED BY <2>1, LeftAlone, NothingIsSeen
<1>2. ASSUME NEW w \in Workers, Drop(w) PROVE [Port!LenientNext]_(Port!portVars)
  BY <1>2, GivenUpRefines DEF Drop
<1> QED BY <1>1, <1>2, StartRefines, ClaimRefines, CommitRefines, SwitchRefines DEF Next

(* With the in-process adapter a turn is promised what the port promises, but *)
(* for the word a task that has ended is reported with (task_boundary.py:136, *)
(* TaskBoundary).                                                             *)
THEOREM MemoryImplementsLenientPort == Spec => ImplementsLenientPort
BY MemInitInv, MemStepInv, InitRefines, NextRefines, PTL
   DEF Spec, ImplementsLenientPort, Port!LenientSpec
=============================================================================
