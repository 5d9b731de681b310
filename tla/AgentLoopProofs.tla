-------------------------- MODULE AgentLoopProofs --------------------------
(***************************************************************************)
(* What the decision loop keeps for every plan, every number of turns, any   *)
(* repair strategies and any number of retries.                              *)
(*                                                                           *)
(* What an answer rests on is decided when the loop concludes, from attempts *)
(* made long before. LoopInv carries what those attempts leave behind: which *)
(* requirements a broken attempt keeps open (BrokenStaysOpen), which reasons *)
(* each breakdown by product went by (ReasonsGoneBy), where calls the ledger *)
(* does not show can have gone (HiddenCalls), and that only observations     *)
(* cover (CoverIsClosed).                                                    *)
(***************************************************************************)
EXTENDS AgentLoop, FiniteSetTheorems, WellFoundedInduction, TLAPS

-----------------------------------------------------------------------------
(* The ends of an action. *)

(* Calls of which the trace tells every one. *)
Told(calls) == calls \in Calls /\ calls.charged = calls.made

(* Only a failure, or no SQL at all, may hide calls. *)
EndsWell(S) ==
    \A e \in S : /\ e \in SqlEnd
                 /\ e.charged = e.made \/ e.outcome \in {"failed", "unavailable"}

LEMMA ToldNoCalls == Told(NoCalls)
  BY DEF Told, NoCalls, Calls

LEMMA ToldCharged ==
  ASSUME NEW calls, Told(calls), NEW n \in Attempts
  PROVE  Told(Charged(calls, n)) /\ Unparsed(calls, n) \in Calls
  BY SqlToolAssumption DEF Told, Charged, Unparsed, Calls, Attempts

LEMMA EndIsWell ==
  ASSUME NEW calls \in Calls, NEW o \in SqlOutcomes,
         calls.charged = calls.made \/ o \in {"failed", "unavailable"}
  PROVE  EndsWell(End(o, calls))
  BY DEF EndsWell, End, SqlEnd, Calls

LEMMA RaisedIsWell ==
  ASSUME NEW calls \in Calls
  PROVE  EndsWell(Raised(calls))
  BY DEF EndsWell, Raised, End, SqlEnd, Calls, SqlOutcomes

LEMMA CheckedIsWell ==
  ASSUME NEW calls, Told(calls), NEW t \in BOOLEAN
  PROVE  EndsWell(Checked(t, calls))
<1>1. calls \in Calls /\ calls.charged = calls.made
  BY DEF Told
<1>2. \A o \in SqlOutcomes : EndsWell(End(o, calls))
  BY <1>1, EndIsWell
<1>3. EndsWell(Raised(calls))
  BY <1>1, RaisedIsWell
<1>4. EndsWell(Executed(t, calls))
  BY <1>2, <1>3 DEF Executed, EndsWell, SqlOutcomes
<1> QED BY <1>2, <1>4 DEF Checked, EndsWell, SqlOutcomes

LEMMA WrittenIsWell ==
  ASSUME NEW calls, Told(calls)
  PROVE  EndsWell(Written(calls))
<1> SUFFICES ASSUME NEW n \in Attempts
             PROVE  /\ EndsWell(End("unavailable", Charged(calls, n)))
                    /\ EndsWell(End("unavailable", Unparsed(calls, n)))
                    /\ \A t \in BOOLEAN : EndsWell(Checked(t, Charged(calls, n)))
  BY DEF Written, EndsWell
<1>1. Told(Charged(calls, n)) /\ Unparsed(calls, n) \in Calls
  BY ToldCharged
<1>2. Charged(calls, n) \in Calls
  BY <1>1 DEF Told
<1>3. "unavailable" \in SqlOutcomes
  BY DEF SqlOutcomes
<1> QED BY <1>1, <1>2, <1>3, EndIsWell, CheckedIsWell

LEMMA TranslatedIsWell ==
  ASSUME NEW calls, Told(calls)
  PROVE  EndsWell(Translated(calls))
<1>1. EndsWell(End("unavailable", calls))
  BY EndIsWell DEF Told, SqlOutcomes
<1>2. EndsWell(Checked(FALSE, calls))
  BY CheckedIsWell
<1> QED BY <1>1, <1>2 DEF Translated, EndsWell

LEMMA GeneratedIsWell ==
  ASSUME NEW calls, Told(calls), NEW repair \in BOOLEAN
  PROVE  EndsWell(Generated(repair, calls))
<1>1. EndsWell(End("failed", calls))
  BY EndIsWell DEF Told, SqlOutcomes
<1>2. EndsWell(Written(calls)) /\ EndsWell(Translated(calls))
  BY WrittenIsWell, TranslatedIsWell
<1> QED BY <1>1, <1>2 DEF Generated, EndsWell

(* A run of the pipeline, or a repair, whatever the strategy. *)
LEMMA PipelineEndsWell == EndsWell(CollectEnds) /\ EndsWell(RepairEnds)
<1>1. EndsWell(Unplanned)
  <2>1. EndsWell(End("blocked", NoCalls)) /\ EndsWell(End("failed", NoCalls))
    BY ToldNoCalls, EndIsWell DEF Told, SqlOutcomes
  <2> QED BY <2>1 DEF Unplanned, EndsWell
<1>2. EndsWell(Planned)
  <2> SUFFICES ASSUME NEW n \in Attempts
               PROVE  /\ EndsWell(End("unavailable", Charged(NoCalls, n)))
                      /\ EndsWell(End("failed", Unparsed(NoCalls, n)))
                      /\ EndsWell(Generated(FALSE, Charged(NoCalls, n)))
    BY DEF Planned, EndsWell
  <2>1. Told(Charged(NoCalls, n)) /\ Unparsed(NoCalls, n) \in Calls
    BY ToldCharged, ToldNoCalls
  <2>2. Charged(NoCalls, n) \in Calls
    BY <2>1 DEF Told
  <2>3. "unavailable" \in SqlOutcomes /\ "failed" \in SqlOutcomes
    BY DEF SqlOutcomes
  <2> QED BY <2>1, <2>2, <2>3, EndIsWell, GeneratedIsWell
<1>3. EndsWell(Generated(TRUE, NoCalls))
  BY ToldNoCalls, GeneratedIsWell
<1> QED BY <1>1, <1>2, <1>3 DEF CollectEnds, RepairEnds, EndsWell

(* Outcomes that close nothing, cannot be repaired and may hide calls. *)
Broken == {"failed", "unavailable", "blocked", "none"}

(* Any action ends with a typed outcome and typed counts; only a broken one   *)
(* costs calls the ledger does not see, and documents have no dialect.        *)
LEMMA ActionEnds ==
  ASSUME NEW action \in {"sql", "repair", "document"}, NEW end \in Ends(action)
  PROVE  /\ end.outcome \in SqlOutcomes \cup DocumentOutcomes
         /\ end.made \in Nat /\ end.charged \in Nat
         /\ end.charged = end.made \/ end.outcome \in Broken
         /\ action = "document" => end.outcome # "dialect"
<1>1. CASE action = "document"
  <2>1. end \in DocumentEnds
    BY <1>1 DEF Ends
  <2>2. \/ /\ end.outcome \in DocumentOutcomes \ {"whole"}
           /\ end.made \in 0..1 /\ end.charged = 0
        \/ end.outcome = "whole" /\ end.made \in 0..1 /\ end.charged = end.made
    BY <2>1 DEF DocumentEnds
  <2> QED BY <1>1, <2>2 DEF DocumentOutcomes, Broken
<1>2. CASE action # "document"
  <2>1. end \in CollectEnds \/ end \in RepairEnds
    BY <1>2 DEF Ends
  <2> QED BY <1>2, <2>1, PipelineEndsWell DEF EndsWell, SqlEnd, Broken
<1> QED BY <1>1, <1>2

-----------------------------------------------------------------------------
(* The invariant. *)

(* A document action is one on a document requirement, and only it can find   *)
(* nothing; only SQL has a dialect.                                           *)
AttemptKinds ==
    \A i \in DOMAIN seen :
        /\ seen[i].req \in Asked(plan)
        /\ seen[i].action = "document" <=> seen[i].req.topic = "document"
        /\ seen[i].outcome = "none" => seen[i].action = "document"
        /\ seen[i].outcome = "dialect" => seen[i].action # "document"

(* A requirement whose attempt broke is never covered in the same turn. *)
BrokenStaysOpen ==
    \A i \in DOMAIN seen : seen[i].outcome \in Broken => seen[i].req \notin covered

(* The loop goes on after no refusal and no missing provider. *)
GoesOnUnhindered ==
    pc = "loop" =>
        \A i \in DOMAIN seen : seen[i].outcome \notin {"blocked", "unavailable"}

(* A breakdown by product went by the last reasons observed before it. *)
ReasonsGoneBy ==
    \A j \in DOMAIN seen : seen[j].req.topic = "sku" =>
        \E k \in 1..(j - 1) :
            /\ seen[k].req.topic \in Reasons /\ seen[k].outcome = "up"
            /\ \A m \in 1..(j - 1) : seen[m].req.topic \in Reasons => m <= k

HiddenCalls ==
    ledger.models # made => \E i \in DOMAIN seen : seen[i].outcome \in Broken

CoverIsClosed == held \subseteq covered /\ covered \subseteq closed

LoopInv ==
    /\ TypeOK /\ seen \in Seq(Attempt)
    /\ AttemptsAreCharged /\ NoActionTwice
    /\ AttemptKinds /\ BrokenStaysOpen /\ GoesOnUnhindered
    /\ ReasonsGoneBy /\ HiddenCalls /\ CoverIsClosed
    /\ AnswerIsEarned /\ AnswerIsPaid

-----------------------------------------------------------------------------
(* Facts about choosing. *)

(* The last of a few indexes is one of them, and none is later. *)
LEMMA LastIsLast ==
  ASSUME NEW S \in SUBSET (1..3), S # {}
  PROVE  Last(S) \in S /\ \A j \in S : j <= Last(S)
<1>1. \E i \in S : \A j \in S : j <= i
  <2>1. CASE 3 \in S
    BY <2>1
  <2>2. CASE 3 \notin S /\ 2 \in S
    BY <2>2
  <2>3. CASE 3 \notin S /\ 2 \notin S
    <3>1. \A x \in S : x = 1
      BY <2>3
    <3>2. PICK x \in S : TRUE
      OBVIOUS
    <3> QED BY <3>1, <3>2
  <2> QED BY <2>1, <2>2, <2>3
<1> QED BY <1>1 DEF Last

LEMMA AskedIsTyped == TypeOK => Asked(plan) \subseteq Requirement
<1> SUFFICES ASSUME TypeOK, NEW i \in DOMAIN plan.reqs PROVE plan.reqs[i] \in Requirement
  BY DEF Asked
<1>1. plan \in Plan
  BY PlansAssumption DEF TypeOK
<1>2. plan.reqs \in Seq(Requirement)
  BY <1>1 DEF Plan
<1> QED BY <1>2

(* Nothing has been repaired when the count says so. *)
LEMMA NoRepairYet ==
  ASSUME LoopInv, NEW r, Repairs(r, seen) = 0, NEW i \in DOMAIN seen, seen[i].req = r
  PROVE  seen[i].action # "repair"
<1> DEFINE S == {k \in DOMAIN seen : seen[k].req = r /\ seen[k].action = "repair"}
<1>1. Len(seen) \in Nat /\ DOMAIN seen = 1..Len(seen)
  BY DEF LoopInv
<1>2. IsFiniteSet(1..Len(seen))
  BY <1>1, FS_Interval
<1>3. IsFiniteSet(S)
  BY <1>1, <1>2, FS_Subset
<1>4. Cardinality(S) = 0
  BY DEF Repairs
<1>5. S = {}
  BY <1>3, <1>4, FS_EmptySet
<1> QED BY <1>5

(* The requirement chosen is asked, open and due; it has no attempt, or one,   *)
(* of SQL, which failed for the dialect.                                       *)
LEMMA ChosenIsDue ==
  ASSUME LoopInv, NEW r \in Chosen
  PROVE  /\ r \in Asked(plan) /\ r \notin covered /\ Dependency(r, seen) = "met"
         /\ Action(r) \in {"sql", "repair", "document"}
         /\ \A i \in DOMAIN seen : seen[i].req = r =>
                /\ seen[i].action = "sql" /\ seen[i].outcome = "dialect"
                /\ Action(r) = "repair"
         /\ Action(r) = "document" <=> r.topic = "document"
<1>1. PICK i \in EligibleIndexes(covered, seen, seen) : r = plan.reqs[i]
  BY DEF Chosen
<1>2. /\ r \in Asked(plan) /\ r \notin covered /\ Dependency(r, seen) = "met"
      /\ Of(r, seen) = {} \/ Repairable(r, seen, seen)
  BY <1>1 DEF EligibleIndexes, Eligible, Asked
<1>3. Action(r) \in {"sql", "repair", "document"}
  BY DEF Action
<1>4. ASSUME NEW j \in DOMAIN seen, seen[j].req = r
      PROVE  seen[j].action = "sql" /\ seen[j].outcome = "dialect" /\ Action(r) = "repair"
  <2>1. j \in Of(r, seen)
    BY <1>4 DEF Of
  <2>2. Repairs(r, seen) = 0 /\ seen[Last(Of(r, seen))].outcome = "dialect"
    BY <1>2, <2>1 DEF Repairable
  <2>3. Of(r, seen) \subseteq 1..3
    BY DEF LoopInv, AttemptsAreCharged, MaxActions, Of
  <2>4. Last(Of(r, seen)) \in Of(r, seen) /\ j <= Last(Of(r, seen))
    BY <2>1, <2>3, LastIsLast
  <2> DEFINE l == Last(Of(r, seen))
  <2>5. l \in DOMAIN seen /\ seen[l].req = r
    BY <2>4 DEF Of
  <2>6. seen[l].action # "repair" /\ seen[j].action # "repair"
    BY <1>4, <2>2, <2>5, NoRepairYet
  <2> HIDE DEF l
  <2>7. j = l
    <3>1. j \in 1..3 /\ l \in 1..3 /\ j <= l
      BY <2>1, <2>3, <2>4 DEF l
    <3>2. ~(j < l)
      BY <1>4, <2>5, <2>6 DEF LoopInv, NoActionTwice
    <3> QED BY <3>1, <3>2
  <2>8. seen[j].outcome = "dialect"
    BY <2>2, <2>7 DEF l
  <2>9. seen[j].action \in {"sql", "repair", "document"} /\ seen[j].action # "document"
    <3>1. seen[j] \in Attempt
      BY <1>4 DEF LoopInv, TypeOK
    <3> QED BY <1>4, <2>8, <3>1 DEF LoopInv, Attempt, AttemptKinds
  <2> QED BY <2>1, <2>6, <2>8, <2>9 DEF Action
<1>5. Action(r) = "document" <=> r.topic = "document"
  <2>1. CASE Of(r, seen) = {}
    BY <2>1 DEF Action
  <2>2. CASE Of(r, seen) # {}
    <3>1. PICK j \in DOMAIN seen : seen[j].req = r
      BY <2>2 DEF Of
    <3>2. seen[j].action = "sql" /\ Action(r) = "repair"
      BY <1>4, <3>1
    <3> QED BY <3>1, <3>2 DEF LoopInv, AttemptKinds
  <2> QED BY <2>1, <2>2
<1> QED BY <1>2, <1>3, <1>4, <1>5

-----------------------------------------------------------------------------
(* One step with an action. *)

(* What Act does, with the requirement chosen and the end its action came to. *)
ActsOn(r, end) ==
    LET n == Len(seen) IN
    /\ end \in Ends(Action(r)) /\ Allowed(r) /\ pc = "loop"
    /\ seen' \in Seq(Attempt) /\ DOMAIN seen' = 1..(n + 1) /\ Len(seen') = n + 1
    /\ \A i \in 1..n : seen'[i] = seen[i]
    /\ seen'[n + 1] = [action |-> Action(r), req |-> r, outcome |-> end.outcome]
    /\ covered' = covered \cup IF Closes(end.outcome) THEN {r} ELSE {}
    /\ closed' = closed \cup (covered' \ covered)
    /\ held' \in {held, held \cup (covered' \ covered)}
    /\ \E over \in BOOLEAN :
          ledger' = Plus(ledger, Spend(Action(r), end.charged, over))
    /\ made' = made + end.made
    /\ ended' \in (Endings \ {"answer_ready"}) \cup {"running"}
    /\ pc' \in {"loop", "compare"}
    /\ pc' = "loop" => end.outcome \notin {"blocked", "unavailable"}
    /\ pc' # "loop" => ended' # "running"
    /\ UNCHANGED <<plan, turns>>

LEMMA ActEffect ==
  ASSUME LoopInv, Act
  PROVE  \E r \in Chosen : \E end \in Ends(Action(r)) : ActsOn(r, end)
<1>1. PICK r \in Chosen, over \in BOOLEAN, repeats \in BOOLEAN :
        /\ Allowed(r)
        /\ \E end \in Ends(Action(r)) :
              /\ Attempted(r, Action(r), end.outcome, end.charged, over, repeats)
              /\ made' = made + end.made
  BY DEF Act
<1>2. PICK end \in Ends(Action(r)) :
        /\ Attempted(r, Action(r), end.outcome, end.charged, over, repeats)
        /\ made' = made + end.made
  BY <1>1
<1>3. r \in Asked(plan) /\ r \notin covered /\ Action(r) \in {"sql", "repair", "document"}
  BY ChosenIsDue
<1> DEFINE a == [action |-> Action(r), req |-> r, outcome |-> end.outcome]
<1>4. a \in Attempt
  <2>1. r \in Requirement
    BY <1>3, AskedIsTyped DEF LoopInv
  <2>2. end.outcome \in SqlOutcomes \cup DocumentOutcomes
    BY <1>3, ActionEnds
  <2> QED BY <1>3, <2>1, <2>2 DEF Attempt
<1>5. seen' = Append(seen, a)
  BY <1>2 DEF Attempted
<1>6. /\ seen' \in Seq(Attempt) /\ Len(seen') = Len(seen) + 1
      /\ DOMAIN seen' = 1..(Len(seen) + 1)
      /\ \A i \in 1..Len(seen) : seen'[i] = seen[i]
      /\ seen'[Len(seen) + 1] = a
  <2> HIDE DEF a
  <2> QED BY <1>4, <1>5 DEF LoopInv
<1>7. covered' = covered \cup IF Closes(end.outcome) THEN {r} ELSE {}
  BY <1>2 DEF Attempted
<1>8. closed' = closed \cup (covered' \ covered)
  BY <1>2 DEF Attempted
<1>9. held' \in {held, held \cup (covered' \ covered)}
  <2>1. held' = held \cup IF Closes(end.outcome) /\ ~repeats THEN {r} ELSE {}
    BY <1>2 DEF Attempted
  <2> QED BY <1>3, <1>7, <2>1
<1>10. ledger' = Plus(ledger, Spend(Action(r), end.charged, over))
  BY <1>2 DEF Attempted
<1>11. PICK spent, gained, left : Stop(Verdict(r, end.outcome, spent, gained, left))
  BY <1>2 DEF Attempted
<1>12. /\ ended' \in (Endings \ {"answer_ready"}) \cup {"running"}
       /\ pc' \in {"loop", "compare"}
       /\ pc' = "loop" => end.outcome \notin {"blocked", "unavailable"}
       /\ pc' # "loop" => ended' # "running"
  BY <1>11 DEF Stop, Verdict, Endings
<1>13. pc = "loop" /\ UNCHANGED <<plan, turns>>
  BY DEF Act
<1> QED BY <1>1, <1>2, <1>6, <1>7, <1>8, <1>9, <1>10, <1>12, <1>13 DEF ActsOn

(* The charge: one attempt more, on documents or not. *)
LEMMA ActCharges ==
  ASSUME LoopInv, NEW r \in Chosen, NEW end, ActsOn(r, end)
  PROVE  /\ AttemptsAreCharged' /\ ledger' \in Spending
         /\ ledger'.models = ledger.models + end.charged
<1> DEFINE n == Len(seen)
           D == {i \in DOMAIN seen : seen[i].action = "document"}
<1>1. Action(r) \in {"sql", "repair", "document"}
  BY ChosenIsDue
<1>2. end.charged \in Nat
  BY <1>1, ActionEnds DEF ActsOn
<1>3. ledger \in Spending
  BY DEF LoopInv, TypeOK
<1>4. PICK over \in BOOLEAN : ledger' = Plus(ledger, Spend(Action(r), end.charged, over))
  BY DEF ActsOn
<1>5. /\ ledger' \in Spending
      /\ ledger'.actions = ledger.actions + 1
      /\ ledger'.knowledge = ledger.knowledge + (IF Action(r) = "document" THEN 1 ELSE 0)
      /\ ledger'.models = ledger.models + end.charged
  BY <1>2, <1>3, <1>4 DEF Plus, Spend, Spending
<1>6. /\ ledger.actions + 1 <= MaxActions
      /\ ledger.knowledge + (IF Action(r) = "document" THEN 1 ELSE 0) <= MaxKnowledge
  BY <1>3 DEF ActsOn, Allowed, Within, Plus, Declared, Spend, Spending
<1>7. n \in Nat /\ DOMAIN seen = 1..n /\ IsFiniteSet(D)
  <2>1. n \in Nat /\ DOMAIN seen = 1..n
    BY DEF LoopInv
  <2>2. IsFiniteSet(1..n)
    BY <2>1, FS_Interval
  <2> QED BY <2>1, <2>2, FS_Subset
<1>8. {i \in DOMAIN seen' : seen'[i].action = "document"}
        = IF Action(r) = "document" THEN D \cup {n + 1} ELSE D
  <2>1. \A i \in 1..(n + 1) : i \in 1..n \/ i = n + 1
    BY <1>7
  <2> QED BY <1>7, <2>1 DEF ActsOn
<1>9. Cardinality({i \in DOMAIN seen' : seen'[i].action = "document"})
        = Cardinality(D) + (IF Action(r) = "document" THEN 1 ELSE 0)
  <2>1. n + 1 \notin D
    BY <1>7
  <2>2. Cardinality(D \cup {n + 1}) = Cardinality(D) + 1
    BY <1>7, <2>1, FS_AddElement
  <2>3. Cardinality(D) \in Nat
    BY <1>7, FS_CardinalityType
  <2>4. CASE Action(r) = "document"
    <3>1. {i \in DOMAIN seen' : seen'[i].action = "document"} = D \cup {n + 1}
      BY <1>8, <2>4
    <3> HIDE DEF D
    <3> QED BY <2>2, <2>4, <3>1
  <2>5. CASE Action(r) # "document"
    <3>1. {i \in DOMAIN seen' : seen'[i].action = "document"} = D
      BY <1>8, <2>5
    <3> HIDE DEF D
    <3> QED BY <2>3, <2>5, <3>1
  <2> QED BY <2>4, <2>5
<1>10. ledger.actions = n /\ ledger.knowledge = Cardinality(D)
  BY DEF LoopInv, AttemptsAreCharged
<1>11. Len(seen') = n + 1
  BY DEF ActsOn
<1> HIDE DEF n, D
<1> QED BY <1>3, <1>5, <1>6, <1>9, <1>10, <1>11 DEF AttemptsAreCharged, Spending

(* The attempts: none twice, none on what broke, products only by the last    *)
(* reasons, and calls hidden only behind a broken one.                        *)
LEMMA ActAttempts ==
  ASSUME LoopInv, NEW r \in Chosen, NEW end, ActsOn(r, end)
  PROVE  NoActionTwice' /\ AttemptKinds' /\ BrokenStaysOpen' /\ GoesOnUnhindered'
         /\ ReasonsGoneBy' /\ HiddenCalls'
<1> DEFINE n == Len(seen)
<1>r. /\ r \in Asked(plan) /\ r \notin covered /\ Dependency(r, seen) = "met"
      /\ Action(r) \in {"sql", "repair", "document"}
      /\ \A i \in DOMAIN seen : seen[i].req = r =>
             /\ seen[i].action = "sql" /\ seen[i].outcome = "dialect"
             /\ Action(r) = "repair"
      /\ Action(r) = "document" <=> r.topic = "document"
  BY ChosenIsDue
<1>n. n \in 0..2 /\ DOMAIN seen = 1..n /\ DOMAIN seen' = 1..(n + 1)
  <2>1. n \in Nat /\ DOMAIN seen = 1..n /\ n + 1 <= MaxActions
    <3>1. Len(seen') <= MaxActions
      BY ActCharges DEF AttemptsAreCharged
    <3> QED BY <3>1 DEF LoopInv, ActsOn
  <2> QED BY <2>1 DEF ActsOn, MaxActions
<1>old. \A i \in 1..n : seen'[i] = seen[i]
  BY DEF ActsOn
<1>new. /\ seen'[n + 1].action = Action(r) /\ seen'[n + 1].req = r
        /\ seen'[n + 1].outcome = end.outcome
  BY DEF ActsOn
<1>end. /\ end.made \in Nat /\ end.charged \in Nat
        /\ end.charged = end.made \/ end.outcome \in Broken
        /\ Action(r) = "document" => end.outcome # "dialect"
        /\ end.outcome = "none" => Action(r) = "document"
  <2>1. end.outcome = "none" => Action(r) = "document"
    <3> SUFFICES ASSUME Action(r) # "document" PROVE end.outcome # "none"
      OBVIOUS
    <3>1. end \in CollectEnds \/ end \in RepairEnds
      BY <1>r DEF ActsOn, Ends
    <3> QED BY <3>1, PipelineEndsWell DEF EndsWell, SqlEnd, SqlOutcomes
  <2> QED BY <1>r, <2>1, ActionEnds DEF ActsOn
<1>split. \A i \in 1..(n + 1) : i \in 1..n \/ i = n + 1
  BY <1>n
<1>1. NoActionTwice'
  <2> SUFFICES ASSUME NEW i \in 1..(n + 1), NEW j \in 1..(n + 1), i < j,
                      seen'[i].req = seen'[j].req
               PROVE  /\ seen'[i].action = "sql" /\ seen'[i].outcome = "dialect"
                      /\ seen'[j].action = "repair"
    BY <1>n DEF NoActionTwice
  <2>1. i \in 1..n
    BY <1>n
  <2>2. CASE j \in 1..n
    BY <1>n, <1>old, <2>1, <2>2 DEF LoopInv, NoActionTwice
  <2>3. CASE j = n + 1
    BY <1>n, <1>r, <1>old, <1>new, <2>1, <2>3
  <2> QED BY <1>split, <2>2, <2>3
<1>2. AttemptKinds'
  <2> SUFFICES ASSUME NEW i \in 1..(n + 1)
               PROVE  /\ seen'[i].req \in Asked(plan)
                      /\ seen'[i].action = "document" <=> seen'[i].req.topic = "document"
                      /\ seen'[i].outcome = "none" => seen'[i].action = "document"
                      /\ seen'[i].outcome = "dialect" => seen'[i].action # "document"
    <3>1. UNCHANGED plan
      BY DEF ActsOn
    <3> QED BY <1>n, <3>1 DEF AttemptKinds, Asked
  <2>1. CASE i \in 1..n
    BY <1>n, <1>old, <2>1 DEF LoopInv, AttemptKinds
  <2>2. CASE i = n + 1
    BY <1>r, <1>new, <1>end, <2>2
  <2> QED BY <1>split, <2>1, <2>2
<1>3. BrokenStaysOpen'
  <2> SUFFICES ASSUME NEW i \in 1..(n + 1), seen'[i].outcome \in Broken
               PROVE  seen'[i].req \notin covered'
    BY <1>n DEF BrokenStaysOpen
  <2>1. covered' = covered \cup IF Closes(end.outcome) THEN {r} ELSE {}
    BY DEF ActsOn
  <2>2. CASE i \in 1..n
    <3>1. seen[i].req \notin covered
      BY <1>n, <1>old, <2>2 DEF LoopInv, BrokenStaysOpen
    <3>2. seen[i].req # r
      BY <1>n, <1>r, <1>old, <2>2 DEF Broken
    <3> QED BY <1>old, <2>1, <2>2, <3>1, <3>2
  <2>3. CASE i = n + 1
    BY <1>r, <1>new, <2>1, <2>3 DEF Closes, Broken
  <2> QED BY <1>split, <2>2, <2>3
<1>4. GoesOnUnhindered'
  <2> SUFFICES ASSUME pc' = "loop", NEW i \in 1..(n + 1)
               PROVE  seen'[i].outcome \notin {"blocked", "unavailable"}
    BY <1>n DEF GoesOnUnhindered
  <2>1. CASE i \in 1..n
    BY <1>n, <1>old, <2>1 DEF LoopInv, GoesOnUnhindered, ActsOn
  <2>2. CASE i = n + 1
    BY <1>new, <2>2 DEF ActsOn
  <2> QED BY <1>split, <2>1, <2>2
<1>5. ReasonsGoneBy'
  <2> SUFFICES ASSUME NEW j \in 1..(n + 1), seen'[j].req.topic = "sku"
               PROVE  \E k \in 1..(j - 1) :
                        /\ seen'[k].req.topic \in Reasons /\ seen'[k].outcome = "up"
                        /\ \A m \in 1..(j - 1) : seen'[m].req.topic \in Reasons => m <= k
    BY <1>n DEF ReasonsGoneBy
  <2>1. \A m \in 1..(j - 1) : seen'[m] = seen[m]
    BY <1>n, <1>old
  <2>2. CASE j \in 1..n
    <3>1. seen[j].req.topic = "sku"
      BY <1>old, <2>2
    <3> QED BY <1>n, <2>1, <2>2, <3>1 DEF LoopInv, ReasonsGoneBy
  <2>3. CASE j = n + 1
    <3>1. ReasonsIn(seen) # {} /\ seen[Last(ReasonsIn(seen))].outcome = "up"
      BY <1>r, <1>new, <2>3 DEF Dependency
    <3>2. ReasonsIn(seen) \subseteq 1..3
      BY <1>n DEF ReasonsIn
    <3>3. /\ Last(ReasonsIn(seen)) \in ReasonsIn(seen)
          /\ \A m \in ReasonsIn(seen) : m <= Last(ReasonsIn(seen))
      BY <3>1, <3>2, LastIsLast
    <3>4. 1..(j - 1) = DOMAIN seen
      BY <1>n, <2>3
    <3> QED BY <2>1, <3>1, <3>3, <3>4 DEF ReasonsIn
  <2> QED BY <1>split, <2>2, <2>3
<1>6. HiddenCalls'
  <2> SUFFICES ASSUME ledger'.models # made'
               PROVE  \E i \in 1..(n + 1) : seen'[i].outcome \in Broken
    BY <1>n DEF HiddenCalls
  <2>1. ledger'.models = ledger.models + end.charged /\ made' = made + end.made
    BY ActCharges DEF ActsOn
  <2>2. CASE ledger.models # made
    <3>1. PICK i \in 1..n : seen[i].outcome \in Broken
      BY <1>n, <2>2 DEF LoopInv, HiddenCalls
    <3> QED BY <1>n, <1>old, <3>1
  <2>3. CASE ledger.models = made
    <3>1. end.outcome \in Broken
      BY <1>end, <2>1, <2>3
    <3> QED BY <1>n, <1>new, <3>1
  <2> QED BY <2>2, <2>3
<1> QED BY <1>1, <1>2, <1>3, <1>4, <1>5, <1>6

LEMMA ActKeeps == LoopInv /\ Act => LoopInv'
<1> SUFFICES ASSUME LoopInv, Act PROVE LoopInv'
  OBVIOUS
<1>0. PICK r \in Chosen : \E end \in Ends(Action(r)) : ActsOn(r, end)
  BY ActEffect
<1>1. PICK end \in Ends(Action(r)) : ActsOn(r, end)
  BY <1>0
<1>2. r \in Asked(plan) /\ Action(r) \in {"sql", "repair", "document"}
  BY ChosenIsDue
<1>3. end.made \in Nat
  BY <1>2, ActionEnds
<1>4. AttemptsAreCharged' /\ ledger' \in Spending
  BY <1>1, ActCharges
<1>5. CoverIsClosed'
  BY <1>1 DEF ActsOn, LoopInv, CoverIsClosed
<1>6. Asked(plan)' = Asked(plan)
  BY <1>1 DEF ActsOn, Asked
<1>7. TypeOK'
  <2>1. \A i \in DOMAIN seen' : seen'[i] \in Attempt
    BY <1>1 DEF ActsOn
  <2>2. made' \in Nat
    BY <1>1, <1>3 DEF ActsOn, LoopInv, TypeOK
  <2>3. held' \subseteq Asked(plan) /\ covered' \subseteq Asked(plan) /\ closed' \subseteq Asked(plan)
    BY <1>1, <1>2 DEF ActsOn, LoopInv, TypeOK
  <2>4. plan' \in Plans /\ turns' \in 1..(MaxTurns + 1)
    BY <1>1 DEF ActsOn, LoopInv, TypeOK
  <2>5. pc' \in {"loop", "compare", "done"} /\ ended' \in Endings \cup {"running"}
    BY <1>1 DEF ActsOn
  <2> QED BY <1>4, <1>6, <2>1, <2>2, <2>3, <2>4, <2>5 DEF TypeOK
<1>8. /\ NoActionTwice' /\ AttemptKinds' /\ BrokenStaysOpen' /\ GoesOnUnhindered'
      /\ ReasonsGoneBy' /\ HiddenCalls'
  BY <1>1, ActAttempts
<1>9. seen' \in Seq(Attempt)
  BY <1>1 DEF ActsOn
<1>10. ended' # "answer_ready"
  BY <1>1 DEF ActsOn
<1>11. AnswerIsEarned' /\ AnswerIsPaid'
  BY <1>10 DEF AnswerIsEarned, AnswerIsPaid
<1> QED BY <1>4, <1>5, <1>7, <1>8, <1>9, <1>11 DEF LoopInv

-----------------------------------------------------------------------------
(* The other steps. *)

(* When the loop settles, calls hidden behind a broken attempt are those of a *)
(* breakdown by product, and reasons seen after it refused it.                *)
LEMMA SettledIsPaid ==
  ASSUME LoopInv, pc = "loop", Settled, ledger.models # made
  PROVE  \E i, j \in DOMAIN seen :
            /\ i < j
            /\ seen[i].req.topic = "sku" /\ seen[i].outcome = "failed"
            /\ seen[j].req.topic \in Reasons /\ seen[j].outcome # "up"
<1>1. PICK i \in DOMAIN seen : seen[i].outcome \in Broken
  BY DEF LoopInv, HiddenCalls
<1>2. seen[i].req \in Asked(plan) /\ seen[i].req \notin covered
  BY <1>1 DEF LoopInv, AttemptKinds, BrokenStaysOpen
<1>3. Dependency(seen[i].req, seen) = "refused"
  BY <1>2 DEF Settled
<1>4. /\ seen[i].req.topic = "sku"
      /\ ReasonsIn(seen) # {} /\ seen[Last(ReasonsIn(seen))].outcome # "up"
  BY <1>3 DEF Dependency
<1>5. seen[i].outcome = "failed"
  BY <1>1, <1>4 DEF LoopInv, GoesOnUnhindered, AttemptKinds, Broken
<1>6. PICK k \in 1..(i - 1) :
        /\ seen[k].req.topic \in Reasons /\ seen[k].outcome = "up"
        /\ \A m \in 1..(i - 1) : seen[m].req.topic \in Reasons => m <= k
  BY <1>1, <1>4 DEF LoopInv, ReasonsGoneBy
<1> DEFINE l == Last(ReasonsIn(seen))
<1>7. DOMAIN seen = 1..Len(seen) /\ Len(seen) \in 0..3
  <2>1. Len(seen) \in Nat /\ DOMAIN seen = 1..Len(seen)
    BY DEF LoopInv
  <2>2. Len(seen) <= 3
    BY DEF LoopInv, AttemptsAreCharged, MaxActions
  <2> QED BY <2>1, <2>2
<1>8. l \in ReasonsIn(seen) /\ \A m \in ReasonsIn(seen) : m <= l
  <2>1. ReasonsIn(seen) \subseteq 1..3
    BY <1>7 DEF ReasonsIn
  <2> QED BY <1>4, <2>1, LastIsLast
<1>9. k \in ReasonsIn(seen)
  BY <1>1, <1>6, <1>7 DEF ReasonsIn
<1>10. l \in DOMAIN seen /\ seen[l].req.topic \in Reasons /\ seen[l].outcome # "up"
  BY <1>4, <1>8 DEF ReasonsIn
<1> HIDE DEF l
<1>11. i < l
  <2>1. k <= l /\ k # l
    BY <1>6, <1>8, <1>9, <1>10
  <2>2. l # i
    BY <1>4, <1>10 DEF Reasons
  <2>3. i \in Nat /\ k \in Nat /\ l \in Nat
    BY <1>1, <1>6, <1>7, <1>10
  <2>4. ~(l < i)
    <3> SUFFICES ASSUME l < i PROVE FALSE
      OBVIOUS
    <3>1. l \in 1..(i - 1)
      BY <1>7, <1>10, <2>3
    <3> QED BY <1>6, <1>10, <2>1, <2>3, <3>1
  <2> QED BY <2>2, <2>3, <2>4
<1> QED BY <1>1, <1>4, <1>5, <1>10, <1>11

(* What is settled was closed, or need not be. *)
LEMMA SettledIsEarned ==
  ASSUME LoopInv, Settled, NEW r \in Asked(plan)
  PROVE  \/ r \in closed
         \/ r.topic = "sku" /\ \E i \in ReasonsIn(seen) : seen[i].outcome # "up"
<1>1. CASE r \in covered
  BY <1>1 DEF LoopInv, CoverIsClosed
<1>2. CASE Dependency(r, seen) = "refused"
  <2>1. /\ r.topic = "sku"
        /\ ReasonsIn(seen) # {} /\ seen[Last(ReasonsIn(seen))].outcome # "up"
    BY <1>2 DEF Dependency
  <2>2. ReasonsIn(seen) \subseteq 1..3
    BY DEF LoopInv, AttemptsAreCharged, MaxActions, ReasonsIn
  <2> QED BY <2>1, <2>2, LastIsLast
<1> QED BY <1>1, <1>2 DEF Settled

(* The attempts and the evidence stay as they are while the loop stops or the *)
(* comparison is closed: all that is asked of such a step is its ending.      *)
LEMMA EndingStep ==
  ASSUME LoopInv, UNCHANGED <<plan, held, covered, seen, ledger, made, closed, turns>>,
         pc' \in {"compare", "done"}, ended' \in Endings \cup {"running"},
         ended' = "answer_ready" => ended = "answer_ready" \/ (pc = "loop" /\ Settled)
  PROVE  LoopInv'
<1>1. TypeOK' /\ seen' \in Seq(Attempt)
  BY DEF LoopInv, TypeOK, Asked
<1>2. /\ AttemptsAreCharged' /\ NoActionTwice' /\ AttemptKinds' /\ BrokenStaysOpen'
      /\ ReasonsGoneBy' /\ HiddenCalls' /\ CoverIsClosed'
  BY DEF LoopInv, AttemptsAreCharged, NoActionTwice, AttemptKinds, BrokenStaysOpen,
         ReasonsGoneBy, HiddenCalls, CoverIsClosed, Asked
<1>3. GoesOnUnhindered'
  BY DEF GoesOnUnhindered
<1>4. AnswerIsEarned'
  <2> SUFFICES ASSUME ended' = "answer_ready", NEW r \in Asked(plan)
               PROVE  \/ r \in closed
                      \/ r.topic = "sku" /\ \E i \in ReasonsIn(seen) : seen[i].outcome # "up"
    BY DEF AnswerIsEarned, Asked, ReasonsIn
  <2> QED BY SettledIsEarned DEF LoopInv, AnswerIsEarned
<1>5. AnswerIsPaid'
  <2> SUFFICES ASSUME ended' = "answer_ready", ledger.models # made
               PROVE  \E i, j \in DOMAIN seen :
                        /\ i < j
                        /\ seen[i].req.topic = "sku" /\ seen[i].outcome = "failed"
                        /\ seen[j].req.topic \in Reasons /\ seen[j].outcome # "up"
    BY DEF AnswerIsPaid
  <2> QED BY SettledIsPaid DEF LoopInv, AnswerIsPaid
<1> QED BY <1>1, <1>2, <1>3, <1>4, <1>5 DEF LoopInv

LEMMA LoopInitInv == Init => LoopInv
<1> SUFFICES ASSUME Init PROVE LoopInv
  OBVIOUS
<1>1. TypeOK
  BY PlansAssumption DEF Init, TypeOK, Spending, Unspent, Endings
<1>2. AttemptsAreCharged
  <2>1. {i \in DOMAIN seen : seen[i].action = "document"} = {}
    BY DEF Init
  <2> QED BY <2>1, FS_EmptySet DEF Init, AttemptsAreCharged, Unspent, MaxActions, MaxKnowledge
<1> QED
  BY <1>1, <1>2 DEF Init, LoopInv, NoActionTwice, AttemptKinds, BrokenStaysOpen, GoesOnUnhindered,
     ReasonsGoneBy, HiddenCalls, CoverIsClosed, AnswerIsEarned, AnswerIsPaid, Unspent

LEMMA NextTurnKeeps == LoopInv /\ NextTurn => LoopInv'
<1> SUFFICES ASSUME LoopInv, NextTurn PROVE LoopInv'
  OBVIOUS
<1>1. CoverIsClosed' /\ held' \subseteq held /\ closed' \subseteq closed
  BY DEF NextTurn, LoopInv, CoverIsClosed
<1>2. TypeOK'
  BY <1>1, PlansAssumption DEF NextTurn, LoopInv, TypeOK, Spending, Unspent, Asked
<1>3. AttemptsAreCharged'
  <2>1. {i \in DOMAIN seen' : seen'[i].action = "document"} = {}
    BY DEF NextTurn
  <2> QED BY <2>1, FS_EmptySet DEF NextTurn, AttemptsAreCharged, Unspent, MaxActions, MaxKnowledge
<1> QED
  BY <1>1, <1>2, <1>3
  DEF NextTurn, LoopInv, NoActionTwice, AttemptKinds, BrokenStaysOpen, GoesOnUnhindered,
      ReasonsGoneBy, HiddenCalls, AnswerIsEarned, AnswerIsPaid, Unspent

LEMMA LoopStepInv == LoopInv /\ [Next]_vars => LoopInv'
<1> SUFFICES ASSUME LoopInv, [Next]_vars PROVE LoopInv'
  OBVIOUS
<1>1. CASE Act
  BY <1>1, ActKeeps
<1>2. CASE Refuse
  BY <1>2, EndingStep DEF Refuse, Stop, Endings
<1>3. CASE Conclude
  BY <1>3, EndingStep DEF Conclude, Stop, Endings
<1>4. CASE Complete
  <2>1. ended' \in {ended, "no_progress"}
    BY <1>4 DEF Complete, Compared
  <2> QED BY <1>4, <2>1, EndingStep DEF Complete, LoopInv, TypeOK, Endings
<1>5. CASE NextTurn
  BY <1>5, NextTurnKeeps
<1>6. CASE UNCHANGED vars
  BY <1>6 DEF vars, LoopInv, TypeOK, AttemptsAreCharged, NoActionTwice, AttemptKinds,
     BrokenStaysOpen, GoesOnUnhindered, ReasonsGoneBy, HiddenCalls, CoverIsClosed,
     AnswerIsEarned, AnswerIsPaid, Asked, ReasonsIn
<1> QED BY <1>1, <1>2, <1>3, <1>4, <1>5, <1>6 DEF Next, Step

LEMMA LoopAlwaysInv == Spec => []LoopInv
  BY LoopInitInv, LoopStepInv, PTL DEF Spec

-----------------------------------------------------------------------------
(* The theorems, for any plans, strategies, retries and number of turns. *)

(* Requirements, attempts, ledger and endings keep their types. *)
THEOREM LoopTypesAreRight == Spec => []TypeOK
<1>1. LoopInv => TypeOK
  BY DEF LoopInv
<1> QED BY LoopAlwaysInv, <1>1, PTL

(* No action is taken twice on a requirement (_choose_action), and a repair   *)
(* only repairs the one dialect failure.                                      *)
THEOREM NeverTwice == Spec => []NoActionTwice
<1>1. LoopInv => NoActionTwice
  BY DEF LoopInv
<1> QED BY LoopAlwaysInv, <1>1, PTL

(* Three attempts at most, one of them on documents, all in the ledger        *)
(* (BudgetLedger.allows, consume).                                            *)
THEOREM AttemptsAlwaysCharged == Spec => []AttemptsAreCharged
<1>1. LoopInv => AttemptsAreCharged
  BY DEF LoopInv
<1> QED BY LoopAlwaysInv, <1>1, PTL

(* Products are asked for only after this turn saw quality refunds grow       *)
(* (_dependency_status).                                                      *)
THEOREM ProductsWaitForQuality == Spec => []ProductsAfterQuality
<1>1. LoopInv => ProductsAfterQuality
  BY DEF LoopInv, ReasonsGoneBy, ProductsAfterQuality
<1> QED BY LoopAlwaysInv, <1>1, PTL

(* An answer is ready only when each requirement was closed by an observation *)
(* whose evidence still holds, or this turn showed it is not called for.      *)
THEOREM AnswersAreEarned == Spec => []AnswerIsEarned
<1>1. LoopInv => AnswerIsEarned
  BY DEF LoopInv
<1> QED BY LoopAlwaysInv, <1>1, PTL

(* Whatever the number of retries and the repair strategy, no answer rests on *)
(* model calls missing from the ledger, but for a breakdown by product that   *)
(* failed and turned out not to be called for (_consumption).                 *)
THEOREM AnswersArePaid == Spec => []AnswerIsPaid
<1>1. LoopInv => AnswerIsPaid
  BY DEF LoopInv
<1> QED BY LoopAlwaysInv, <1>1, PTL

(* No action runs on a ledger that an earlier one overdrew (_step_node).      *)
THEOREM OverdrawnRunsNothing == Spec => NothingRunsOverdrawn
<1>1. LoopInv /\ [Next]_vars
        => [(Len(seen') > Len(seen) => ~ledger.over /\ ledger.models <= MaxModels)]_vars
  <2> SUFFICES ASSUME LoopInv, Next, Len(seen') > Len(seen)
               PROVE  ~ledger.over /\ ledger.models <= MaxModels
    OBVIOUS
  <2>1. Len(seen) \in Nat /\ Len(seen) # Len(seen')
    <3>1. Len(seen) \in Nat
      BY DEF LoopInv
    <3> QED BY <3>1
  <2>2. Act
    <3>1. ASSUME NextTurn PROVE FALSE
      BY <3>1, <2>1 DEF NextTurn
    <3>2. ASSUME Refuse \/ Conclude \/ Complete PROVE FALSE
      BY <3>2, <2>1 DEF Refuse, Conclude, Complete
    <3> QED BY <3>1, <3>2 DEF Next, Step
  <2>3. PICK r \in Chosen : Allowed(r)
    BY <2>2 DEF Act
  <2>4. ledger \in Spending
    BY DEF LoopInv, TypeOK
  <2>5. Within(Plus(ledger, Declared(Action(r))))
    BY <2>3 DEF Allowed
  <2>6. /\ Declared(Action(r)).over = FALSE
        /\ Declared(Action(r)).models \in 0..1
    BY DEF Declared, Spend
  <2>7. /\ ~Plus(ledger, Declared(Action(r))).over
        /\ Plus(ledger, Declared(Action(r))).models <= MaxModels
    BY <2>5 DEF Within
  <2>8. ~(ledger.over \/ Declared(Action(r)).over)
    BY <2>7 DEF Plus
  <2>9. ledger.models + Declared(Action(r)).models <= MaxModels
    BY <2>7 DEF Plus
  <2>10. ledger.models \in Nat /\ MaxModels \in Nat
    BY <2>4 DEF Spending, MaxModels
  <2> QED BY <2>6, <2>8, <2>9, <2>10
<1> QED BY LoopAlwaysInv, <1>1, PTL DEF Spec, NothingRunsOverdrawn
-----------------------------------------------------------------------------
(* What a turn shows, and where a turn that runs nothing ends. *)

(* The requirement of a last attempt that closed nothing is still open. *)
LastStaysOpen ==
    seen # <<>> /\ ~Closes(seen[Len(seen)].outcome) => seen[Len(seen)].req \notin covered

ReadyAfterSuccess ==
    ended = "answer_ready" /\ seen # <<>> => Closes(seen[Len(seen)].outcome)

(* A turn without attempts has spent nothing; it is refused nothing, and its  *)
(* answer is ready when all was covered before.                               *)
UnstartedTurn ==
    seen = <<>> =>
        /\ ledger = Unspent
        /\ ended \in {"running", "answer_ready", "no_progress"}
        /\ ended = "answer_ready" => Asked(plan) \subseteq covered

StoppedForAReason == pc # "loop" => ended # "running"

DeadEnd ==
    \/ /\ \E r \in Asked(plan) \ covered : r.topic = "sku"
       /\ \A r \in Asked(plan) : r.topic \in Reasons => r \in covered
    \/ plan.route = "sql" /\ Cardinality(Comparisons) > 1

DeadOnlyThere == ended = "no_progress" /\ seen = <<>> => DeadEnd

EndInv ==
    LastStaysOpen /\ ReadyAfterSuccess /\ UnstartedTurn /\ StoppedForAReason /\ DeadOnlyThere

(* When nothing is chosen, nothing is eligible. *)
LEMMA NoneChosenNoneEligible ==
  ASSUME TypeOK, Chosen = {}
  PROVE  EligibleIndexes(covered, seen, seen) = {}
<1> DEFINE is == EligibleIndexes(covered, seen, seen)
<1> SUFFICES ASSUME is # {} PROVE FALSE
  OBVIOUS
<1>1. is \subseteq Nat
  <2>1. plan.reqs \in Seq(Requirement)
    BY PlansAssumption DEF TypeOK, Plan
  <2> QED BY <2>1 DEF EligibleIndexes
<1>2. PICK i \in is : \A j \in is : ~(<<j, i>> \in OpToRel(<, Nat))
  <2> HIDE DEF is
  <2> QED BY <1>1, NatLessThanWellFounded, WFMin
<1>3. \A j \in is : i <= j
  <2>1. \A j \in Nat : j < i => <<j, i>> \in OpToRel(<, Nat)
    BY <1>1 DEF OpToRel
  <2>2. \A j \in is : ~(j < i)
    BY <1>1, <1>2, <2>1
  <2> HIDE DEF is
  <2> QED BY <1>1, <2>2
<1>4. plan.reqs[i] \in Chosen
  BY <1>3 DEF Chosen
<1> QED BY <1>4

(* What is settled after an attempt that closed nothing is not settled. *)
LEMMA SettledAfterSuccess ==
  ASSUME LoopInv, LastStaysOpen, Settled, seen # <<>>
  PROVE  Closes(seen[Len(seen)].outcome)
<1> DEFINE n == Len(seen)
           l == Last(ReasonsIn(seen))
<1> SUFFICES ASSUME ~Closes(seen[n].outcome) PROVE FALSE
  OBVIOUS
<1>1. n \in 1..3 /\ DOMAIN seen = 1..n
  <2>1. n \in Nat /\ n # 0 /\ DOMAIN seen = 1..n
    BY DEF LoopInv
  <2>2. n <= 3
    BY DEF LoopInv, AttemptsAreCharged, MaxActions
  <2> QED BY <2>1, <2>2
<1>2. seen[n].req \in Asked(plan) /\ seen[n].req \notin covered
  BY <1>1 DEF LoopInv, AttemptKinds, LastStaysOpen
<1>3. Dependency(seen[n].req, seen) = "refused"
  BY <1>2 DEF Settled
<1>4. seen[n].req.topic = "sku" /\ ReasonsIn(seen) # {} /\ seen[l].outcome # "up"
  BY <1>3 DEF Dependency
<1>5. PICK k \in 1..(n - 1) :
        /\ seen[k].req.topic \in Reasons /\ seen[k].outcome = "up"
        /\ \A m \in 1..(n - 1) : seen[m].req.topic \in Reasons => m <= k
  BY <1>1, <1>4 DEF LoopInv, ReasonsGoneBy
<1>6. l \in ReasonsIn(seen) /\ \A m \in ReasonsIn(seen) : m <= l
  <2>1. ReasonsIn(seen) \subseteq 1..3
    BY <1>1 DEF ReasonsIn
  <2> QED BY <1>4, <2>1, LastIsLast
<1>7. l \in 1..n /\ seen[l].req.topic \in Reasons
  BY <1>1, <1>6 DEF ReasonsIn
<1>8. k <= l
  BY <1>1, <1>5, <1>6 DEF ReasonsIn
<1> HIDE DEF l, n
<1>9. l # n /\ l # k
  BY <1>4, <1>5, <1>7 DEF Reasons
<1>10. l \in 1..(n - 1)
  BY <1>1, <1>7, <1>9
<1>11. l <= k
  BY <1>5, <1>7, <1>10
<1> QED BY <1>1, <1>5, <1>8, <1>9, <1>10, <1>11

(* Nothing eligible, nothing seen and something open: products, whose reasons *)
(* are all covered.                                                           *)
LEMMA UnseenDeadEnd ==
  ASSUME LoopInv, Chosen = {}, ~Settled, seen = <<>>
  PROVE  DeadEnd
<1>1. EligibleIndexes(covered, seen, seen) = {}
  BY NoneChosenNoneEligible DEF LoopInv
<1>2. \A r : Of(r, seen) = {} /\ ReasonsIn(seen) = {}
  BY DEF Of, ReasonsIn
<1>3. ASSUME NEW r \in Asked(plan), r \notin covered PROVE r.topic = "sku"
  <2>1. PICK i \in DOMAIN plan.reqs : plan.reqs[i] = r
    BY <1>3 DEF Asked
  <2>2. ~Eligible(r, covered, seen, seen)
    BY <1>1, <2>1 DEF EligibleIndexes
  <2>3. Dependency(r, seen) # "met"
    BY <1>2, <1>3, <2>2 DEF Eligible
  <2> QED BY <2>3 DEF Dependency
<1>4. PICK r \in Asked(plan) : r \notin covered
  BY DEF Settled
<1> QED BY <1>3, <1>4 DEF DeadEnd, Reasons

(* The first action of a turn fits the budget. *)
LEMMA FirstIsAllowed ==
  ASSUME UnstartedTurn, seen = <<>>, NEW r
  PROVE  Allowed(r)
<1>1. ledger = Unspent /\ Of(r, seen) = {}
  BY DEF UnstartedTurn, Of
<1>2. {i \in DOMAIN seen : seen[i].req = r /\ seen[i].action = "repair"} = {}
  OBVIOUS
<1>3. Repairs(r, seen) = 0
  BY <1>2, FS_EmptySet DEF Repairs
<1>4. Action(r) # "repair"
  BY <1>1 DEF Action
<1> DEFINE d == Declared(Action(r))
<1>5. Within(Plus(ledger, d))
  <2>1. d.actions = 1 /\ d.sql \in 0..1 /\ d.knowledge \in 0..1 /\ d.models \in 0..1
    BY DEF Declared, Spend
  <2>2. d.over = FALSE
    BY DEF Declared, Spend
  <2> HIDE DEF d
  <2> DEFINE s == Plus(ledger, d)
  <2>3. s.actions = 1 /\ s.sql = d.sql /\ s.knowledge = d.knowledge /\ s.models = d.models
    BY <1>1, <2>1 DEF Plus, Unspent
  <2>4. ~s.over
    BY <1>1, <2>2 DEF Plus, Unspent
  <2> HIDE DEF s
  <2>5. s.actions <= 3 /\ s.sql <= 3 /\ s.knowledge <= 1 /\ s.models <= 6
    BY <2>1, <2>3
  <2> QED BY <2>4, <2>5 DEF s, Within, MaxActions, MaxSql, MaxKnowledge, MaxModels
<1> QED BY <1>3, <1>4, <1>5 DEF Allowed, MaxRepairs

(* The comparisons of a plan are finitely many. *)
LEMMA ComparisonsAreFinite == TypeOK => IsFiniteSet(Comparisons)
<1> SUFFICES ASSUME TypeOK PROVE IsFiniteSet(Comparisons)
  OBVIOUS
<1> DEFINE D == 1..Len(plan.reqs)
<1>1. plan.reqs \in Seq(Requirement)
  BY PlansAssumption DEF TypeOK, Plan
<1>2. Len(plan.reqs) \in Nat /\ DOMAIN plan.reqs = D
  BY <1>1
<1>3. IsFiniteSet(D)
  BY <1>2, FS_Interval
<1>4. plan.reqs \in Surjection(D, Asked(plan))
  BY <1>1, <1>2 DEF Surjection, Asked
<1>5. IsFiniteSet(Asked(plan))
  BY <1>3, <1>4, FS_Surjection
<1> QED BY <1>5, FS_Subset DEF Comparisons

LEMMA EndInitInv == Init => EndInv
  BY DEF Init, EndInv, LastStaysOpen, ReadyAfterSuccess, UnstartedTurn, StoppedForAReason,
         DeadOnlyThere

LEMMA ActEnds ==
  ASSUME LoopInv, Act PROVE EndInv'
<1>1. PICK r \in Chosen : \E end \in Ends(Action(r)) : ActsOn(r, end)
  BY ActEffect
<1>2. PICK end \in Ends(Action(r)) : ActsOn(r, end)
  BY <1>1
<1>3. r \notin covered
  BY ChosenIsDue
<1>4. Len(seen) \in Nat
  BY DEF LoopInv
<1>5. seen' # <<>>
  BY <1>2, <1>4 DEF ActsOn
<1>6. LastStaysOpen'
  BY <1>2, <1>3 DEF ActsOn, LastStaysOpen
<1>7. ended' # "answer_ready"
  BY <1>2 DEF ActsOn
<1>8. pc' # "loop" => ended' # "running"
  BY <1>2 DEF ActsOn
<1> QED BY <1>5, <1>6, <1>7, <1>8
        DEF EndInv, ReadyAfterSuccess, UnstartedTurn, StoppedForAReason, DeadOnlyThere

LEMMA ConcludeEnds ==
  ASSUME LoopInv, EndInv, Conclude PROVE EndInv'
<1>1. /\ Chosen = {} /\ ended' = IF Settled THEN "answer_ready" ELSE "no_progress"
      /\ UNCHANGED <<plan, covered, seen, ledger>>
  BY DEF Conclude, Stop
<1>2. LastStaysOpen' /\ StoppedForAReason'
  BY <1>1 DEF EndInv, LastStaysOpen, StoppedForAReason
<1>3. ReadyAfterSuccess'
  BY <1>1, SettledAfterSuccess DEF EndInv, ReadyAfterSuccess
<1>4. ASSUME seen = <<>>, Settled PROVE Asked(plan) \subseteq covered
  <2>1. \A r : Dependency(r, seen) # "refused"
    BY <1>4 DEF Dependency, ReasonsIn
  <2> QED BY <1>4, <2>1 DEF Settled
<1>5. UnstartedTurn'
  BY <1>1, <1>4 DEF EndInv, UnstartedTurn, Asked
<1>6. DeadOnlyThere'
  <2> SUFFICES ASSUME ~Settled, seen = <<>> PROVE DeadEnd'
    BY <1>1 DEF DeadOnlyThere
  <2>1. DeadEnd
    BY <1>1, UnseenDeadEnd
  <2> QED BY <1>1, <2>1 DEF DeadEnd, Asked, Comparisons
<1> QED BY <1>2, <1>3, <1>5, <1>6 DEF EndInv

LEMMA CompleteEnds ==
  ASSUME LoopInv, EndInv, Complete PROVE EndInv'
<1>1. ended' \in {ended, "no_progress"} /\ pc' = "done" /\ pc = "compare"
      /\ UNCHANGED <<plan, covered, seen, ledger>>
  BY DEF Complete, Compared
<1>2. LastStaysOpen' /\ StoppedForAReason' /\ ReadyAfterSuccess' /\ UnstartedTurn'
  BY <1>1 DEF EndInv, LastStaysOpen, StoppedForAReason, ReadyAfterSuccess, UnstartedTurn, Asked
<1>3. DeadOnlyThere'
  <2> SUFFICES ASSUME ended' = "no_progress", seen = <<>> PROVE DeadEnd
    BY <1>1 DEF DeadOnlyThere, DeadEnd, Asked, Comparisons
  <2>1. CASE ended = "no_progress"
    BY <2>1 DEF EndInv, DeadOnlyThere
  <2>2. CASE ended # "no_progress"
    <3>1. ended = "answer_ready" /\ Asked(plan) \subseteq covered
      BY <1>1, <2>2 DEF EndInv, UnstartedTurn, StoppedForAReason
    <3>2. /\ plan.route = "sql" /\ Comparisons # {}
          /\ \/ Cardinality(Comparisons) # 1
             \/ \E r \in Comparisons : ended' \in Compared(r)
      BY <2>2 DEF Complete
    <3>3. ASSUME NEW r \in Comparisons PROVE ended' \notin Compared(r)
      <4>1. Of(r, seen) = {} /\ r \in covered
        BY <3>1 DEF Of, Comparisons
      <4> QED BY <2>2, <4>1 DEF Compared
    <3>4. Cardinality(Comparisons) \in Nat /\ Cardinality(Comparisons) # 0
      BY <3>2, ComparisonsAreFinite, FS_CardinalityType, FS_EmptySet DEF LoopInv
    <3> QED BY <3>2, <3>3, <3>4 DEF DeadEnd
  <2> QED BY <2>1, <2>2
<1> QED BY <1>2, <1>3 DEF EndInv

LEMMA EndStepInv == LoopInv /\ EndInv /\ [Next]_vars => EndInv'
<1> SUFFICES ASSUME LoopInv, EndInv, [Next]_vars PROVE EndInv'
  OBVIOUS
<1>1. CASE Act
  BY <1>1, ActEnds
<1>2. CASE Refuse
  <2>1. seen # <<>>
    BY <1>2, FirstIsAllowed DEF Refuse, EndInv
  <2> QED BY <1>2, <2>1 DEF Refuse, Stop, EndInv, LastStaysOpen, ReadyAfterSuccess, UnstartedTurn,
                           StoppedForAReason, DeadOnlyThere
<1>3. CASE Conclude
  BY <1>3, ConcludeEnds
<1>4. CASE Complete
  BY <1>4, CompleteEnds
<1>5. CASE NextTurn
  BY <1>5 DEF NextTurn, EndInv, LastStaysOpen, ReadyAfterSuccess, UnstartedTurn, StoppedForAReason,
              DeadOnlyThere
<1>6. CASE UNCHANGED vars
  BY <1>6 DEF vars, EndInv, LastStaysOpen, ReadyAfterSuccess, UnstartedTurn, StoppedForAReason,
              DeadOnlyThere, DeadEnd, Asked, Comparisons
<1> QED BY <1>1, <1>2, <1>3, <1>4, <1>5, <1>6 DEF Next, Step

LEMMA AlwaysEndInv == Spec => [](LoopInv /\ EndInv)
  BY LoopInitInv, LoopStepInv, EndInitInv, EndStepInv, PTL DEF Spec

(* The observation whose status a turn publishes is never one that failed     *)
(* when the turn calls its answer ready (_single_route_result).               *)
THEOREM ReadyIsAlwaysShown == Spec => []ReadyIsShown
<1>1. LoopInv /\ EndInv => ReadyIsShown
  <2> SUFFICES ASSUME LoopInv, EndInv, ended = "answer_ready", seen # <<>>
               PROVE  Status = "complete" \/ (plan.route = "hybrid" /\ Status = "partial")
    BY DEF ReadyIsShown
  <2> DEFINE n == Len(seen)
  <2>1. n \in DOMAIN seen /\ Closes(seen[n].outcome)
    BY DEF LoopInv, EndInv, ReadyAfterSuccess
  <2>2. CASE plan.route # "hybrid"
    BY <2>1, <2>2 DEF Status, SingleStatus, StatusOf
  <2>3. CASE plan.route = "hybrid"
    <3>1. seen[n].req.topic \in SqlTopics \cup {"document"}
      BY <2>1 DEF LoopInv, TypeOK, Attempt, Requirement
    <3>2. Shown(SqlTopics) \/ Shown({"document"})
      BY <2>1, <3>1 DEF Shown
    <3> QED BY <2>3, <3>2 DEF Status, HybridStatus
  <2> QED BY <2>2, <2>3
<1> QED BY AlwaysEndInv, <1>1, PTL

(* A turn that runs nothing and gets nowhere met one of the two known dead    *)
(* ends (_choose_action, _complete_comparison_if_required).                   *)
THEOREM DeadEndsAlwaysKnown == Spec => []DeadEndsAreKnown
<1>1. LoopInv /\ EndInv => DeadEndsAreKnown
  BY DEF EndInv, DeadOnlyThere, DeadEnd, DeadEndsAreKnown
<1> QED BY AlwaysEndInv, <1>1, PTL
=============================================================================
