--------------------------- MODULE TaskTurnProofs ---------------------------
(***************************************************************************)
(* What a task's state and window tell after any number of turns, for any  *)
(* number of workers, tasks, months and questions.                         *)
(*                                                                         *)
(* A turn plans from the row it claimed and commits the plan later, so     *)
(* TurnInv speaks of both: what a live row keeps (Sound, After, Told) and  *)
(* what the turn that holds the task carries (Holds). FiledOK shows once,  *)
(* for every step that commits, how the one becomes the other.             *)
(***************************************************************************)
EXTENDS TaskTurn, SequenceTheorems, TLAPS

Actions == {"start", "continue", "switch", "cancel"}

Corrects == {"modify_constraint", "correct_previous_understanding"}

-----------------------------------------------------------------------------
(* Understanding a question. *)

(* The first reading that applies: always one of the eleven, a switch only    *)
(* when one is asked for, a start only when the task is new.                  *)
LEMMA CategoryFacts ==
  ASSUME NEW text, NEW action \in Actions, NEW started \in BOOLEAN
  PROVE  /\ Category(text, action, started) \in Categories
         /\ Category(text, action, started) = "switch_task" => action = "switch"
         /\ Category(text, action, started) = "start_task" => action = "start"
<1> DEFINE rs == Readings(text, action, started)
           c(i) == rs[i][1]
           First(i) == c(i) /\ \A j \in 1..(i - 1) : ~c(j)
<1>1. DOMAIN rs = 1..11
  BY DEF Readings
<1>2. /\ rs[1][2] = "cancel" /\ rs[2][2] = "correct_previous_understanding"
      /\ rs[3][2] = "modify_constraint" /\ rs[4][2] = "add_evidence_requirement"
      /\ rs[5][2] = "modify_constraint" /\ rs[6][2] = "ask_about_existing_result"
      /\ rs[7][2] = "add_evidence_requirement" /\ rs[8][2] = "modify_constraint"
      /\ rs[9][2] = "switch_task" /\ rs[10][2] = "continue" /\ rs[11][2] = "start_task"
  BY DEF Readings
<1>3. /\ c(1) <=> action = "cancel"
      /\ c(9) <=> action = "switch"
      /\ c(10) <=> action = "continue"
      /\ c(11)
  BY DEF Readings
<1>4. Category(text, action, started) = rs[CHOOSE i \in DOMAIN rs : First(i)][2]
  BY DEF Category
<1> HIDE DEF rs
<1>5. \E i \in DOMAIN rs : First(i)
  <2> HIDE DEF c
  <2>1. First(1) \/ ~c(1)
    OBVIOUS
  <2>2. (\E i \in 1..2 : First(i)) \/ \A j \in 1..2 : ~c(j)
    BY <2>1
  <2>3. (\E i \in 1..3 : First(i)) \/ \A j \in 1..3 : ~c(j)
    BY <2>2
  <2>4. (\E i \in 1..4 : First(i)) \/ \A j \in 1..4 : ~c(j)
    BY <2>3
  <2>5. (\E i \in 1..5 : First(i)) \/ \A j \in 1..5 : ~c(j)
    BY <2>4
  <2>6. (\E i \in 1..6 : First(i)) \/ \A j \in 1..6 : ~c(j)
    BY <2>5
  <2>7. (\E i \in 1..7 : First(i)) \/ \A j \in 1..7 : ~c(j)
    BY <2>6
  <2>8. (\E i \in 1..8 : First(i)) \/ \A j \in 1..8 : ~c(j)
    BY <2>7
  <2>9. (\E i \in 1..9 : First(i)) \/ \A j \in 1..9 : ~c(j)
    BY <2>8
  <2>10. (\E i \in 1..10 : First(i)) \/ \A j \in 1..10 : ~c(j)
    BY <2>9
  <2>11. First(11) \/ \E i \in 1..10 : First(i)
    BY <1>3, <2>10
  <2> QED BY <1>1, <2>11
<1> DEFINE f == CHOOSE i \in DOMAIN rs : First(i)
<1>6. f \in 1..11 /\ First(f)
  BY <1>1, <1>5
<1> HIDE DEF f, c
<1>7. Category(text, action, started) = rs[f][2]
  BY <1>4 DEF f
<1>8. /\ f = 9 => action = "switch"
      /\ f = 11 => action = "start"
  BY <1>3, <1>6 DEF Actions
<1>9. /\ rs[f][2] \in Categories
      /\ rs[f][2] = "switch_task" => f = 9
      /\ rs[f][2] = "start_task" => f = 11
  BY <1>2, <1>6 DEF Categories
<1> QED BY <1>7, <1>8, <1>9

Routes == {"none", "sql", "hybrid"}

(* What a delta asks for needs a metric; one that corrects without setting    *)
(* anything comes of a task that never had one.                               *)
LEMMA DeltaFacts ==
  ASSUME NEW text \in Texts, NEW action \in Actions, NEW started \in BOOLEAN,
         NEW old \in State, NEW d, d = Understand(text, action, started, old)
  PROVE  /\ d.category = Category(text, action, started)
         /\ d.metric \in BOOLEAN /\ d.sets \in BOOLEAN /\ d.pending \in BOOLEAN
         /\ d.periods \in SUBSET Periods /\ d.reqs \in SUBSET Requirement
         /\ d.route \in Routes
         /\ d.reqs # {} => d.metric
         /\ d.category \in Corrects /\ ~d.sets => ~old.metric
<1> DEFINE category == Category(text, action, started)
           metric == text.metric \/ old.metric
           periods == ResolvedPeriods(text, category, old)
           pending == ~metric \/ periods = {}
<1>1. /\ text.cues \in SUBSET Cues /\ text.metric \in BOOLEAN /\ text.periods \in SUBSET Periods
      /\ old.metric \in BOOLEAN /\ old.periods \in SUBSET Periods /\ old.route \in Routes
  BY TextsAssumption DEF State, Routes
<1>2. periods \in SUBSET Periods /\ metric \in BOOLEAN /\ pending \in BOOLEAN
  BY <1>1 DEF ResolvedPeriods
<1>3. Required(text, periods) \in SUBSET Requirement
  BY <1>2 DEF Required, SqlTopics, Requirement
<1>4. CASE category \in {"cancel", "ask_about_existing_result"}
  <2> DEFINE route == IF category = "cancel" THEN "none" ELSE old.route
  <2>1. d = [category |-> category, metric |-> FALSE, periods |-> {}, sets |-> FALSE,
             reqs |-> {}, pending |-> FALSE, route |-> route]
    BY <1>4 DEF Understand
  <2>2. route \in Routes
    BY <1>1 DEF Routes
  <2> HIDE DEF category, route
  <2>3. d.category = category /\ d.periods = {} /\ d.reqs = {} /\ d.route = route
    BY <2>1
  <2>4. d.metric = FALSE /\ d.sets = FALSE /\ d.pending = FALSE
    BY <2>1
  <2>5. d.category \notin Corrects
    BY <1>4, <2>3 DEF Corrects
  <2> QED BY <2>2, <2>3, <2>4, <2>5 DEF category
<1>5. CASE category \notin {"cancel", "ask_about_existing_result"}
  <2> DEFINE sets == \/ metric \/ periods # {}
                     \/ text.cues \cap {"channel", "product", "reason", "why"} # {}
             reqs == IF pending THEN {} ELSE Required(text, periods)
             route == IF pending THEN "none"
                      ELSE IF "policy" \in text.cues THEN "hybrid" ELSE "sql"
  <2>1. d = [category |-> category, metric |-> metric, periods |-> periods, sets |-> sets,
             reqs |-> reqs, pending |-> pending, route |-> route]
    BY <1>5 DEF Understand
  <2>2. reqs \in SUBSET Requirement /\ route \in Routes /\ sets \in BOOLEAN
        /\ (reqs # {} => metric) /\ (~sets => ~old.metric)
    BY <1>1, <1>2, <1>3 DEF Routes
  <2> HIDE DEF category, metric, periods, pending, sets, reqs, route
  <2> QED BY <1>2, <2>1, <2>2 DEF category
<1> QED BY <1>4, <1>5

-----------------------------------------------------------------------------
(* The state a turn plans. *)

(* A state without a metric asks for nothing and has found nothing; what is    *)
(* active answers what is required.                                           *)
Sound(s) ==
    /\ s \in State
    /\ ~s.metric => s.reqs = {} /\ s.evidence = {}
    /\ Covered(s) \subseteq s.reqs

(* A correction leaves nothing active until the loop has run again. *)
Meant(s, category) == category \in Corrects => ActiveIn(s) = {}

(* State s comes after the turns of l, and obeys their corrections. *)
After(s, l) ==
    /\ \A i \in DOMAIN l : l[i].gen <= s.gen
    /\ \A e \in ActiveIn(s), i \in DOMAIN l : l[i].category \in Corrects => l[i].gen <= e.gen

LEMMA FreshIsSound == Sound(FreshState)
  BY DEF Sound, FreshState, State, Covered, ActiveIn

(* Applying the delta of a turn of a task that exists. *)
LEMMA PlanFacts ==
  ASSUME NEW old, Sound(old), NEW text \in Texts, NEW action \in {"continue", "switch", "cancel"},
         NEW started \in BOOLEAN, started # FALSE,
         NEW d, d = Understand(text, action, started, old),
         NEW p, p = ApplyDelta(d, started, old)
  PROVE  /\ Sound(p) /\ Meant(p, d.category)
         /\ d.category = "switch_task" => action = "switch" /\ p.status # "clarification_required"
         /\ d.category # "switch_task" => old.gen <= p.gen /\ ActiveIn(p) \subseteq ActiveIn(old)
<1> DEFINE base == IF d.category = "switch_task" THEN FreshState ELSE old
           changed == SemanticChange(base, d)
           evidence == IF changed THEN {[e EXCEPT !.active = FALSE] : e \in base.evidence}
                       ELSE base.evidence
<1>1. old \in State /\ Sound(base) /\ base \in State
  BY FreshIsSound DEF Sound
<1>2. /\ d.category = Category(text, action, started)
      /\ d.metric \in BOOLEAN /\ d.sets \in BOOLEAN /\ d.pending \in BOOLEAN
      /\ d.periods \in SUBSET Periods /\ d.reqs \in SUBSET Requirement
      /\ d.route \in Routes /\ (d.reqs # {} => d.metric)
      /\ (d.category \in Corrects /\ ~d.sets => ~old.metric)
  <2>1. action \in Actions /\ old \in State
    BY <1>1 DEF Actions
  <2> QED BY <2>1, DeltaFacts
<1>3. /\ d.category \in Categories /\ d.category # "start_task"
      /\ (d.category = "switch_task" => action = "switch")
  BY <1>2, CategoryFacts DEF Actions
<1> DEFINE st == IF d.category = "cancel" THEN "cancelled"
                 ELSE IF d.pending /\ d.category # "switch_task"
                      THEN "clarification_required" ELSE "active"
           gn == IF d.category # "switch_task" THEN base.gen + 1 ELSE base.gen
           mt == base.metric \/ d.metric
           ps == IF d.periods # {} THEN d.periods ELSE base.periods
           rq == NewRequirements(base, d)
<1>4. p = [status |-> st, gen |-> gn, metric |-> mt, periods |-> ps, reqs |-> rq,
           route |-> d.route, evidence |-> evidence]
  BY DEF ApplyDelta
<1>5. /\ base.gen \in Nat /\ base.metric \in BOOLEAN /\ base.periods \in SUBSET Periods
      /\ base.reqs \in SUBSET Requirement /\ base.evidence \in SUBSET Evidence
      /\ (~base.metric => base.reqs = {} /\ base.evidence = {})
      /\ (\A e \in base.evidence : e.active => e.req \in base.reqs)
  BY <1>1 DEF Sound, State, Covered, ActiveIn
<1>6. rq \in SUBSET Requirement
      /\ (d.category \notin Corrects \cup {"switch_task"} => base.reqs \subseteq rq)
      /\ rq \subseteq base.reqs \cup d.reqs
  BY <1>2, <1>3, <1>5 DEF NewRequirements, Replaces, Corrects
<1>7. evidence \in SUBSET Evidence /\ \A e \in evidence : e.active => e \in base.evidence
  <2>1. CASE changed
    <3>1. \A e \in base.evidence : [e EXCEPT !.active = FALSE] \in Evidence
                                   /\ ~[e EXCEPT !.active = FALSE].active
      BY <1>5 DEF Evidence
    <3> QED BY <2>1, <3>1
  <2>2. CASE ~changed
    BY <1>5, <2>2
  <2> QED BY <2>1, <2>2
<1>8. d.category \in Corrects \cup {"switch_task"} => \A e \in evidence : ~e.active
  <2>1. CASE d.category = "switch_task"
    BY <2>1, <1>7 DEF FreshState
  <2>2. CASE d.category \in Corrects /\ d.sets
    <3>1. changed
      BY <2>2 DEF SemanticChange, Corrects
    <3>2. \A e \in base.evidence : ~[e EXCEPT !.active = FALSE].active
      BY <1>5 DEF Evidence
    <3> QED BY <3>1, <3>2
  <2>3. CASE d.category \in Corrects /\ ~d.sets
    <3>1. base.evidence = {}
      BY <1>2, <1>5, <2>3 DEF Corrects
    <3> QED BY <1>7, <3>1
  <2> QED BY <2>1, <2>2, <2>3
<1>9. ~base.metric => evidence = {}
  BY <1>5
<1>10. base = old \/ d.category = "switch_task"
  OBVIOUS
<1> HIDE DEF base, changed, evidence
<1>s. /\ st \in {"active", "clarification_required", "cancelled"}
      /\ d.category = "switch_task" => st # "clarification_required"
  OBVIOUS
<1>g. gn \in Nat /\ (d.category # "switch_task" => base.gen <= gn)
  <2>1. base.gen \in Nat
    BY <1>5
  <2> QED BY <2>1
<1>m. mt \in BOOLEAN /\ (~mt => ~base.metric /\ ~d.metric)
  OBVIOUS
<1>p. ps \in SUBSET Periods
  BY <1>2, <1>5
<1>r. d.route \in {"none", "sql", "hybrid"}
  BY <1>2 DEF Routes
<1> HIDE DEF st, gn, mt, ps, rq
<1>f. p.status = st /\ p.gen = gn /\ p.reqs = rq /\ p.evidence = evidence
  BY <1>4
<1>k. p.metric = mt
  BY <1>4
<1>11. p \in State
  <2>1. rq \in SUBSET Requirement /\ evidence \in SUBSET Evidence
    BY <1>6, <1>7
  <2>2. mt \in BOOLEAN
    BY <1>m
  <2> QED BY <1>4, <1>g, <1>p, <1>r, <1>s, <2>1, <2>2 DEF State
<1>12. ~p.metric => p.reqs = {} /\ p.evidence = {}
  <2>1. CASE mt
    BY <1>k, <2>1
  <2>2. CASE ~mt
    <3>1. ~base.metric /\ ~d.metric
      BY <1>m, <2>2
    <3>2. base.reqs = {} /\ d.reqs = {}
      BY <1>2, <1>5, <3>1
    <3> QED BY <1>6, <1>9, <1>f, <3>1, <3>2
  <2> QED BY <2>1, <2>2
<1>13. Covered(p) \subseteq p.reqs
  <2>1. \A e \in evidence : e.active => e.req \in rq
    BY <1>5, <1>6, <1>7, <1>8
  <2> QED BY <1>f, <2>1 DEF Covered, ActiveIn
<1>14. Meant(p, d.category)
  BY <1>8, <1>f DEF Meant, ActiveIn
<1>15. d.category # "switch_task" => old.gen <= p.gen /\ ActiveIn(p) \subseteq ActiveIn(old)
  BY <1>7, <1>10, <1>f, <1>g DEF ActiveIn
<1>16. d.category = "switch_task" => action = "switch" /\ p.status # "clarification_required"
  BY <1>3, <1>f, <1>s
<1> QED BY <1>11, <1>12, <1>13, <1>14, <1>15, <1>16 DEF Sound

(* A new task starts from nothing. *)
LEMMA StartFacts ==
  ASSUME NEW text \in Texts, NEW started \in BOOLEAN, ~started,
         NEW d, d = Understand(text, "start", started, FreshState),
         NEW p, p = ApplyDelta(d, started, FreshState)
  PROVE  Sound(p) /\ d.category \in Categories /\ p.evidence = {}
<1>1. FreshState \in State
  BY FreshIsSound DEF Sound
<1>2. /\ d.category = Category(text, "start", started)
      /\ d.metric \in BOOLEAN /\ d.pending \in BOOLEAN
      /\ d.periods \in SUBSET Periods /\ d.reqs \in SUBSET Requirement
      /\ d.route \in Routes /\ (d.reqs # {} => d.metric)
  <2>1. "start" \in Actions
    BY DEF Actions
  <2> DEFINE action == "start"
  <2>2. action \in Actions /\ d = Understand(text, action, started, FreshState)
    BY <2>1
  <2> HIDE DEF action
  <2>3. /\ d.category = Category(text, action, started)
        /\ d.metric \in BOOLEAN /\ d.pending \in BOOLEAN
        /\ d.periods \in SUBSET Periods /\ d.reqs \in SUBSET Requirement
        /\ d.route \in Routes /\ (d.reqs # {} => d.metric)
    BY <1>1, <2>2, DeltaFacts
  <2> QED BY <2>3 DEF action
<1>3. d.category \in Categories
  BY <1>2, CategoryFacts DEF Actions
<1> DEFINE base == IF d.category = "switch_task" THEN FreshState ELSE FreshState
           st == IF d.category = "cancel" THEN "cancelled"
                 ELSE IF d.pending /\ d.category # "switch_task"
                      THEN "clarification_required" ELSE "active"
           mt == FreshState.metric \/ d.metric
           ps == IF d.periods # {} THEN d.periods ELSE {}
           rq == NewRequirements(FreshState, d)
<1>b. base = FreshState
  OBVIOUS
<1>f. /\ FreshState.gen = 1 /\ FreshState.periods = {} /\ FreshState.evidence = {}
      /\ FreshState.reqs = {} /\ ~FreshState.metric
  BY DEF FreshState
<1>4. p = [status |-> st, gen |-> 1, metric |-> mt, periods |-> ps, reqs |-> rq,
           route |-> d.route, evidence |-> {}]
  BY <1>f DEF ApplyDelta
<1>s. st \in {"active", "clarification_required", "cancelled"}
  OBVIOUS
<1>m. mt \in BOOLEAN /\ (~mt => ~d.metric)
  OBVIOUS
<1>p. ps \in SUBSET Periods
  BY <1>2
<1>r. rq \in SUBSET Requirement /\ (d.reqs = {} => rq = {})
  BY <1>2, <1>f DEF NewRequirements
<1>t. d.route \in {"none", "sql", "hybrid"}
  BY <1>2 DEF Routes
<1>u. ~mt => rq = {}
  <2>1. ~d.metric => d.reqs = {}
    BY <1>2
  <2> QED BY <1>m, <1>r, <2>1
<1> HIDE DEF base, st, mt, ps, rq
<1>5. p.evidence = {} /\ p.reqs = rq
  BY <1>4
<1>k. p.metric = mt
  BY <1>4
<1>6. p \in State
  <2>1. mt \in BOOLEAN
    BY <1>m
  <2> QED BY <1>4, <1>p, <1>r, <1>s, <1>t, <2>1 DEF State
<1>7. Covered(p) = {}
  BY <1>5 DEF Covered, ActiveIn
<1>8. ~p.metric => p.reqs = {}
  BY <1>5, <1>k, <1>u
<1> QED BY <1>3, <1>5, <1>6, <1>7, <1>8 DEF Sound

(* The loop adds evidence of the state's generation for what is required. *)
LEMMA LoopFacts ==
  ASSUME NEW p, Sound(p), NEW end \in LoopEnds(p)
  PROVE  /\ Sound(end.state) /\ end.state.gen = p.gen /\ end.complete \in BOOLEAN
         /\ \A e \in ActiveIn(end.state) : e \in ActiveIn(p) \/ e.gen = p.gen
<1> DEFINE open == p.reqs \ Covered(p)
<1>1. PICK got \in SUBSET open :
        end.state = Gains(p, got) /\ end.complete \in BOOLEAN
  BY DEF LoopEnds
<1>2. p \in State /\ p.reqs \in SUBSET Requirement /\ p.gen \in Nat /\ p.evidence \in SUBSET Evidence
      /\ (\A e \in p.evidence : e.active => e.req \in p.reqs)
      /\ (~p.metric => p.reqs = {} /\ p.evidence = {})
  BY DEF Sound, State, Covered, ActiveIn
<1> DEFINE new == [req: got, gen: {p.gen}, active: {TRUE}]
<1>3. new \in SUBSET Evidence /\ \A e \in new : e.req \in p.reqs /\ e.gen = p.gen
  BY <1>2 DEF Evidence
<1>3a. p.reqs = {} => new = {}
  BY <1>3
<1>4. end.state = [p EXCEPT !.evidence = p.evidence \cup new]
  BY <1>1 DEF Gains
<1> HIDE DEF new
<1>5. /\ end.state \in State /\ end.state.evidence = p.evidence \cup new
      /\ end.state.gen = p.gen /\ end.state.reqs = p.reqs /\ end.state.metric = p.metric
  BY <1>2, <1>3, <1>4 DEF State
<1>6. Covered(end.state) \subseteq end.state.reqs
  BY <1>2, <1>3, <1>5 DEF Covered, ActiveIn
<1>7. ~end.state.metric => end.state.reqs = {} /\ end.state.evidence = {}
  BY <1>2, <1>3a, <1>5
<1>8. \A e \in ActiveIn(end.state) : e \in ActiveIn(p) \/ e.gen = p.gen
  BY <1>3, <1>5 DEF ActiveIn
<1> QED BY <1>1, <1>5, <1>6, <1>7, <1>8 DEF Sound

Entry == [version: Nat, category: Categories, gen: Nat, complete: BOOLEAN]

(* What a turn commits comes after all turns so far, its own included. *)
LEMMA FiledAfter ==
  ASSUME NEW p \in State, NEW l \in Seq(Entry), NEW c \in Categories, After(p, l), Meant(p, c),
         NEW s \in State, s.gen = p.gen,
         \A e \in ActiveIn(s) : e \in ActiveIn(p) \/ e.gen = p.gen,
         NEW entry \in Entry, entry.gen = s.gen, entry.category = c
  PROVE  After(s, Append(l, entry))
<1> DEFINE m == Append(l, entry)
<1>1. \A i \in DOMAIN m : (i \in DOMAIN l /\ m[i] = l[i]) \/ m[i] = entry
  OBVIOUS
<1>2. \A i \in DOMAIN l : l[i].gen <= s.gen
  BY DEF After
<1>g. s.gen \in Nat
  BY DEF State
<1> HIDE DEF m
<1>3. \A i \in DOMAIN m : m[i].gen <= s.gen
  BY <1>1, <1>2, <1>g
<1>4. ASSUME NEW e \in ActiveIn(s), NEW i \in DOMAIN m, m[i].category \in Corrects
      PROVE  m[i].gen <= e.gen
  <2>1. CASE e \in ActiveIn(p)
    <3>1. c \notin Corrects
      BY <2>1 DEF Meant
    <3> QED BY <1>1, <1>4, <2>1, <3>1 DEF After
  <2>2. CASE e.gen = p.gen
    BY <1>3, <1>4, <2>2
  <2> QED BY <2>1, <2>2
<1> QED BY <1>3, <1>4 DEF After, m

-----------------------------------------------------------------------------
(* The window of a task. *)

(* Digest d is of the latest complete answer of l from turn `from` on. *)
Digests(l, from, d) ==
    \/ d = 0 /\ \A i \in from..Len(l) : ~l[i].complete
    \/ \E i \in from..Len(l) :
          l[i].complete /\ l[i].version = d /\ \A j \in (i + 1)..Len(l) : ~l[j].complete

(* Window b tells the last turns of l: what a turn may append itself to. *)
Based(b, l) ==
    /\ b \in Window
    /\ b.watermark <= Len(l) /\ b.compacted <= b.watermark
    /\ Len(b.uncovered) = b.watermark - b.compacted
    /\ \A i \in 1..Len(b.uncovered) :
          b.uncovered[i] = l[Len(l) - Len(b.uncovered) + i].version
    /\ Digests(l, Len(l) - b.watermark + 1, b.digest)

(* And w ends with the turn that wrote it, at version v. *)
Told(w, l, v) == Based(w, l) /\ w.compacted < w.watermark /\ l[Len(l)].version = v

LEMMA EmptyIsBased == ASSUME NEW l \in Seq(Entry) PROVE Based(EmptyWindow, l)
<1>1. /\ EmptyWindow.compacted = 0 /\ EmptyWindow.watermark = 0 /\ EmptyWindow.digest = 0
      /\ EmptyWindow.uncovered = <<>>
  BY DEF EmptyWindow
<1>2. EmptyWindow \in Window
  BY DEF EmptyWindow, Window
<1>3. Len(l) \in Nat /\ Len(EmptyWindow.uncovered) = 0
  BY <1>1
<1>4. Digests(l, Len(l) - EmptyWindow.watermark + 1, EmptyWindow.digest)
  BY <1>1, <1>3 DEF Digests
<1> QED BY <1>1, <1>2, <1>3, <1>4 DEF Based

(* A due compaction loses nothing a turn may rely on. *)
LEMMA PreparedIsBased ==
  ASSUME NEW l \in Seq(Entry), NEW b, Based(b, l), NEW heavy, NEW x \in Prepared(b, heavy)
  PROVE  Based(x, l)
<1>1. x = b \/ x = Compact(b)
  BY DEF Prepared
<1>2. CASE x = Compact(b)
  <2>1. b \in Window /\ b.watermark \in Nat /\ b.compacted \in Nat /\ b.digest \in Nat
    BY DEF Based, Window
  <2>2. x = [compacted |-> b.watermark, uncovered |-> <<>>, watermark |-> b.watermark,
             digest |-> b.digest]
    BY <1>2, <2>1 DEF Compact, Window
  <2>3. x \in Window /\ x.compacted = b.watermark /\ x.watermark = b.watermark
        /\ x.uncovered = <<>> /\ x.digest = b.digest
    BY <2>1, <2>2 DEF Window
  <2>4. Len(x.uncovered) = 0 /\ Len(l) \in Nat
    BY <2>3
  <2> QED BY <2>1, <2>3, <2>4 DEF Based
<1> QED BY <1>1, <1>2

(* Appending the turn that commits. *)
LEMMA AppendTold ==
  ASSUME NEW l \in Seq(Entry), NEW b, Based(b, l), NEW e \in Entry, e.version # 0,
         NEW d \in Nat, e.complete => d = e.version, ~e.complete => d \in {0, b.digest}
  PROVE  Told(AppendTurn(b, e.version, d), Append(l, e), e.version)
<1> DEFINE v == e.version
           m == Append(l, e)
           n == Len(l)
           u == b.uncovered
           w == AppendTurn(b, v, d)
           dg == IF d # 0 THEN d ELSE b.digest
<1>1. /\ b.compacted \in Nat /\ b.watermark \in Nat /\ b.digest \in Nat /\ u \in Seq(Nat)
      /\ b \in Window
  BY DEF Based, Window
<1>2. /\ n \in Nat /\ Len(u) \in Nat /\ v \in Nat /\ dg \in Nat
      /\ b.watermark <= n /\ b.compacted <= b.watermark /\ Len(u) = b.watermark - b.compacted
  BY <1>1 DEF Based, Entry
<1>3. m \in Seq(Entry) /\ Len(m) = n + 1 /\ m[n + 1] = e /\ \A i \in 1..n : m[i] = l[i]
  OBVIOUS
<1>4. w = [compacted |-> b.compacted, uncovered |-> Append(u, v),
           watermark |-> b.watermark + 1, digest |-> dg]
  <2>1. b = [compacted |-> b.compacted, uncovered |-> u, watermark |-> b.watermark,
             digest |-> b.digest]
    BY <1>1 DEF Window
  <2>2. w = [b EXCEPT !.uncovered = Append(u, v), !.watermark = b.watermark + 1,
                      !.digest = dg]
    BY DEF AppendTurn
  <2> QED BY <2>1, <2>2
<1>5. Append(u, v) \in Seq(Nat) /\ Len(Append(u, v)) = Len(u) + 1
      /\ Append(u, v)[Len(u) + 1] = v /\ \A i \in 1..Len(u) : Append(u, v)[i] = u[i]
  BY <1>1, <1>2
<1> HIDE DEF u, w, dg, v
<1>6. /\ w.uncovered = Append(u, v) /\ w.watermark = b.watermark + 1
      /\ w.digest = dg /\ w.compacted = b.compacted
  BY <1>4
<1>w. w \in Window
  <2>1. /\ b.compacted \in Nat /\ Append(u, v) \in Seq(Nat) /\ b.watermark + 1 \in Nat
        /\ dg \in Nat
    BY <1>1, <1>2, <1>5
  <2> QED BY <1>4, <2>1 DEF Window
<1>7. \A i \in 1..Len(u) : u[i] = l[n - Len(u) + i].version
  BY DEF Based, u
<1>8. Digests(l, n - b.watermark + 1, b.digest)
  BY DEF Based
<1>9. e.complete \in BOOLEAN
  BY DEF Entry
<1>q. dg = IF d # 0 THEN d ELSE b.digest
  BY DEF dg
<1>L. Len(m) = n + 1
  BY <1>3
<1> HIDE DEF m, n
<1>10. \A i \in 1..(Len(u) + 1) :
         w.uncovered[i] = m[n + 1 - (Len(u) + 1) + i].version
  <2> SUFFICES ASSUME NEW i \in 1..(Len(u) + 1)
               PROVE  w.uncovered[i] = m[n + 1 - (Len(u) + 1) + i].version
    OBVIOUS
  <2>1. CASE i = Len(u) + 1
    <3>1. n + 1 - (Len(u) + 1) + i = n + 1
      BY <1>2, <2>1
    <3> QED BY <1>3, <1>5, <1>6, <2>1, <3>1 DEF v
  <2>2. CASE i # Len(u) + 1
    <3>0. Len(u) \in Nat /\ n \in Nat /\ Len(u) <= n
      <4>1. b.watermark \in Nat /\ b.compacted \in Nat /\ b.watermark <= n
            /\ Len(u) = b.watermark - b.compacted /\ n \in Nat /\ Len(u) \in Nat
        BY <1>1, <1>2
      <4> QED BY <4>1
    <3>1. i \in 1..Len(u) /\ n + 1 - (Len(u) + 1) + i = n - Len(u) + i
          /\ n - Len(u) + i \in 1..n
      BY <2>2, <3>0
    <3> QED BY <1>3, <1>5, <1>6, <1>7, <3>1
  <2> QED BY <2>1, <2>2
<1> DEFINE from == n - b.watermark + 1
<1>11. from \in 1..(n + 1)
  BY <1>1, <1>2
<1> HIDE DEF from
<1>14. Digests(m, from, dg)
  <2>c. CASE e.complete
    <3>1. dg = v /\ v # 0
      BY <2>c, <1>q DEF v
    <3>2. n + 1 \in from..(n + 1) /\ m[n + 1].complete /\ m[n + 1].version = dg
          /\ \A j \in (n + 1 + 1)..(n + 1) : ~m[j].complete
      BY <1>2, <1>3, <1>11, <2>c, <3>1 DEF v
    <3> QED BY <1>L, <3>2 DEF Digests
  <2>o. CASE ~e.complete
    <3>1. dg = b.digest
      BY <2>o, <1>q
    <3>2. ~m[n + 1].complete /\ \A i \in from..n : m[i] = l[i]
      BY <1>2, <1>3, <1>11, <2>o
    <3>3. CASE dg = 0 /\ \A i \in from..n : ~l[i].complete
      <4>1. \A i \in from..(n + 1) : ~m[i].complete
        BY <1>2, <1>11, <3>2, <3>3
      <4> QED BY <1>L, <3>3, <4>1 DEF Digests
    <3>4. CASE \E i \in from..n :
                 l[i].complete /\ l[i].version = dg /\ \A j \in (i + 1)..n : ~l[j].complete
      <4>1. PICK i \in from..n :
              l[i].complete /\ l[i].version = dg /\ \A j \in (i + 1)..n : ~l[j].complete
        BY <3>4
      <4>2. i \in from..(n + 1) /\ m[i].complete /\ m[i].version = dg
        BY <1>2, <1>11, <3>2, <4>1
      <4>3. \A j \in (i + 1)..(n + 1) : ~m[j].complete
        BY <1>2, <1>11, <3>2, <4>1
      <4> QED BY <1>L, <4>2, <4>3 DEF Digests
    <3> QED BY <1>8, <3>1, <3>3, <3>4 DEF Digests, from, n
  <2> QED BY <1>9, <2>c, <2>o
<1>15. Len(m) - w.watermark + 1 = from /\ w.watermark <= Len(m) /\ w.compacted < w.watermark
       /\ Len(w.uncovered) = w.watermark - w.compacted /\ Len(w.uncovered) = Len(u) + 1
  <2>1. Len(w.uncovered) = Len(u) + 1
    BY <1>5, <1>6
  <2>2. /\ n \in Nat /\ Len(u) = b.watermark - b.compacted /\ b.watermark <= n
        /\ b.watermark \in Nat /\ b.compacted \in Nat /\ b.compacted <= b.watermark
    BY <1>1, <1>2
  <2>3. w.watermark = b.watermark + 1 /\ w.compacted = b.compacted
    BY <1>6
  <2>4. Len(m) - w.watermark + 1 = from /\ w.watermark <= Len(m)
    <3> DEFINE x == Len(m)
               y == w.watermark
               z == b.watermark
    <3>1. x = n + 1 /\ y = z + 1 /\ n \in Nat /\ z \in Nat /\ z <= n
      BY <1>L, <2>2, <2>3
    <3>2. from = n - z + 1
      BY DEF from
    <3> HIDE DEF x, y, z
    <3>3. x - y + 1 = from /\ y <= x
      BY <3>1, <3>2
    <3> QED BY <3>3 DEF x, y
  <2>5. w.compacted < w.watermark /\ Len(w.uncovered) = w.watermark - w.compacted
    BY <2>1, <2>2, <2>3
  <2> QED BY <2>1, <2>4, <2>5
<1>16. Based(w, m)
  <2>1. Digests(m, Len(m) - w.watermark + 1, w.digest)
    BY <1>6, <1>14, <1>15
  <2>2. \A i \in 1..Len(w.uncovered) :
          w.uncovered[i] = m[Len(m) - Len(w.uncovered) + i].version
    <3>1. Len(w.uncovered) = Len(u) + 1
      BY <1>15
    <3>2. n \in Nat /\ Len(u) \in Nat
      BY <1>2
    <3> TAKE i \in 1..Len(w.uncovered)
    <3>3. i \in 1..(Len(u) + 1)
      BY <3>1
    <3>4. Len(m) - Len(w.uncovered) + i = n + 1 - (Len(u) + 1) + i
      BY <1>L, <3>1, <3>2
    <3> QED BY <1>10, <3>3, <3>4
  <2>3. w.compacted <= w.watermark
    BY <1>1, <1>2, <1>6
  <2> QED BY <1>w, <1>15, <2>1, <2>2, <2>3 DEF Based
<1>17. m[Len(m)].version = v
  BY <1>3 DEF v
<1> QED BY <1>15, <1>16, <1>17 DEF Told, w, m, v

Lineage(w, l) == SubSeq(l, Len(l) - w.watermark + 1, Len(l))

Tells(w, l, v, lineage) ==
    /\ w.watermark \in 1..Len(l)
    /\ w.compacted < w.watermark
    /\ w.uncovered = [i \in 1..(w.watermark - w.compacted) |->
                        lineage[w.compacted + i].version]
    /\ w.digest = LatestComplete(lineage)
    /\ lineage[w.watermark].version = v

(* What a window that is told says, in the words of WindowTellsHistory. *)
LEMMA ToldTells ==
  ASSUME NEW l \in Seq(Entry), NEW w, NEW v, Told(w, l, v),
         NEW lineage, lineage = Lineage(w, l)
  PROVE  Tells(w, l, v, lineage)
<1> DEFINE n == Len(l)
           k == w.watermark
           c == w.compacted
           u == w.uncovered
           from == n - k + 1
<1>1. /\ w \in Window /\ c \in Nat /\ k \in Nat /\ u \in Seq(Nat)
      /\ k <= n /\ c < k /\ Len(u) = k - c
      /\ (\A i \in 1..Len(u) : u[i] = l[n - Len(u) + i].version)
      /\ Digests(l, from, w.digest) /\ l[n].version = v
  BY DEF Told, Based, Window
<1>2. n \in Nat
  OBVIOUS
<1>3. c \in Nat /\ k \in Nat /\ k <= n /\ c < k
  BY <1>1
<1> HIDE DEF n, k, c, u
<1>4. k \in 1..n /\ from \in 1..n
  BY <1>2, <1>3
<1>5. lineage \in Seq(Entry) /\ Len(lineage) = k /\ \A i \in 1..k : lineage[i] = l[n - k + i]
  <2>1. lineage = SubSeq(l, from, n)
    BY DEF n, k, Lineage
  <2>2. n - from + 1 = k /\ \A i \in 1..k : from + i - 1 = n - k + i
    BY <1>2, <1>3
  <2>a. from \in 1..n /\ n \in Nat /\ \A i \in from..n : l[i] \in Entry
    BY <1>2, <1>4 DEF n
  <2> HIDE DEF from
  <2>3. Len(lineage) = n - from + 1 /\ lineage \in Seq(Entry)
        /\ \A i \in 1..(n - from + 1) : lineage[i] = l[from + i - 1]
    <3>1. from \in Int /\ n \in Int /\ from <= n /\ \A i \in from..n : l[i] \in Entry
      BY <2>a
    <3>2. /\ SubSeq(l, from, n) \in Seq(Entry)
          /\ Len(SubSeq(l, from, n)) = IF from <= n THEN n - from + 1 ELSE 0
          /\ \A i \in 1..(n - from + 1) : SubSeq(l, from, n)[i] = l[from + i - 1]
      <4> DEFINE S == Entry
      <4>1. \A i \in from..n : l[i] \in S
        BY <3>1
      <4> HIDE DEF S
      <4>2. /\ SubSeq(l, from, n) \in Seq(S)
            /\ Len(SubSeq(l, from, n)) = IF from <= n THEN n - from + 1 ELSE 0
            /\ \A i \in 1..(n - from + 1) : SubSeq(l, from, n)[i] = l[from + i - 1]
        BY <3>1, <4>1, SubSeqProperties
      <4> QED BY <4>2 DEF S
    <3> QED BY <2>1, <3>1, <3>2
  <2> QED BY <2>2, <2>3
<1>6. DOMAIN lineage = 1..k
  BY <1>5
<1>7. lineage[k].version = v
  <2>1. k \in 1..k /\ n - k + k = n
    BY <1>2, <1>3
  <2> QED BY <1>1, <1>5, <2>1
<1>8. u = [i \in 1..(k - c) |-> lineage[c + i].version]
  <2>1. u \in Seq(Nat) /\ Len(u) = k - c
    BY <1>1
  <2>2. DOMAIN u = 1..(k - c) /\ u = [i \in DOMAIN u |-> u[i]]
    BY <2>1
  <2>3. ASSUME NEW i \in 1..(k - c)
        PROVE  u[i] = lineage[c + i].version
    <3>1. c + i \in 1..k /\ n - k + (c + i) = n - (k - c) + i
      BY <1>2, <1>3
    <3>2. u[i] = l[n - (k - c) + i].version
      BY <1>1, <2>1
    <3> QED BY <1>5, <3>1, <3>2
  <2> QED BY <2>2, <2>3
<1>9. w.digest = LatestComplete(lineage)
  <2> DEFINE done == {i \in DOMAIN lineage : lineage[i].complete}
  <2>1. CASE w.digest = 0 /\ \A i \in from..n : ~l[i].complete
    <3>1. ASSUME NEW i \in 1..k PROVE ~lineage[i].complete
      <4>1. n - k + i \in from..n
        BY <1>2, <1>3
      <4> QED BY <1>5, <2>1, <4>1
    <3>2. done = {}
      BY <1>6, <3>1
    <3> QED BY <2>1, <3>2 DEF LatestComplete
  <2>2. CASE \E i \in from..n : l[i].complete /\ l[i].version = w.digest
                                 /\ \A j \in (i + 1)..n : ~l[j].complete
    <3>1. PICK i \in from..n : l[i].complete /\ l[i].version = w.digest
                                /\ \A j \in (i + 1)..n : ~l[j].complete
      BY <2>2
    <3> DEFINE x == i - (n - k)
    <3>2. x \in 1..k /\ n - k + x = i
      BY <1>2, <1>3, <3>1
    <3> HIDE DEF x
    <3>3. lineage[x].complete /\ lineage[x].version = w.digest
      BY <1>5, <3>1, <3>2
    <3>4. ASSUME NEW j \in 1..k, lineage[j].complete PROVE j <= x
      <4>1. SUFFICES ASSUME ~(j <= x) PROVE FALSE
        OBVIOUS
      <4>2. n - k + j \in (i + 1)..n
        BY <1>2, <1>3, <3>1, <3>2, <4>1
      <4> QED BY <1>5, <3>1, <3>4, <4>2
    <3>5. x \in done /\ \A j \in done : j <= x
      BY <1>6, <3>2, <3>3, <3>4
    <3>i. x \in Int /\ \A j \in done : j \in Int
      BY <1>3, <1>6, <3>2
    <3>6. \A y \in done : (\A j \in done : j <= y) => y = x
      <4> HIDE DEF done
      <4> QED BY <3>5, <3>i
    <3>7. LatestComplete(lineage)
            = lineage[CHOOSE y \in done : \A j \in done : j <= y].version
      BY <3>5 DEF LatestComplete
    <3> HIDE DEF done
    <3>8. (CHOOSE y \in done : \A j \in done : j <= y) = x
      BY <3>5, <3>6
    <3> QED BY <3>3, <3>7, <3>8
  <2> QED BY <1>1, <2>1, <2>2 DEF Digests, n
<1> QED BY <1>3, <1>4, <1>7, <1>8, <1>9 DEF n, k, c, u, Tells

-----------------------------------------------------------------------------
(* The inductive invariant, task by task. *)

(* Turn c holds task t at version v after the turns of l. A turn that only    *)
(* switches away need not come after them: it leaves the task behind.         *)
Holds(c, t, v, l) ==
    /\ c \in Turn /\ c.task = t /\ c.version = v
    /\ Sound(c.planned) /\ Meant(c.planned, c.category)
    /\ Based(c.window, l)
    /\ c.switches => c.window = EmptyWindow
    /\ c.category # "switch_task" => After(c.planned, l)
    /\ c.category = "switch_task" => c.switches /\ c.planned.status # "clarification_required"

TaskOK(t, st, v, h, row, l, tn) ==
    /\ st \in {"active", "claimed"} =>
          /\ Sound(row.state) /\ After(row.state, l)
          /\ Told(row.window, l, v - (IF st = "claimed" THEN 1 ELSE 0))
    /\ st = "unissued" => h = {} /\ l = <<>>
    /\ h # {} => st = "claimed"
    /\ \A w \in h : Holds(tn[w], t, v, l)

Shape ==
    /\ status \in [Tasks -> Port!PortStatus]
    /\ version \in [Tasks -> Nat]
    /\ holders \in [Tasks -> SUBSET Workers]
    /\ store \in [Tasks -> [state: State, window: Window]]
    /\ turn \in [Workers -> Turn \cup {Idle}]
    /\ log \in [Tasks -> Seq(Entry)]

TurnInv ==
    /\ Shape
    /\ \A t \in Tasks :
          TaskOK(t, status[t], version[t], holders[t], store[t], log[t], turn)

LEMMA IdleIsNoTurn == Idle \notin Turn
<1> SUFFICES ASSUME Idle \in Turn PROVE FALSE
  OBVIOUS
<1>1. DOMAIN Idle = {"task", "switches", "category", "version", "planned", "window"}
  BY DEF Turn
<1>2. DOMAIN Idle = {"task"}
  BY DEF Idle
<1> QED BY <1>1, <1>2

LEMMA RowFacts ==
  /\ EmptyRow \in [state: State, window: Window]
  /\ EmptyRow.state = FreshState /\ EmptyRow.window = EmptyWindow
<1>1. FreshState \in State
  BY FreshIsSound DEF Sound
<1>2. EmptyWindow \in Window
  BY DEF EmptyWindow, Window
<1> QED BY <1>1, <1>2 DEF EmptyRow

(* What a turn files leaves its task as the invariant wants it. *)
LEMMA FiledOK ==
  ASSUME NEW l \in Seq(Entry), NEW p, Sound(p), NEW e \in Entry, Meant(p, e.category), After(p, l),
         NEW s, Sound(s), s.gen = p.gen, \A x \in ActiveIn(s) : x \in ActiveIn(p) \/ x.gen = p.gen,
         NEW b, Based(b, l), e.version # 0, e.gen = s.gen, NEW d \in Nat,
         e.complete => d = e.version, ~e.complete => d \in {0, b.digest},
         NEW row, row = [state |-> s, window |-> AppendTurn(b, e.version, d)], NEW t, NEW tn
  PROVE  /\ TaskOK(t, "active", e.version, {}, row, Append(l, e), tn)
         /\ row \in [state: State, window: Window]
         /\ Append(l, e) \in Seq(Entry)
<1> DEFINE v == e.version
<1>1. s \in State /\ p \in State /\ v \in Nat /\ e.category \in Categories
  BY DEF Sound, Entry
<1>6. After(s, Append(l, e))
  BY <1>1, FiledAfter
<1>7. Told(AppendTurn(b, v, d), Append(l, e), v)
  BY AppendTold
<1>8. AppendTurn(b, v, d) \in Window
  BY <1>7 DEF Told, Based
<1> HIDE DEF v
<1>9. row.state = s /\ row.window = AppendTurn(b, v, d)
  BY DEF v
<1>10. row \in [state: State, window: Window]
  BY <1>1, <1>8 DEF v
<1>11. v - 0 = v
  BY <1>1
<1>12. Append(l, e) \in Seq(Entry)
  OBVIOUS
<1>13. TaskOK(t, "active", v, {}, row, Append(l, e), tn)
  BY <1>6, <1>7, <1>9, <1>11 DEF TaskOK
<1> QED BY <1>10, <1>12, <1>13 DEF v

(* A task that has ended promises nothing. *)
LEMMA EndedOK ==
  ASSUME NEW t, NEW v, NEW row, NEW l, NEW tn,
         NEW st \in {"cancelled", "switched", "cleared", "expired"}
  PROVE  TaskOK(t, st, v, {}, row, l, tn)
  BY DEF TaskOK

(* Who holds a task. *)
LEMMA HolderFacts ==
  ASSUME TurnInv, NEW t \in Tasks, NEW w \in holders[t]
  PROVE  /\ w \in Workers /\ status[t] = "claimed"
         /\ Holds(turn[w], t, version[t], log[t])
         /\ turn[w] # Idle /\ turn[w].task = t
<1>1. TaskOK(t, status[t], version[t], holders[t], store[t], log[t], turn)
  BY DEF TurnInv
<1>2. Holds(turn[w], t, version[t], log[t]) /\ status[t] = "claimed"
  BY <1>1 DEF TaskOK
<1>3. turn[w] \in Turn /\ turn[w].task = t
  BY <1>2 DEF Holds
<1>4. w \in Workers
  BY DEF TurnInv, Shape
<1> QED BY <1>2, <1>3, <1>4, IdleIsNoTurn

(* Tasks a step does not touch, or only takes holders from. *)
LEMMA RestOK ==
  ASSUME TurnInv, Shape', NEW T,
         \A u \in Tasks \ T :
            /\ status'[u] = status[u] /\ version'[u] = version[u]
            /\ store'[u] = store[u] /\ log'[u] = log[u]
            /\ holders'[u] \subseteq holders[u]
            /\ \A x \in holders'[u] : turn'[x] = turn[x],
         \A u \in Tasks \cap T :
            TaskOK(u, status'[u], version'[u], holders'[u], store'[u], log'[u], turn')
  PROVE  TurnInv'
<1> SUFFICES ASSUME NEW u \in Tasks, u \notin T
             PROVE TaskOK(u, status'[u], version'[u], holders'[u], store'[u], log'[u], turn')
  BY DEF TurnInv
<1>1. TaskOK(u, status[u], version[u], holders[u], store[u], log[u], turn)
  BY DEF TurnInv
<1>2. /\ status'[u] = status[u] /\ version'[u] = version[u]
      /\ store'[u] = store[u] /\ log'[u] = log[u]
      /\ holders'[u] \subseteq holders[u]
  OBVIOUS
<1>3. \A x \in holders'[u] : x \in holders[u] /\ turn'[x] = turn[x]
  BY <1>2
<1> DEFINE st == status[u]
           v == version[u]
           row == store[u]
           l == log[u]
<1> HIDE DEF st, v, row, l
<1>4. TaskOK(u, st, v, holders'[u], row, l, turn')
  <2>1. TaskOK(u, st, v, holders[u], row, l, turn)
    BY <1>1 DEF st, v, row, l
  <2>2. \A x \in holders'[u] : Holds(turn'[x], u, v, l)
    BY <1>3, <2>1 DEF TaskOK
  <2>3. holders[u] = {} => holders'[u] = {}
    BY <1>2
  <2> QED BY <2>1, <2>2, <2>3 DEF TaskOK
<1> QED BY <1>2, <1>4 DEF st, v, row, l

LEMMA InitHolds == Init => TurnInv
<1> SUFFICES ASSUME Init PROVE TurnInv
  OBVIOUS
<1>1. /\ status = [t \in Tasks |-> "unissued"] /\ version = [t \in Tasks |-> 0]
      /\ holders = [t \in Tasks |-> {}] /\ store = [t \in Tasks |-> EmptyRow]
      /\ turn = [w \in Workers |-> Idle] /\ log = [t \in Tasks |-> <<>>]
  BY DEF Init, Port!PortInit
<1>2. Shape
  BY <1>1, RowFacts DEF Shape, Port!PortStatus
<1>3. ASSUME NEW t \in Tasks
      PROVE  TaskOK(t, status[t], version[t], holders[t], store[t], log[t], turn)
  BY <1>1 DEF TaskOK
<1> QED BY <1>2, <1>3 DEF TurnInv

-----------------------------------------------------------------------------
(* Every step keeps it. *)

(* A worker holds only the task of its turn. *)
LEMMA Elsewhere ==
  ASSUME TurnInv, NEW w, NEW u \in Tasks, turn[w] = Idle \/ turn[w].task # u
  PROVE  w \notin holders[u]
  BY HolderFacts

(* A worker's turn: what it is while it is not idle, and the windows it may use. *)
LEMMA TurnFacts ==
  ASSUME TurnInv, NEW w \in Workers, turn[w] # Idle
  PROVE  turn[w] \in Turn /\ turn[w].task \in Tasks /\ turn[w].version \in Nat
         /\ turn[w].category \in Categories
  BY DEF TurnInv, Shape, Turn

LEMMA BasesFacts ==
  ASSUME TurnInv, NEW w \in Workers, NEW t \in Tasks, w \in holders[t], NEW b \in BaseWindows(w)
  PROVE  /\ Based(b, log[t])
         /\ turn[w].switches => b = EmptyWindow
<1>1. Holds(turn[w], t, version[t], log[t]) /\ log[t] \in Seq(Entry)
  BY HolderFacts DEF TurnInv, Shape
<1>2. Based(turn[w].window, log[t]) /\ (turn[w].switches => turn[w].window = EmptyWindow)
  BY <1>1 DEF Holds
<1>3. CASE turn[w].switches
  BY <1>2, <1>3 DEF BaseWindows
<1>4. CASE ~turn[w].switches
  <2>1. PICK heavy \in BOOLEAN : b \in Prepared(turn[w].window, heavy)
    BY <1>4 DEF BaseWindows
  <2>2. Based(b, log[t])
    BY <1>1, <1>2, <2>1, PreparedIsBased
  <2> QED BY <1>4, <2>2
<1> QED BY <1>3, <1>4

(* The end of a turn, as far as it concerns the other tasks. *)
LEMMA EndsTurn ==
  ASSUME TurnInv, Shape', NEW w \in Workers, NEW T, turn[w] # Idle, turn[w].task \in T,
         turn' = [turn EXCEPT ![w] = Idle],
         \A u \in Tasks \ T :
            /\ status'[u] = status[u] /\ version'[u] = version[u]
            /\ store'[u] = store[u] /\ log'[u] = log[u]
            /\ holders'[u] = holders[u],
         \A u \in Tasks \cap T :
            TaskOK(u, status'[u], version'[u], holders'[u], store'[u], log'[u], turn')
  PROVE  TurnInv'
<1>1. ASSUME NEW u \in Tasks \ T, NEW x \in holders'[u] PROVE turn'[x] = turn[x]
  <2>1. x \in holders[u] /\ turn[w].task # u
    BY <1>1
  <2>2. x # w
    BY <1>1, <2>1, Elsewhere
  <2>3. x \in Workers
    BY <1>1, <2>1, HolderFacts
  <2> QED BY <2>2, <2>3 DEF TurnInv, Shape
<1>2. \A u \in Tasks \ T :
        /\ status'[u] = status[u] /\ version'[u] = version[u]
        /\ store'[u] = store[u] /\ log'[u] = log[u]
        /\ holders'[u] \subseteq holders[u]
        /\ \A x \in holders'[u] : turn'[x] = turn[x]
  BY <1>1
<1> QED BY <1>2, RestOK

(* A turn that commits on the task it claimed. *)
LEMMA CommitKeeps ==
  ASSUME TurnInv, NEW w \in Workers, NEW t \in Tasks, turn[w] # Idle, turn[w].task = t,
         Port!Commit(w, t, "active"), turn[w].category # "switch_task",
         NEW b \in BaseWindows(w), NEW s, Sound(s), s.gen = turn[w].planned.gen,
         \A x \in ActiveIn(s) : x \in ActiveIn(turn[w].planned) \/ x.gen = turn[w].planned.gen,
         NEW done \in BOOLEAN, NEW d \in Nat, NEW v, v = turn[w].version + 1,
         done => d = v, ~done => d \in {0, b.digest},
         Put(t, v, turn[w].category, s, AppendTurn(b, v, d), done),
         turn' = [turn EXCEPT ![w] = Idle]
  PROVE  TurnInv'
<1>1. /\ status[t] = "claimed" /\ holders[t] = {w}
      /\ status' = [status EXCEPT ![t] = "active"]
      /\ version' = [version EXCEPT ![t] = version[t] + 1]
      /\ holders' = [holders EXCEPT ![t] = {}]
  BY DEF Port!Commit, TurnInv, Shape
<1>2. Shape
  BY DEF TurnInv
<1>3. Holds(turn[w], t, version[t], log[t]) /\ log[t] \in Seq(Entry) /\ version[t] \in Nat
  BY <1>1, <1>2, HolderFacts DEF Shape
<1>4. /\ Sound(turn[w].planned) /\ Meant(turn[w].planned, turn[w].category)
      /\ After(turn[w].planned, log[t]) /\ turn[w].version = version[t]
      /\ turn[w].category \in Categories
  BY <1>3, TurnFacts DEF Holds
<1>5. Based(b, log[t])
  BY <1>1, BasesFacts
<1>6. v \in Nat /\ v # 0 /\ v = version[t] + 1
  BY <1>3, <1>4
<1> DEFINE e == [version |-> v, category |-> turn[w].category, gen |-> s.gen, complete |-> done]
           row == [state |-> s, window |-> AppendTurn(b, v, d)]
<1>7. store' = [store EXCEPT ![t] = row] /\ log' = [log EXCEPT ![t] = Append(log[t], e)]
  BY <1>2 DEF Put, Shape
<1>8. /\ TaskOK(t, "active", v, {}, row, Append(log[t], e), turn')
      /\ row \in [state: State, window: Window]
      /\ Append(log[t], e) \in Seq(Entry)
  <2> DEFINE p == turn[w].planned
             l == log[t]
  <2>1. /\ Sound(p) /\ Meant(p, turn[w].category) /\ After(p, l) /\ l \in Seq(Entry)
        /\ s.gen = p.gen /\ Based(b, l) /\ s.gen \in Nat
        /\ (\A x \in ActiveIn(s) : x \in ActiveIn(p) \/ x.gen = p.gen)
    BY <1>3, <1>4, <1>5 DEF Sound, State
  <2>2. e \in Entry /\ e.version = v /\ e.gen = s.gen /\ e.category = turn[w].category
    BY <1>4, <1>6, <2>1 DEF Entry
  <2>3. e.complete = done
    OBVIOUS
  <2> HIDE DEF e
  <2>4. e.complete => d = e.version
    BY <2>2, <2>3
  <2>5. ~e.complete => d \in {0, b.digest}
    BY <2>3
  <2>6. row = [state |-> s, window |-> AppendTurn(b, e.version, d)]
    BY <2>2
  <2>7. Meant(p, e.category) /\ e.version # 0
    BY <1>6, <2>1, <2>2
  <2> HIDE DEF p, l, row
  <2>8. /\ TaskOK(t, "active", e.version, {}, row, Append(l, e), turn')
        /\ row \in [state: State, window: Window]
        /\ Append(l, e) \in Seq(Entry)
    BY <2>1, <2>2, <2>4, <2>5, <2>6, <2>7, FiledOK
  <2> QED BY <2>2, <2>8 DEF l
<1> HIDE DEF e, row
<1>9. Shape'
  BY <1>1, <1>2, <1>6, <1>7, <1>8 DEF Shape, Port!PortStatus, Port!PortLive
<1>10. /\ status'[t] = "active" /\ version'[t] = v /\ holders'[t] = {}
       /\ store'[t] = row /\ log'[t] = Append(log[t], e)
  BY <1>1, <1>2, <1>6, <1>7 DEF Shape
<1>11. TaskOK(t, status'[t], version'[t], holders'[t], store'[t], log'[t], turn')
  BY <1>8, <1>10
<1>12. \A u \in Tasks \ {t} :
          /\ status'[u] = status[u] /\ version'[u] = version[u]
          /\ store'[u] = store[u] /\ log'[u] = log[u]
          /\ holders'[u] = holders[u]
  BY <1>1, <1>2, <1>7 DEF Shape
<1> DEFINE T == {t}
<1>13. turn[w].task \in T /\ \A u \in Tasks \cap T :
          TaskOK(u, status'[u], version'[u], holders'[u], store'[u], log'[u], turn')
  BY <1>11
<1>14. \A u \in Tasks \ T :
          /\ status'[u] = status[u] /\ version'[u] = version[u]
          /\ store'[u] = store[u] /\ log'[u] = log[u]
          /\ holders'[u] = holders[u]
  BY <1>12
<1> HIDE DEF T
<1> QED BY <1>9, <1>13, <1>14, EndsTurn

LEMMA ClarifyKeeps == ASSUME TurnInv, NEW w \in Workers, Clarify(w) PROVE TurnInv'
<1> DEFINE t == turn[w].task
           p == turn[w].planned
<1>1. turn[w] # Idle /\ p.status = "clarification_required" /\ Port!Commit(w, t, "active")
      /\ turn' = [turn EXCEPT ![w] = Idle]
  BY DEF Clarify
<1>2. PICK b \in BaseWindows(w) :
        Put(t, turn[w].version + 1, turn[w].category, p,
            AppendTurn(b, turn[w].version + 1, 0), FALSE)
  BY DEF Clarify
<1>3. t \in Tasks /\ w \in holders[t]
  BY <1>1, TurnFacts DEF Port!Commit
<1>4. Sound(p) /\ turn[w].category # "switch_task"
  BY <1>1, <1>3, HolderFacts DEF Holds
<1> QED BY <1>1, <1>2, <1>3, <1>4, CommitKeeps

LEMMA ReplayKeeps == ASSUME TurnInv, NEW w \in Workers, Replay(w) PROVE TurnInv'
<1> DEFINE t == turn[w].task
           p == turn[w].planned
<1>1. /\ turn[w] # Idle /\ turn[w].category = "ask_about_existing_result"
      /\ Port!Commit(w, t, "active") /\ turn' = [turn EXCEPT ![w] = Idle]
  BY DEF Replay
<1>2. PICK b \in BaseWindows(w) :
        Put(t, turn[w].version + 1, turn[w].category, p,
            AppendTurn(b, turn[w].version + 1, b.digest), FALSE)
  BY DEF Replay
<1>3. t \in Tasks /\ w \in holders[t]
  BY <1>1, TurnFacts DEF Port!Commit
<1>4. Sound(p) /\ turn[w].category # "switch_task"
  BY <1>1, <1>3, HolderFacts DEF Holds
<1>5. b.digest \in Nat
  BY <1>3, BasesFacts DEF Based, Window
<1> QED BY <1>1, <1>2, <1>3, <1>4, <1>5, CommitKeeps

LEMMA ContinueKeeps == ASSUME TurnInv, NEW w \in Workers, ContinueTurn(w) PROVE TurnInv'
<1> DEFINE t == turn[w].task
           p == turn[w].planned
           v == turn[w].version + 1
<1>1. /\ turn[w] # Idle /\ ~turn[w].switches
      /\ Port!Commit(w, t, "active") /\ turn' = [turn EXCEPT ![w] = Idle]
  BY DEF ContinueTurn, NeedsLoop
<1>2. PICK b \in BaseWindows(w), end \in LoopEnds(p) :
        Put(t, v, turn[w].category, end.state,
            AppendTurn(b, v, IF end.complete THEN v ELSE 0), end.complete)
  BY DEF ContinueTurn
<1>3. t \in Tasks /\ w \in holders[t] /\ v \in Nat
  BY <1>1, TurnFacts DEF Port!Commit
<1>4. Sound(p) /\ turn[w].category # "switch_task"
  BY <1>1, <1>3, HolderFacts DEF Holds
<1>5. /\ Sound(end.state) /\ end.state.gen = p.gen /\ end.complete \in BOOLEAN
      /\ \A x \in ActiveIn(end.state) : x \in ActiveIn(p) \/ x.gen = p.gen
  BY <1>4, LoopFacts
<1> DEFINE d == IF end.complete THEN v ELSE 0
<1>6. d \in Nat /\ (end.complete => d = v) /\ (~end.complete => d \in {0, b.digest})
  BY <1>3
<1> HIDE DEF d
<1> QED BY <1>1, <1>2, <1>3, <1>4, <1>5, <1>6, CommitKeeps DEF d

LEMMA CancelKeeps == ASSUME TurnInv, NEW w \in Workers, Cancel(w) PROVE TurnInv'
<1> DEFINE t == turn[w].task
           T == {t}
<1>1. /\ turn[w] # Idle /\ turn' = [turn EXCEPT ![w] = Idle]
      /\ store' = [store EXCEPT ![t] = EmptyRow] /\ log' = log
      /\ status' = [status EXCEPT ![t] = "cancelled"]
      /\ version' = [version EXCEPT ![t] = version[t] + 1]
      /\ holders' = [holders EXCEPT ![t] = {}]
  BY TurnFacts DEF Cancel, Port!Commit, TurnInv, Shape
<1>2. t \in Tasks /\ Shape
  BY <1>1, TurnFacts DEF TurnInv
<1>3. Shape'
  BY <1>1, <1>2, RowFacts DEF Shape, Port!PortStatus, Port!PortEnded
<1>4. status'[t] = "cancelled" /\ holders'[t] = {}
  BY <1>1, <1>2 DEF Shape
<1>5. TaskOK(t, status'[t], version'[t], holders'[t], store'[t], log'[t], turn')
  BY <1>4, EndedOK
<1>6. turn[w].task \in T /\ \A u \in Tasks \cap T :
         TaskOK(u, status'[u], version'[u], holders'[u], store'[u], log'[u], turn')
  BY <1>5
<1>7. \A u \in Tasks \ T :
         /\ status'[u] = status[u] /\ version'[u] = version[u]
         /\ store'[u] = store[u] /\ log'[u] = log[u]
         /\ holders'[u] = holders[u]
  BY <1>1, <1>2 DEF Shape
<1> HIDE DEF T, t
<1> QED BY <1>1, <1>3, <1>6, <1>7, EndsTurn

(* A switch: the old task ends, and the new one starts from the turn alone. *)
LEMMA SwitchKeeps == ASSUME TurnInv, NEW w \in Workers, SwitchTurn(w) PROVE TurnInv'
<1> DEFINE old == turn[w].task
           p == turn[w].planned
           c == turn[w].category
<1>1. /\ turn[w] # Idle /\ turn[w].switches /\ turn' = [turn EXCEPT ![w] = Idle]
      /\ \E new \in Tasks :
           /\ Port!Switch(w, old, new)
           /\ \E base \in BaseWindows(w), end \in LoopEnds(p) :
                /\ store' = [store EXCEPT
                      ![old] = EmptyRow,
                      ![new] = [state |-> end.state,
                                window |-> AppendTurn(base, 1, IF end.complete THEN 1 ELSE 0)]]
                /\ log' = [log EXCEPT ![new] = Append(log[new],
                      [version |-> 1, category |-> c,
                       gen |-> end.state.gen, complete |-> end.complete])]
  BY DEF SwitchTurn, NeedsLoop, TurnInv, Shape
<1>2. PICK new \in Tasks, base \in BaseWindows(w), end \in LoopEnds(p) :
        /\ Port!Switch(w, old, new)
        /\ store' = [store EXCEPT
              ![old] = EmptyRow,
              ![new] = [state |-> end.state,
                        window |-> AppendTurn(base, 1, IF end.complete THEN 1 ELSE 0)]]
        /\ log' = [log EXCEPT ![new] = Append(log[new],
              [version |-> 1, category |-> c,
               gen |-> end.state.gen, complete |-> end.complete])]
  BY <1>1
<1>3. old \in Tasks /\ Shape /\ c \in Categories
  BY <1>1, TurnFacts DEF TurnInv
<1>4. /\ status[old] = "claimed" /\ w \in holders[old] /\ status[new] = "unissued"
      /\ status' = [status EXCEPT ![old] = "switched", ![new] = "active"]
      /\ version' = [version EXCEPT ![old] = version[old] + 1, ![new] = 1]
      /\ holders' = [holders EXCEPT ![old] = {}]
  BY <1>2, <1>3 DEF Port!Switch, Shape
<1>5. old # new
  BY <1>4
<1>6. log[new] = <<>> /\ holders[new] = {}
  BY <1>4 DEF TurnInv, TaskOK
<1>7. Sound(p) /\ Meant(p, c)
  BY <1>3, <1>4, HolderFacts DEF Holds
<1>8. base = EmptyWindow
  BY <1>1, <1>3, <1>4, BasesFacts
<1>9. /\ Sound(end.state) /\ end.state.gen = p.gen /\ end.complete \in BOOLEAN
      /\ \A x \in ActiveIn(end.state) : x \in ActiveIn(p) \/ x.gen = p.gen
  BY <1>7, LoopFacts
<1> DEFINE s == end.state
           d == IF end.complete THEN 1 ELSE 0
           e == [version |-> 1, category |-> c, gen |-> s.gen, complete |-> end.complete]
           row == [state |-> s, window |-> AppendTurn(base, e.version, d)]
           l == log[new]
<1>10. e \in Entry /\ e.version = 1 /\ e.gen = s.gen /\ e.category = c
  BY <1>3, <1>9 DEF Entry, Sound, State
<1>11. e.complete = end.complete
  OBVIOUS
<1>12. row = [state |-> s, window |-> AppendTurn(base, e.version, d)]
  OBVIOUS
<1>13. log' = [log EXCEPT ![new] = Append(l, e)]
  BY <1>2
<1>14. store' = [store EXCEPT ![old] = EmptyRow, ![new] = row]
  BY <1>2
<1> HIDE DEF e, row
<1>15. d \in Nat /\ (e.complete => d = e.version) /\ (~e.complete => d \in {0, base.digest})
  <2>1. CASE end.complete
    BY <1>10, <1>11, <2>1
  <2>2. CASE ~end.complete
    BY <1>10, <1>11, <2>2
  <2> QED BY <1>9, <2>1, <2>2
<1> HIDE DEF d
<1>16. l \in Seq(Entry) /\ Based(base, l)
  BY <1>3, <1>8, EmptyIsBased DEF Shape
<1>17. After(p, l)
  BY <1>6 DEF After
<1>18. e.version # 0 /\ Meant(p, e.category)
  BY <1>7, <1>10
<1>19. /\ Sound(s) /\ s.gen = p.gen
       /\ \A x \in ActiveIn(s) : x \in ActiveIn(p) \/ x.gen = p.gen
  BY <1>9
<1> HIDE DEF s, p, c, l
<1>20. /\ TaskOK(new, "active", e.version, {}, row, Append(l, e), turn')
       /\ row \in [state: State, window: Window]
       /\ Append(l, e) \in Seq(Entry)
  BY <1>7, <1>10, <1>12, <1>15, <1>16, <1>17, <1>18, <1>19, FiledOK
<1> HIDE DEF old
<1>21. Shape'
  <2>1. status' \in [Tasks -> Port!PortStatus]
    BY <1>3, <1>4 DEF Shape, Port!PortStatus, Port!PortLive, Port!PortEnded
  <2>2. version' \in [Tasks -> Nat] /\ holders' \in [Tasks -> SUBSET Workers]
    BY <1>3, <1>4 DEF Shape
  <2>3. store' \in [Tasks -> [state: State, window: Window]]
    BY <1>3, <1>14, <1>20, RowFacts DEF Shape
  <2>4. log' \in [Tasks -> Seq(Entry)] /\ turn' \in [Workers -> Turn \cup {Idle}]
    BY <1>1, <1>3, <1>13, <1>20 DEF Shape
  <2> QED BY <2>1, <2>2, <2>3, <2>4 DEF Shape
<1>22. /\ status'[new] = "active" /\ version'[new] = 1 /\ holders'[new] = {}
       /\ store'[new] = row /\ log'[new] = Append(l, e)
  BY <1>3, <1>4, <1>5, <1>6, <1>13, <1>14 DEF Shape
<1>23. TaskOK(new, status'[new], version'[new], holders'[new], store'[new], log'[new], turn')
  BY <1>10, <1>20, <1>22
<1>24. status'[old] = "switched" /\ holders'[old] = {}
  BY <1>3, <1>4, <1>5 DEF Shape
<1>25. TaskOK(old, status'[old], version'[old], holders'[old], store'[old], log'[old], turn')
  BY <1>24, EndedOK
<1> DEFINE T == {old, new}
<1>26. turn[w].task \in T /\ \A u \in Tasks \cap T :
         TaskOK(u, status'[u], version'[u], holders'[u], store'[u], log'[u], turn')
  BY <1>23, <1>25 DEF old
<1>27. \A u \in Tasks \ T :
         /\ status'[u] = status[u] /\ version'[u] = version[u]
         /\ store'[u] = store[u] /\ log'[u] = log[u]
         /\ holders'[u] = holders[u]
  BY <1>3, <1>4, <1>13, <1>14 DEF Shape
<1> HIDE DEF T
<1> QED BY <1>1, <1>21, <1>26, <1>27, EndsTurn

LEMMA RefuseKeeps == ASSUME TurnInv, NEW w \in Workers, Refuse(w) PROVE TurnInv'
<1> DEFINE t == turn[w].task
           T == {}
<1>1. /\ turn[w] # Idle /\ turn' = [turn EXCEPT ![w] = Idle]
      /\ store' = store /\ log' = log /\ status' = status /\ version' = version
      /\ holders' = [holders EXCEPT ![t] = holders[t] \ {w}]
  BY TurnFacts DEF Refuse, Port!Abandon, TurnInv, Shape
<1>2. t \in Tasks /\ Shape
  BY <1>1, TurnFacts DEF TurnInv
<1>3. Shape'
  BY <1>1, <1>2 DEF Shape
<1>4. \A u \in Tasks : holders'[u] \subseteq holders[u] /\ w \notin holders'[u]
  BY <1>1, <1>2, Elsewhere DEF Shape
<1>5. \A u \in Tasks : \A x \in holders'[u] : turn'[x] = turn[x]
  BY <1>1, <1>2, <1>4 DEF Shape
<1>6. \A u \in Tasks \ T :
         /\ status'[u] = status[u] /\ version'[u] = version[u]
         /\ store'[u] = store[u] /\ log'[u] = log[u]
         /\ holders'[u] \subseteq holders[u]
         /\ \A x \in holders'[u] : turn'[x] = turn[x]
  BY <1>1, <1>4, <1>5
<1>7. \A u \in Tasks \cap T :
         TaskOK(u, status'[u], version'[u], holders'[u], store'[u], log'[u], turn')
  OBVIOUS
<1> HIDE DEF T
<1> QED BY <1>3, <1>6, <1>7, RestOK

LEMMA MissKeeps == ASSUME TurnInv, NEW w \in Workers, Miss(w) PROVE TurnInv'
<1> DEFINE t == turn[w].task
           T == {}
<1>1. /\ turn[w] # Idle /\ turn' = [turn EXCEPT ![w] = Idle] /\ w \notin holders[t]
      /\ store' = store /\ log' = log /\ status' = status /\ version' = version
      /\ holders' = holders
  BY DEF Miss, boundary
<1>2. t \in Tasks /\ Shape
  BY <1>1, TurnFacts DEF TurnInv
<1>3. Shape'
  BY <1>1, <1>2 DEF Shape
<1>4. \A u \in Tasks : w \notin holders[u]
  BY <1>1, Elsewhere
<1>5. \A u \in Tasks : \A x \in holders'[u] : turn'[x] = turn[x]
  BY <1>1, <1>2, <1>4 DEF Shape
<1>6. \A u \in Tasks \ T :
         /\ status'[u] = status[u] /\ version'[u] = version[u]
         /\ store'[u] = store[u] /\ log'[u] = log[u]
         /\ holders'[u] \subseteq holders[u]
         /\ \A x \in holders'[u] : turn'[x] = turn[x]
  BY <1>1, <1>5
<1>7. \A u \in Tasks \cap T :
         TaskOK(u, status'[u], version'[u], holders'[u], store'[u], log'[u], turn')
  OBVIOUS
<1> HIDE DEF T
<1> QED BY <1>3, <1>6, <1>7, RestOK

(* A claim: the turn holds the task, and has planned from its row. *)
LEMMA ClaimKeeps ==
  ASSUME TurnInv, NEW w \in Workers, NEW t \in Tasks, NEW text \in Texts,
         NEW action \in {"continue", "switch", "cancel"}, ClaimTurn(w, t, action, text)
  PROVE  TurnInv'
<1> DEFINE old == store[t].state
           started == TRUE
           delta == Understand(text, action, started, old)
           p == ApplyDelta(delta, started, old)
           window == IF action = "switch" THEN EmptyWindow ELSE store[t].window
           c == [task |-> t, switches |-> action = "switch", category |-> delta.category,
                 version |-> version[t] + 1, planned |-> p, window |-> window]
           l == log[t]
           T == {t}
<1>1. /\ turn[w] = Idle /\ Shape /\ status[t] = "active" /\ holders[t] = {}
      /\ status' = [status EXCEPT ![t] = "claimed"]
      /\ version' = [version EXCEPT ![t] = version[t] + 1]
      /\ holders' = [holders EXCEPT ![t] = {w}]
      /\ turn' = [turn EXCEPT ![w] = c]
      /\ store' = store /\ log' = log
  BY DEF ClaimTurn, Port!Claim, TurnInv, Shape
<1>2. /\ Sound(old) /\ After(old, l) /\ Told(store[t].window, l, version[t] - 0)
      /\ l \in Seq(Entry) /\ version[t] \in Nat
  BY <1>1 DEF TurnInv, TaskOK, Shape
<1>s. started \in BOOLEAN /\ started # FALSE
  OBVIOUS
<1> HIDE DEF started
<1>3. delta.category = Category(text, action, started) /\ delta.category \in Categories
  <2>1. action \in Actions /\ old \in State
    BY <1>2 DEF Actions, Sound
  <2>2. delta.category = Category(text, action, started)
    BY <1>s, <2>1, DeltaFacts
  <2> QED BY <1>s, <2>1, <2>2, CategoryFacts
<1>4. /\ Sound(p) /\ Meant(p, delta.category)
      /\ delta.category = "switch_task" =>
            action = "switch" /\ p.status # "clarification_required"
      /\ delta.category # "switch_task" =>
            old.gen <= p.gen /\ ActiveIn(p) \subseteq ActiveIn(old)
  <2>1. delta = Understand(text, action, started, old)
    OBVIOUS
  <2>2. p = ApplyDelta(delta, started, old)
    OBVIOUS
  <2> HIDE DEF p, delta, old
  <2> QED BY <1>2, <1>s, <2>1, <2>2, PlanFacts
<1>c. c = [task |-> t, switches |-> action = "switch", category |-> delta.category,
           version |-> version[t] + 1, planned |-> p, window |-> window]
  OBVIOUS
<1>w. window = IF action = "switch" THEN EmptyWindow ELSE store[t].window
  OBVIOUS
<1> DEFINE cat == delta.category
           away == action = "switch"
<1>a. away \in BOOLEAN
  OBVIOUS
<1> HIDE DEF p, c, old, delta, l, window
<1>5. Based(window, l) /\ window \in Window
  <2>1. Based(EmptyWindow, l) /\ Based(store[t].window, l)
    BY <1>2, EmptyIsBased DEF Told
  <2> QED BY <1>w, <2>1 DEF Based
<1>6. c.task = t /\ c.category = cat /\ c.planned = p /\ c.window = window
      /\ c.version = version[t] + 1
  BY <1>c
<1>7. c.switches = away
  BY <1>c
<1>8. c \in Turn
  <2>1. p \in State /\ version[t] + 1 \in Nat /\ cat \in Categories
    BY <1>2, <1>3, <1>4 DEF Sound
  <2> HIDE DEF away, cat
  <2>2. c = [task |-> t, switches |-> away, category |-> cat,
             version |-> version[t] + 1, planned |-> p, window |-> window]
    BY <1>c DEF away, cat
  <2> QED BY <1>5, <1>a, <2>1, <2>2 DEF Turn
<1>9. cat # "switch_task" => After(p, l)
  <2> SUFFICES ASSUME cat # "switch_task" PROVE After(p, l)
    OBVIOUS
  <2>1. old.gen <= p.gen /\ ActiveIn(p) \subseteq ActiveIn(old)
    BY <1>4
  <2>2. old.gen \in Nat /\ p.gen \in Nat /\ \A i \in DOMAIN l : l[i].gen \in Nat
    <3>1. old.gen \in Nat /\ p.gen \in Nat
      BY <1>2, <1>4 DEF Sound, State
    <3>2. \A i \in DOMAIN l : l[i] \in Entry
      BY <1>2
    <3> QED BY <3>1, <3>2 DEF Entry
  <2>3. \A i \in DOMAIN l : l[i].gen <= p.gen
    BY <1>2, <2>1, <2>2 DEF After
  <2> QED BY <1>2, <2>1, <2>3 DEF After
<1>10. Holds(c, t, version[t] + 1, l)
  <2>1. c.switches => c.window = EmptyWindow
    BY <1>6, <1>7, <1>w
  <2>2. c.category = "switch_task" =>
           c.switches /\ c.planned.status # "clarification_required"
    BY <1>4, <1>6, <1>7
  <2> HIDE DEF away, cat
  <2>3. Sound(c.planned) /\ Meant(c.planned, c.category) /\ Based(c.window, l)
        /\ (c.category # "switch_task" => After(c.planned, l))
    BY <1>4, <1>5, <1>6, <1>9 DEF cat
  <2> QED BY <1>6, <1>8, <2>1, <2>2, <2>3 DEF Holds
<1>11. Shape'
  <2>1. status' \in [Tasks -> Port!PortStatus]
    BY <1>1 DEF Shape, Port!PortStatus, Port!PortLive
  <2>2. version' \in [Tasks -> Nat] /\ holders' \in [Tasks -> SUBSET Workers]
    BY <1>1, <1>2 DEF Shape
  <2>3. turn' \in [Workers -> Turn \cup {Idle}]
    BY <1>1, <1>8 DEF Shape
  <2> QED BY <1>1, <2>1, <2>2, <2>3 DEF Shape
<1>12. /\ status'[t] = "claimed" /\ version'[t] = version[t] + 1 /\ holders'[t] = {w}
       /\ store'[t] = store[t] /\ log'[t] = l /\ turn'[w] = c
  BY <1>1 DEF Shape, l
<1>13. TaskOK(t, status'[t], version'[t], holders'[t], store'[t], log'[t], turn')
  <2>3. \A x \in {w} : Holds(turn'[x], t, version[t] + 1, l)
    BY <1>10, <1>12
  <2>4. TaskOK(t, "claimed", version[t] + 1, {w}, store[t], l, turn')
    <3> DEFINE v == version[t] + 1
               row == store[t]
    <3>0. v - 1 = version[t] - 0
      BY <1>2
    <3>1. Sound(row.state) /\ After(row.state, l) /\ Told(row.window, l, v - 1)
      <4> HIDE DEF v
      <4> QED BY <1>2, <3>0 DEF old
    <3>2. \A x \in {w} : Holds(turn'[x], t, v, l)
      BY <2>3
    <3> HIDE DEF v, row
    <3>3. TaskOK(t, "claimed", v, {w}, row, l, turn')
      BY <3>1, <3>2 DEF TaskOK
    <3> QED BY <3>3 DEF v, row
  <2> QED BY <1>12, <2>4
<1>14. \A u \in Tasks \cap T :
         TaskOK(u, status'[u], version'[u], holders'[u], store'[u], log'[u], turn')
  BY <1>13
<1>15. \A u \in Tasks : \A x \in holders[u] : x # w /\ x \in Workers
  BY <1>1, Elsewhere, HolderFacts
<1>16. \A u \in Tasks \ T :
         /\ status'[u] = status[u] /\ version'[u] = version[u]
         /\ store'[u] = store[u] /\ log'[u] = log[u]
         /\ holders'[u] = holders[u]
  BY <1>1 DEF Shape
<1>17. \A u \in Tasks \ T : \A x \in holders'[u] : turn'[x] = turn[x]
  BY <1>1, <1>15, <1>16 DEF Shape
<1>18. \A u \in Tasks \ T :
         /\ status'[u] = status[u] /\ version'[u] = version[u]
         /\ store'[u] = store[u] /\ log'[u] = log[u]
         /\ holders'[u] \subseteq holders[u]
         /\ \A x \in holders'[u] : turn'[x] = turn[x]
  BY <1>16, <1>17
<1> HIDE DEF T
<1> QED BY <1>11, <1>14, <1>18, RestOK

(* A start files the first turn of a task, complete or not. *)
LEMMA StartFiles ==
  ASSUME TurnInv, NEW t \in Tasks, Port!Issue(t), UNCHANGED turn,
         NEW p, Sound(p), NEW c \in Categories, p.evidence = {},
         NEW s, Sound(s), s.gen = p.gen, \A x \in ActiveIn(s) : x \in ActiveIn(p) \/ x.gen = p.gen,
         NEW done \in BOOLEAN, NEW d \in Nat, done => d = 1, ~done => d = 0,
         Put(t, 1, c, s, AppendTurn(EmptyWindow, 1, d), done)
  PROVE  TurnInv'
<1> DEFINE e == [version |-> 1, category |-> c, gen |-> s.gen, complete |-> done]
           row == [state |-> s, window |-> AppendTurn(EmptyWindow, e.version, d)]
           l == log[t]
           T == {t}
<1>1. /\ Shape /\ status[t] = "unissued" /\ turn' = turn
      /\ status' = [status EXCEPT ![t] = "active"]
      /\ version' = [version EXCEPT ![t] = 1]
      /\ holders' = holders
  BY DEF Port!Issue, TurnInv
<1>2. store' = [store EXCEPT ![t] = row] /\ log' = [log EXCEPT ![t] = Append(l, e)]
  BY <1>1 DEF Put, Shape
<1>3. l = <<>> /\ holders[t] = {}
  BY <1>1 DEF TurnInv, TaskOK
<1>4. l \in Seq(Entry) /\ After(p, l) /\ Based(EmptyWindow, l)
  <2>1. l \in Seq(Entry)
    BY <1>1 DEF Shape
  <2>2. DOMAIN l = {}
    BY <1>3
  <2> HIDE DEF l
  <2> QED BY <2>1, <2>2, EmptyIsBased DEF After
<1>5. e \in Entry /\ e.version = 1 /\ e.gen = s.gen /\ e.category = c
  BY DEF Entry, Sound, State
<1>6. e.complete = done
  OBVIOUS
<1>7. row = [state |-> s, window |-> AppendTurn(EmptyWindow, e.version, d)]
  OBVIOUS
<1> HIDE DEF e, row, l
<1>8. e.complete => d = e.version
  BY <1>5, <1>6
<1>9. ~e.complete => d \in {0, EmptyWindow.digest}
  BY <1>6
<1>10. Meant(p, e.category) /\ e.version # 0
  BY <1>5 DEF Meant, ActiveIn
<1>11. /\ TaskOK(t, "active", e.version, {}, row, Append(l, e), turn')
       /\ row \in [state: State, window: Window]
       /\ Append(l, e) \in Seq(Entry)
  BY <1>4, <1>5, <1>7, <1>8, <1>9, <1>10, FiledOK
<1>12. Shape'
  BY <1>1, <1>2, <1>11 DEF Shape, Port!PortStatus, Port!PortLive
<1>13. /\ status'[t] = "active" /\ version'[t] = e.version /\ holders'[t] = {}
       /\ store'[t] = row /\ log'[t] = Append(l, e)
  BY <1>1, <1>2, <1>3, <1>5 DEF Shape
<1>14. TaskOK(t, status'[t], version'[t], holders'[t], store'[t], log'[t], turn')
  BY <1>11, <1>13
<1>15. \A u \in Tasks \cap T :
         TaskOK(u, status'[u], version'[u], holders'[u], store'[u], log'[u], turn')
  BY <1>14
<1>16. \A u \in Tasks \ T :
         /\ status'[u] = status[u] /\ version'[u] = version[u]
         /\ store'[u] = store[u] /\ log'[u] = log[u]
         /\ holders'[u] \subseteq holders[u]
         /\ \A x \in holders'[u] : turn'[x] = turn[x]
  BY <1>1, <1>2 DEF Shape
<1> HIDE DEF T
<1> QED BY <1>12, <1>15, <1>16, RestOK

LEMMA StartKeeps == ASSUME TurnInv, NEW text \in Texts, Start(text) PROVE TurnInv'
<1> DEFINE started == FALSE
           delta == Understand(text, "start", started, FreshState)
           p == ApplyDelta(delta, started, FreshState)
           c == delta.category
<1>1. PICK t \in Tasks :
        /\ Port!Issue(t) /\ UNCHANGED turn
        /\ \/ Put(t, 1, c, p, AppendTurn(EmptyWindow, 1, 0), FALSE)
           \/ \E end \in LoopEnds(p) :
                Put(t, 1, c, end.state,
                    AppendTurn(EmptyWindow, 1, IF end.complete THEN 1 ELSE 0), end.complete)
  BY DEF Start
<1>s. started \in BOOLEAN /\ ~started
  OBVIOUS
<1> HIDE DEF started
<1>2. Sound(p) /\ c \in Categories /\ p.evidence = {}
  BY <1>s, StartFacts
<1> HIDE DEF delta, p, c
<1>3. CASE Put(t, 1, c, p, AppendTurn(EmptyWindow, 1, 0), FALSE)
  BY <1>1, <1>2, <1>3, StartFiles
<1>4. CASE \E end \in LoopEnds(p) :
             Put(t, 1, c, end.state,
                 AppendTurn(EmptyWindow, 1, IF end.complete THEN 1 ELSE 0), end.complete)
  <2>1. PICK end \in LoopEnds(p) :
          Put(t, 1, c, end.state,
              AppendTurn(EmptyWindow, 1, IF end.complete THEN 1 ELSE 0), end.complete)
    BY <1>4
  <2>2. /\ Sound(end.state) /\ end.state.gen = p.gen /\ end.complete \in BOOLEAN
        /\ \A x \in ActiveIn(end.state) : x \in ActiveIn(p) \/ x.gen = p.gen
    BY <1>2, LoopFacts
  <2> DEFINE d == IF end.complete THEN 1 ELSE 0
  <2>3. d \in Nat /\ (end.complete => d = 1) /\ (~end.complete => d = 0)
    OBVIOUS
  <2>4. Put(t, 1, c, end.state, AppendTurn(EmptyWindow, 1, d), end.complete)
    BY <2>1
  <2> HIDE DEF d
  <2> QED BY <1>1, <1>2, <2>2, <2>3, <2>4, StartFiles
<1> QED BY <1>1, <1>3, <1>4

LEMMA LapseKeeps == ASSUME TurnInv, NEW t \in Tasks, Lapse(t) PROVE TurnInv'
<1> DEFINE T == {t}
<1>1. /\ Shape /\ turn' = turn /\ log' = log /\ version' = version
      /\ store' = [store EXCEPT ![t] = EmptyRow]
      /\ status' = [u \in Tasks |-> IF u \in T THEN "expired" ELSE status[u]]
      /\ holders' = [u \in Tasks |-> IF u \in T THEN {} ELSE holders[u]]
  BY DEF Lapse, Port!Lapse, TurnInv
<1>2. Shape'
  BY <1>1, RowFacts DEF Shape, Port!PortStatus, Port!PortEnded
<1>3. status'[t] = "expired" /\ holders'[t] = {}
  BY <1>1
<1>4. TaskOK(t, status'[t], version'[t], holders'[t], store'[t], log'[t], turn')
  BY <1>3, EndedOK
<1>5. \A u \in Tasks \cap T :
         TaskOK(u, status'[u], version'[u], holders'[u], store'[u], log'[u], turn')
  BY <1>4
<1>6. \A u \in Tasks \ T :
         /\ status'[u] = status[u] /\ version'[u] = version[u]
         /\ store'[u] = store[u] /\ log'[u] = log[u]
         /\ holders'[u] \subseteq holders[u]
         /\ \A x \in holders'[u] : turn'[x] = turn[x]
  BY <1>1 DEF Shape
<1> HIDE DEF T
<1> QED BY <1>2, <1>5, <1>6, RestOK

LEMMA NextKeeps == ASSUME TurnInv, Next PROVE TurnInv'
<1>1. ASSUME NEW text \in Texts, Start(text) PROVE TurnInv'
  BY <1>1, StartKeeps
<1>2. ASSUME NEW t \in Tasks, Lapse(t) PROVE TurnInv'
  BY <1>2, LapseKeeps
<1>3. ASSUME NEW w \in Workers, NEW t \in Tasks, NEW text \in Texts,
             NEW action \in {"continue", "switch", "cancel"}, ClaimTurn(w, t, action, text)
      PROVE  TurnInv'
  BY <1>3, ClaimKeeps
<1>4. ASSUME NEW w \in Workers, FinishTurn(w) PROVE TurnInv'
  BY <1>4, ClarifyKeeps, CancelKeeps, ReplayKeeps, ContinueKeeps, SwitchKeeps,
     RefuseKeeps, MissKeeps DEF FinishTurn
<1> QED BY <1>1, <1>2, <1>3, <1>4 DEF Next

LEMMA StutterKeeps == ASSUME TurnInv, UNCHANGED vars PROVE TurnInv'
  BY DEF vars, TurnInv, Shape, Port!PortStatus

LEMMA InvHolds == Spec => []TurnInv
<1>1. TurnInv /\ [Next]_vars => TurnInv'
  BY NextKeeps, StutterKeeps
<1> QED BY InitHolds, <1>1, PTL DEF Spec

-----------------------------------------------------------------------------
(* Every row and every turn has the shape the code gives it. *)
THEOREM TurnsAreTyped == Spec => []TypeOK
<1>1. TurnInv => TypeOK
  BY DEF TurnInv, Shape, TypeOK
<1> QED BY <1>1, InvHolds, PTL

(* After any number of turns, corrections and compactions, the window of a    *)
(* live task tells its recent turns one by one and names the latest complete  *)
(* answer among them, for any compaction threshold.                           *)
THEOREM WindowsTellHistory == Spec => []WindowTellsHistory
<1>1. ASSUME TurnInv PROVE WindowTellsHistory
  <2> SUFFICES ASSUME NEW t \in Tasks, Live(t)
               PROVE  LET w == store[t].window
                          n == Len(log[t])
                          lineage == SubSeq(log[t], n - w.watermark + 1, n)
                      IN /\ w.watermark \in 1..n
                         /\ w.compacted < w.watermark
                         /\ w.uncovered = [i \in 1..(w.watermark - w.compacted) |->
                                             lineage[w.compacted + i].version]
                         /\ w.digest = LatestComplete(lineage)
                         /\ lineage[w.watermark].version
                              = version[t] - (IF status[t] = "claimed" THEN 1 ELSE 0)
    BY DEF WindowTellsHistory
  <2>1. log[t] \in Seq(Entry)
    BY <1>1 DEF TurnInv, Shape
  <2>2. Told(store[t].window, log[t],
             version[t] - (IF status[t] = "claimed" THEN 1 ELSE 0))
    BY <1>1 DEF TurnInv, TaskOK, Live
  <2> DEFINE w == store[t].window
             l == log[t]
             v == version[t] - (IF status[t] = "claimed" THEN 1 ELSE 0)
             lineage == Lineage(w, l)
  <2>3. l \in Seq(Entry) /\ Told(w, l, v)
    BY <2>1, <2>2
  <2>4. lineage = Lineage(w, l)
    OBVIOUS
  <2> HIDE DEF w, l, v, lineage
  <2>5. Tells(w, l, v, lineage)
    BY <2>3, <2>4, ToldTells
  <2> QED BY <2>5 DEF w, l, v, lineage, Lineage, Tells
<1> QED BY <1>1, InvHolds, PTL

(* Active evidence is never older than the last turn that corrected the task. *)
THEOREM CorrectionsAlwaysInvalidate == Spec => []CorrectionsInvalidate
<1>1. TurnInv => CorrectionsInvalidate
  BY DEF TurnInv, TaskOK, CorrectionsInvalidate, Live, After, Corrects
<1> QED BY <1>1, InvHolds, PTL

(* Active evidence always answers something the task still requires. *)
THEOREM EvidenceIsAlwaysRequired == Spec => []ActiveEvidenceIsRequired
<1>1. TurnInv => ActiveEvidenceIsRequired
  BY DEF TurnInv, TaskOK, ActiveEvidenceIsRequired, Live, Sound
<1> QED BY <1>1, InvHolds, PTL
=============================================================================
