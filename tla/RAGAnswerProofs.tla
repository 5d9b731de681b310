-------------------------- MODULE RAGAnswerProofs --------------------------
(***************************************************************************)
(* What an answer rests on, and what a recovery may consume, for any       *)
(* catalogs, releases, operators, questions and budgets.                   *)
(*                                                                         *)
(* The answer is checked against a release loaded some steps after the     *)
(* evidence was found, and cited some steps later still. RAGInv carries    *)
(* what each step has established by then: that a merge has something to   *)
(* merge (GainedByMerge), that the gate's judgement stands until the       *)
(* composer is done (GateHolds), and what each source of the recovery may  *)
(* still add to the ledger (Bounded, BoundedOnTheWay).                     *)
(***************************************************************************)
EXTENDS RAGAnswer, KnowledgeReleaseProofs, FiniteSetTheorems

Runs == {"parent", "rewrite", "expansion"}

OutReasons == {"none", "active_release_unavailable", "retrieval_unavailable", "contract_error",
               "no_authorized_evidence", "no_candidate", "evidence_retrieved"}

OutRecord == [reason : OutReasons, sel : SUBSET Evidence,
              rel : Releases \cup {ExternalRelease, Nil}]

UsedRecord == [initial : Nat, rewrites : Nat, candidates : Nat, scanned : Nat,
               expanded : Nat, merged : Nat]

Forms == {"none", "t4", "procedure", "obligations"}

(* The terminations that stop a recovery, and their details. *)
Stops == {"unsafe", "insufficient_coverage", "no_progress", "budget_exhausted",
          "external_unavailable", "contract_failure"}

StopDetails == (OutReasons \ {"none"}) \cup
    {"initial_budget_overrun", "slot_provider_no_action", "formation_failed",
     "proposal_budget_overrun", "no_recovery_evidence_gain", "execute_failure",
     "evidence_run_mismatch", "recovery_authority_unavailable", "recovery_identity_drift",
     "recovery_reauthorization_denied", "recovery_context_unavailable", "none"}

PlanRecord == [gaps : Nat, formed : Forms, previews : Nat, batches : Nat,
               tried : Seq({"rewrite", "expand"}), gained : Seq(SUBSET Evidence),
               ends : Stops \cup {"none", "answer_ready"},
               detail : StopDetails \cup {"recovery_evidence_merged"}]

FiniteGains(p) == \A i \in DOMAIN p.gained : IsFiniteSet(p.gained[i])

CallTypes ==
    /\ ask \in Asks /\ pc \in Locations
    /\ out \in OutRecord /\ used \in UsedRecord /\ plan \in PlanRecord
    /\ IsFiniteSet(out.sel) /\ Cardinality(out.sel) <= MaxSelected
    /\ FiniteGains(plan)
    /\ visible \subseteq Evidence /\ result.cited \subseteq visible

(* What holds of the consumption at every step. *)
Bounded(p, u) ==
    /\ p.previews <= MaxExpanded /\ p.batches <= MaxBatches
    /\ u.initial <= 1 /\ u.rewrites <= p.batches
    /\ u.candidates <= MaxCandidates + p.batches * MaxCandidates
    /\ u.scanned <= MaxExpanded /\ u.expanded <= MaxExpanded
    /\ u.merged <= MaxMerged

Unasked == {"idle", "acquire", "reacquire"}

Unplanned == Unasked \cup {"resolve"}

Uncharged == Unplanned \cup {"observe", "rewrite", "expand", "charge"}

(* What the sources may still add before they are charged. *)
BoundedOnTheWay ==
    /\ pc \in Unasked => used = NoneUsed
    /\ pc \in Uncharged => used.merged <= MaxSelected
    /\ pc \in Unplanned => plan = NoPlan
    /\ pc = "observe" => plan.gained = <<>> /\ plan.batches = 0
    /\ pc \in {"rewrite", "expand"} =>
          /\ Len(plan.gained) <= 1
          /\ \A i \in DOMAIN plan.gained : Cardinality(plan.gained[i]) <= MaxAdded
    /\ pc = "charge" =>
          /\ IsFiniteSet(UNION Range(plan.gained))
          /\ Cardinality(UNION Range(plan.gained)) <= MaxAdded + MaxExpanded

GainedByMerge == pc = "merge" => UNION Range(plan.gained) # {}

GateHolds ==
    pc = "compose" =>
        /\ gate # Nil /\ visible \subseteq out.sel
        /\ \A e \in out.sel : ~Stale(e, gate) /\ MayRead(e.text) /\ e.text \notin Unsafe
        /\ ask.need \subseteq {e.doc : e \in out.sel}

NothingCitedBefore == pc # "done" => result.cited = {}

CallInv ==
    /\ CallTypes /\ Bounded(plan, used) /\ BoundedOnTheWay
    /\ GainedByMerge /\ GateHolds /\ NothingCitedBefore
    /\ OnlyReadyCarriesEvidence /\ AnswerFromOneRelease

RAGInv == StoreInv /\ CallInv

-----------------------------------------------------------------------------
(* Sets and their sizes. *)

LEMMA RefsAreFinite == IsFiniteSet(Refs)
<1> DEFINE S == Docs \X Texts
           f == [x \in S |-> [doc |-> x[1], text |-> x[2]]]
<1>1. IsFiniteSet(S)
  BY CatalogAssumption, FS_Product
<1>2. f \in Surjection(S, Refs)
  <2>1. ASSUME NEW r \in Refs PROVE \E x \in S : f[x] = r
    <3>1. <<r.doc, r.text>> \in S
      BY DEF Refs
    <3>2. f[<<r.doc, r.text>>] = r
      BY <3>1 DEF Refs
    <3> QED BY <3>1, <3>2
  <2>2. f \in [S -> Refs]
    BY DEF Refs
  <2> HIDE DEF f, S
  <2> QED BY <2>1, <2>2 DEF Surjection
<1> HIDE DEF f, S
<1> QED BY <1>1, <1>2, FS_Surjection

LEMMA EvidenceOfIsSmall ==
  ASSUME NEW rel, NEW D, IsFiniteSet(D), NEW run
  PROVE  /\ IsFiniteSet(EvidenceOf(rel, D, run))
         /\ Cardinality(EvidenceOf(rel, D, run)) <= Cardinality(D)
<1> DEFINE T == EvidenceOf(rel, D, run)
           f == [d \in D |-> [doc |-> d, text |-> rel.content[d], rel |-> rel, run |-> run]]
<1>1. f \in Surjection(D, T)
  BY DEF Surjection, EvidenceOf
<1> HIDE DEF f
<1> QED BY <1>1, FS_Surjection

LEMMA HydratedIsSmall ==
  ASSUME NEW rel, NEW R, IsFiniteSet(R), NEW run
  PROVE  /\ IsFiniteSet(HydratedFrom(rel, R, run))
         /\ Cardinality(HydratedFrom(rel, R, run)) <= Cardinality(R)
<1> DEFINE T == HydratedFrom(rel, R, run)
           f == [x \in R |-> [doc |-> x.doc, text |-> x.text, rel |-> rel, run |-> run]]
<1>1. f \in Surjection(R, T)
  BY DEF Surjection, HydratedFrom
<1> HIDE DEF f
<1> QED BY <1>1, FS_Surjection

LEMMA MinOfTwo ==
  ASSUME NEW a \in Int, NEW b \in Int
  PROVE  Min({a, b}) \in {a, b} /\ Min({a, b}) <= a /\ Min({a, b}) <= b
<1>1. \E x \in {a, b} : \A y \in {a, b} : x <= y
  OBVIOUS
<1> QED BY <1>1 DEF Min

(* Two finite sets make at most the sum of their sizes. *)
LEMMA UnionIsSmall ==
  ASSUME NEW S, NEW T, IsFiniteSet(S), IsFiniteSet(T)
  PROVE  IsFiniteSet(S \cup T) /\ Cardinality(S \cup T) <= Cardinality(S) + Cardinality(T)
<1>1. IsFiniteSet(S \cap T)
  BY FS_Subset
<1>2. /\ Cardinality(S) \in Nat /\ Cardinality(T) \in Nat /\ Cardinality(S \cap T) \in Nat
  BY <1>1, FS_CardinalityType
<1>3. /\ IsFiniteSet(S \cup T)
      /\ Cardinality(S \cup T) = Cardinality(S) + Cardinality(T) - Cardinality(S \cap T)
  BY FS_Union
<1> QED BY <1>2, <1>3

-----------------------------------------------------------------------------
(* What the store and a retrieval hand out. *)

LEMMA BundleIsTyped ==
  ASSUME StoreInv
  PROVE  /\ ActiveRelease \in Releases \cup {Nil}
         /\ LoadBundle \in Releases \cup {ExternalRelease, Nil}
  BY DEF StoreInv, StoreTypeOK, ActiveRelease, LoadBundle, Pointers

LEMMA ContentIsTyped ==
  ASSUME NEW rel \in Releases \cup {ExternalRelease}
  PROVE  rel.content \in [Docs -> Texts \cup {Absent}]
  BY CatalogAssumption, ReleasesAssumption DEF ExternalRelease

LEMMA AuthorizedEvidence ==
  ASSUME NEW rel \in Releases \cup {ExternalRelease}, NEW D \in SUBSET Authorized(rel),
         NEW run \in Runs
  PROVE  /\ IsFiniteSet(D) /\ EvidenceOf(rel, D, run) \subseteq Evidence
         /\ IsFiniteSet(EvidenceOf(rel, D, run))
         /\ Cardinality(EvidenceOf(rel, D, run)) <= Cardinality(D)
<1>1. IsFiniteSet(D)
  BY CatalogAssumption, FS_Subset DEF Authorized
<1>2. ASSUME NEW d \in D PROVE d \in Docs /\ rel.content[d] \in Texts
  BY ContentIsTyped DEF Authorized, MayRead
<1>3. EvidenceOf(rel, D, run) \subseteq Evidence
  BY <1>2 DEF EvidenceOf, Evidence, Runs
<1> QED BY <1>1, <1>3, EvidenceOfIsSmall

LEMMA HydratedEvidence ==
  ASSUME NEW rel \in Releases \cup {ExternalRelease}, NEW R \in SUBSET Refs
  PROVE  /\ HydratedFrom(rel, R, "parent") \subseteq Evidence
         /\ IsFiniteSet(HydratedFrom(rel, R, "parent"))
         /\ Cardinality(HydratedFrom(rel, R, "parent")) <= Cardinality(R)
         /\ IsFiniteSet(R)
<1>1. IsFiniteSet(R)
  BY RefsAreFinite, FS_Subset
<1>2. HydratedFrom(rel, R, "parent") \subseteq Evidence
  BY DEF HydratedFrom, Evidence, Refs
<1> QED BY <1>1, <1>2, HydratedIsSmall

LEMMA RetrievalIsTyped ==
  ASSUME NEW rel \in Releases \cup {ExternalRelease, Nil}, NEW run \in Runs,
         NEW o \in RetrievalOf(rel, run)
  PROVE  /\ o.reason \in OutReasons /\ o.sel \in SUBSET Evidence
         /\ IsFiniteSet(o.sel) /\ Cardinality(o.sel) <= MaxSelected
         /\ o.calls \in 0..1 /\ o.seen \in {0, MaxCandidates}
<1>1. CASE o.sel = {} /\ o.reason \in OutReasons /\ o.calls \in 0..1 /\ o.seen = 0
  BY <1>1, FS_EmptySet, BudgetAssumption
<1>2. CASE \E D \in SUBSET Authorized(rel) :
             /\ rel # Nil /\ Cardinality(D) <= MaxSelected
             /\ o = [reason |-> "evidence_retrieved", sel |-> EvidenceOf(rel, D, run),
                     calls |-> 1, seen |-> MaxCandidates]
  <2>1. PICK D \in SUBSET Authorized(rel) :
             /\ rel # Nil /\ Cardinality(D) <= MaxSelected
             /\ o = [reason |-> "evidence_retrieved", sel |-> EvidenceOf(rel, D, run),
                     calls |-> 1, seen |-> MaxCandidates]
    BY <1>2
  <2>2. /\ IsFiniteSet(D) /\ EvidenceOf(rel, D, run) \subseteq Evidence
        /\ IsFiniteSet(EvidenceOf(rel, D, run))
        /\ Cardinality(EvidenceOf(rel, D, run)) <= Cardinality(D)
    BY <2>1, AuthorizedEvidence
  <2>3. Cardinality(D) \in Nat /\ Cardinality(EvidenceOf(rel, D, run)) \in Nat /\ MaxSelected \in Nat
    BY <2>2, FS_CardinalityType, BudgetAssumption
  <2> QED BY <2>1, <2>2, <2>3 DEF OutReasons
<1>3. QED
  BY <1>1, <1>2 DEF RetrievalOf, OutReasons

-----------------------------------------------------------------------------
(* Steps before the answer. *)

(* Such a step leaves the question, the gate and the answer alone and stops    *)
(* short of the composer: what it must keep is what the call holds.           *)
Hold == UNCHANGED <<ask, gate, visible, result, storeVars>>

LEMMA HoldKeeps ==
  ASSUME RAGInv, Hold, pc # "done", pc' \in Locations \ {"compose", "done"},
         out' \in OutRecord, used' \in UsedRecord, plan' \in PlanRecord,
         IsFiniteSet(out'.sel), Cardinality(out'.sel) <= MaxSelected,
         FiniteGains(plan'), Bounded(plan', used'), BoundedOnTheWay', GainedByMerge',
         OnlyReadyCarriesEvidence'
  PROVE  RAGInv'
<1>1. StoreInv'
  BY StoreStepInv DEF RAGInv, Hold
<1>2. result'.cited = {}
  BY DEF RAGInv, CallInv, NothingCitedBefore, Hold
<1>3. CallTypes'
  BY DEF RAGInv, CallInv, CallTypes, Hold, FiniteGains
<1>4. GateHolds' /\ NothingCitedBefore' /\ AnswerFromOneRelease'
  BY <1>2 DEF GateHolds, NothingCitedBefore, AnswerFromOneRelease
<1>5. Bounded(plan, used)'
  BY DEF Bounded
<1> QED BY <1>1, <1>3, <1>4, <1>5 DEF RAGInv, CallInv

(* A recovery that stops carries no evidence on and is bounded as it was. *)
LEMMA StopKeeps ==
  ASSUME RAGInv, Hold, pc # "done", NEW p \in PlanRecord, NEW u \in UsedRecord,
         FiniteGains(p), NEW ends \in Stops, NEW why \in StopDetails,
         Bounded(p, u), StopWith(p, u, ends, why)
  PROVE  RAGInv'
<1>1. out \in OutRecord
  BY DEF RAGInv, CallInv, CallTypes
<1>2. StoppedReason(ends) \in OutReasons
  BY DEF StoppedReason, OutReasons
<1>e. ends # "answer_ready"
  BY DEF Stops
<1>3. out' \in OutRecord /\ out'.sel = {}
  BY <1>1, <1>2 DEF StopWith, OutRecord
<1>4. IsFiniteSet(out'.sel) /\ Cardinality(out'.sel) <= MaxSelected
  BY <1>3, FS_EmptySet, BudgetAssumption
<1>5. /\ plan' \in PlanRecord /\ plan'.ends = ends /\ plan'.detail = why
      /\ plan'.gained = p.gained /\ plan'.previews = p.previews /\ plan'.batches = p.batches
  BY DEF StopWith, PlanRecord
<1>6. used' = u /\ pc' = "gate"
  BY DEF StopWith
<1>7. Bounded(plan', used') /\ FiniteGains(plan')
  BY <1>5, <1>6 DEF Bounded, FiniteGains
<1>8. BoundedOnTheWay' /\ GainedByMerge'
  BY <1>6 DEF BoundedOnTheWay, GainedByMerge, Uncharged, Unplanned, Unasked
<1>9. OnlyReadyCarriesEvidence'
  BY <1>e, <1>3, <1>5 DEF OnlyReadyCarriesEvidence
<1> QED BY <1>3, <1>4, <1>5, <1>6, <1>7, <1>8, <1>9, HoldKeeps DEF Locations

(* What the call holds, and no more, after acquisition: the ledger starts. *)
LEMMA AcquiredKeeps ==
  ASSUME RAGInv, Hold, UNCHANGED plan, pc \in {"acquire", "reacquire"},
         NEW o, o.reason \in OutReasons, o.sel \in SUBSET Evidence,
         IsFiniteSet(o.sel), Cardinality(o.sel) <= MaxSelected,
         NEW rel \in Releases \cup {ExternalRelease, Nil},
         NEW calls \in 0..1, NEW n \in 0..MaxCandidates, Acquired(o, rel, calls, n)
  PROVE  RAGInv'
<1>1. plan = NoPlan /\ plan \in PlanRecord /\ FiniteGains(plan)
  BY DEF RAGInv, CallInv, CallTypes, BoundedOnTheWay, Unplanned, Unasked
<1>2. Cardinality(o.sel) \in Nat
  BY FS_CardinalityType
<1>3. out' \in OutRecord /\ out'.sel = o.sel
  BY DEF Acquired, OutRecord
<1>4. used' = [initial |-> calls, rewrites |-> 0, candidates |-> n, scanned |-> 0,
               expanded |-> 0, merged |-> Cardinality(o.sel)]
  <2>1. used = NoneUsed
    BY DEF RAGInv, CallInv, BoundedOnTheWay, Unasked
  <2>2. used' = [NoneUsed EXCEPT !.initial = calls, !.candidates = n,
                                 !.merged = Cardinality(o.sel)]
    BY <2>1 DEF Acquired
  <2> QED BY <2>2 DEF NoneUsed
<1>5. used' \in UsedRecord
  BY <1>2, <1>4, BudgetAssumption DEF UsedRecord
<1>6. Bounded(plan', used')
  BY <1>1, <1>2, <1>4, BudgetAssumption DEF Bounded, NoPlan
<1>7. pc' \in {"raised", "resolve", "gate"} /\ (pc' = "gate" => ask.strategy # "subgraph")
  BY DEF Acquired
<1>8. BoundedOnTheWay' /\ GainedByMerge'
  BY <1>1, <1>4, <1>7 DEF BoundedOnTheWay, GainedByMerge, Uncharged, Unplanned, Unasked
<1>9. OnlyReadyCarriesEvidence'
  BY <1>7 DEF OnlyReadyCarriesEvidence, Hold
<1>10. IsFiniteSet(out'.sel) /\ Cardinality(out'.sel) <= MaxSelected /\ FiniteGains(plan')
  BY <1>1, <1>3
<1> QED BY <1>1, <1>3, <1>5, <1>6, <1>7, <1>8, <1>9, <1>10, HoldKeeps DEF Locations

-----------------------------------------------------------------------------
(* Acquisition. *)

LEMMA RehydrateKeeps == ASSUME RAGInv, Rehydrate PROVE RAGInv'
<1> DEFINE rel == ActiveRelease
           none(why) == [reason |-> why, sel |-> {}]
<1>1. Hold /\ UNCHANGED plan /\ pc = "acquire" /\ MayRehydrate
  BY DEF Rehydrate, Hold
<1>2. rel \in Releases \cup {Nil} /\ ask \in Asks
  BY BundleIsTyped DEF RAGInv, CallInv, CallTypes
<1>3. ASSUME NEW why \in OutReasons, NEW r \in Releases \cup {Nil}, Acquired(none(why), r, 0, 0)
      PROVE  RAGInv'
  <2>1. none(why).reason = why /\ none(why).sel = {}
    OBVIOUS
  <2>2. IsFiniteSet({}) /\ Cardinality({}) <= MaxSelected /\ 0 \in 0..MaxCandidates
    BY FS_EmptySet, BudgetAssumption
  <2> QED BY <1>1, <1>3, <2>1, <2>2, AcquiredKeeps
<1>4. CASE pc' = FallBack /\ UNCHANGED <<out, used>>
  <2>1. pc' = "reacquire"
    BY <1>4 DEF FallBack
  <2>2. Bounded(plan', used') /\ BoundedOnTheWay' /\ GainedByMerge' /\ OnlyReadyCarriesEvidence'
    BY <1>1, <1>4, <2>1 DEF RAGInv, CallInv, Bounded, BoundedOnTheWay, GainedByMerge,
       OnlyReadyCarriesEvidence, Uncharged, Unplanned, Unasked
  <2> QED BY <1>1, <1>4, <2>1, <2>2, HoldKeeps DEF RAGInv, CallInv, CallTypes, Locations, FiniteGains
<1>5. CASE /\ rel # Nil
           /\ Acquired([reason |-> "evidence_retrieved",
                        sel |-> HydratedFrom(rel, ask.prior, "parent")],
                       rel, 0, Cardinality(ask.prior))
  <2> DEFINE S == HydratedFrom(rel, ask.prior, "parent")
             o == [reason |-> "evidence_retrieved", sel |-> S]
  <2>1. ask.prior \in SUBSET Refs /\ Cardinality(ask.prior) <= MaxSelected
    BY <1>2, AsksAssumption DEF AskSet
  <2>2. S \subseteq Evidence /\ IsFiniteSet(S) /\ Cardinality(S) <= Cardinality(ask.prior)
        /\ IsFiniteSet(ask.prior)
    BY <1>2, <1>5, <2>1, HydratedEvidence
  <2>3. Cardinality(S) \in Nat /\ Cardinality(ask.prior) \in Nat
    BY <2>2, FS_CardinalityType
  <2>4. Cardinality(S) <= MaxSelected /\ Cardinality(ask.prior) \in 0..MaxCandidates
    BY <2>1, <2>2, <2>3, BudgetAssumption
  <2>5. o.reason \in OutReasons /\ o.sel = S
    BY DEF OutReasons
  <2> HIDE DEF S, rel
  <2>6. Acquired(o, rel, 0, Cardinality(ask.prior))
    BY <1>5 DEF S
  <2> HIDE DEF o
  <2> QED BY <1>1, <1>2, <1>5, <2>2, <2>4, <2>5, <2>6, AcquiredKeeps
<1>6. QED
  <2>1. {"active_release_unavailable", "no_authorized_evidence"} \subseteq OutReasons
    BY DEF OutReasons
  <2> QED BY <1>2, <1>3, <1>4, <1>5, <2>1 DEF Rehydrate

LEMMA RetrieveInitialKeeps == ASSUME RAGInv, RetrieveInitial PROVE RAGInv'
<1>1. Hold /\ UNCHANGED plan /\ pc \in {"acquire", "reacquire"}
  BY DEF RetrieveInitial, Hold
<1>2. LoadBundle \in Releases \cup {ExternalRelease, Nil}
  BY BundleIsTyped DEF RAGInv
<1>3. PICK o \in RetrievalOf(LoadBundle, "parent") : Acquired(o, LoadBundle, o.calls, o.seen)
  BY DEF RetrieveInitial
<1>4. /\ o.reason \in OutReasons /\ o.sel \in SUBSET Evidence
      /\ IsFiniteSet(o.sel) /\ Cardinality(o.sel) <= MaxSelected
      /\ o.calls \in 0..1 /\ o.seen \in {0, MaxCandidates}
  BY <1>2, RetrievalIsTyped DEF Runs
<1>5. o.seen \in 0..MaxCandidates
  BY <1>4, BudgetAssumption
<1> QED BY <1>1, <1>2, <1>3, <1>4, <1>5, AcquiredKeeps

-----------------------------------------------------------------------------
(* The recovery. *)

(* The call's own state as the invariant gives it. *)
LEMMA InCall ==
  ASSUME RAGInv
  PROVE  /\ out \in OutRecord /\ used \in UsedRecord /\ plan \in PlanRecord
         /\ FiniteGains(plan) /\ IsFiniteSet(out.sel) /\ Cardinality(out.sel) <= MaxSelected
         /\ Bounded(plan, used) /\ BoundedOnTheWay
  BY DEF RAGInv, CallInv, CallTypes

LEMMA ResolveKeeps == ASSUME RAGInv, Resolve PROVE RAGInv'
<1>1. Hold /\ pc = "resolve" /\ plan = NoPlan
  BY InCall DEF Resolve, Hold, BoundedOnTheWay, Unplanned
<1>2. ASSUME NEW ends \in Stops, NEW why \in StopDetails, StopWith(plan, used, ends, why)
      PROVE  RAGInv'
  BY <1>1, <1>2, InCall, StopKeeps
<1>3. ASSUME NEW s \in Forms, NEW g \in Gaps(s),
             plan' = [plan EXCEPT !.formed = s, !.gaps = g], pc' = "observe",
             UNCHANGED <<out, used>>
      PROVE  RAGInv'
  <2>1. g \in Nat
    BY DEF Gaps
  <2>2. plan' \in PlanRecord /\ plan'.gained = <<>> /\ plan'.batches = 0
        /\ plan'.previews = 0
    BY <1>1, <1>3, <2>1, InCall DEF PlanRecord, NoPlan
  <2>3. Bounded(plan', used') /\ FiniteGains(plan')
    BY <1>1, <1>3, <2>2, InCall DEF Bounded, FiniteGains, NoPlan
  <2>4. BoundedOnTheWay' /\ GainedByMerge' /\ OnlyReadyCarriesEvidence'
    BY <1>1, <1>3, <2>2, InCall DEF BoundedOnTheWay, GainedByMerge, OnlyReadyCarriesEvidence,
       Uncharged, Unplanned, Unasked
  <2> QED BY <1>1, <1>3, <2>2, <2>3, <2>4, InCall, HoldKeeps DEF Locations
<1>4. out.reason \in StopDetails
  BY InCall DEF OutRecord, StopDetails
<1>s. /\ {"budget_exhausted", "external_unavailable", "insufficient_coverage",
          "contract_failure"} \subseteq Stops
      /\ {"initial_budget_overrun", "slot_provider_no_action", "formation_failed",
          "proposal_budget_overrun"} \subseteq StopDetails
  BY DEF Stops, StopDetails
<1>5. CASE Overrun(used)
  BY <1>2, <1>5, <1>s DEF Resolve
<1>6. CASE ~Overrun(used) /\ out.reason # "evidence_retrieved"
  <2>1. PICK ends \in {"external_unavailable", "insufficient_coverage"} :
           StopWith(plan, used, ends, out.reason)
    BY <1>6 DEF Resolve
  <2> QED BY <1>2, <1>4, <1>s, <2>1
<1>7. CASE ~Overrun(used) /\ out.reason = "evidence_retrieved"
  <2>1. PICK s \in Resolutions :
          CASE s = "no_slots" ->
                 StopWith(plan, used, "insufficient_coverage", "slot_provider_no_action")
            [] s = "proposal_failed" ->
                 StopWith(plan, used, "contract_failure", "formation_failed")
            [] s = "proposal_overrun" ->
                 StopWith(plan, used, "budget_exhausted", "proposal_budget_overrun")
            [] OTHER ->
                 \E g \in Gaps(s) :
                    /\ plan' = [plan EXCEPT !.formed = s, !.gaps = g]
                    /\ pc' = "observe"
                    /\ UNCHANGED <<out, used>>
    BY <1>7 DEF Resolve
  <2>2. CASE s = "no_slots"
    BY <1>2, <1>s, <2>1, <2>2
  <2>3. CASE s = "proposal_failed"
    BY <1>2, <1>s, <2>1, <2>3
  <2>4. CASE s = "proposal_overrun"
    BY <1>2, <1>s, <2>1, <2>4
  <2>5. CASE s \notin {"no_slots", "proposal_failed", "proposal_overrun"}
    <3>1. s \in Forms
      BY <2>5 DEF Resolutions, Forms
    <3> QED BY <1>3, <2>1, <2>5, <3>1
  <2> QED BY <2>2, <2>3, <2>4, <2>5
<1> QED BY <1>5, <1>6, <1>7

LEMMA ObserveKeeps == ASSUME RAGInv, Observe PROVE RAGInv'
<1>1. Hold /\ pc = "observe" /\ plan.gained = <<>> /\ plan.batches = 0
      /\ used.merged <= MaxSelected
  BY InCall DEF Observe, Hold, BoundedOnTheWay, Uncharged
<1>2. PICK n \in {0, MaxExpanded} :
        LET p == [plan EXCEPT !.previews = n] IN
        \/ plan' = p /\ pc' \in {"expand", "rewrite"} /\ UNCHANGED <<out, used>>
        \/ StopWith(p, used, "insufficient_coverage", "no_recovery_evidence_gain")
  BY DEF Observe
<1> DEFINE p == [plan EXCEPT !.previews = n]
<1>3. p \in PlanRecord /\ p.gained = <<>> /\ p.batches = 0 /\ p.previews = n
  BY <1>1, <1>2, InCall, BudgetAssumption DEF PlanRecord
<1>4. Bounded(p, used) /\ FiniteGains(p)
  BY <1>1, <1>2, <1>3, InCall, BudgetAssumption DEF Bounded, FiniteGains
<1> HIDE DEF p
<1>5. CASE plan' = p /\ pc' \in {"expand", "rewrite"} /\ UNCHANGED <<out, used>>
  <2>1. BoundedOnTheWay' /\ GainedByMerge' /\ OnlyReadyCarriesEvidence'
    BY <1>1, <1>3, <1>5 DEF BoundedOnTheWay, GainedByMerge, OnlyReadyCarriesEvidence, Unplanned, Unasked
  <2> QED BY <1>1, <1>3, <1>4, <1>5, <2>1, InCall, HoldKeeps DEF Locations
<1>6. CASE StopWith(p, used, "insufficient_coverage", "no_recovery_evidence_gain")
  <2>1. "insufficient_coverage" \in Stops /\ "no_recovery_evidence_gain" \in StopDetails
    BY DEF Stops, StopDetails
  <2> QED BY <1>1, <1>3, <1>4, <1>6, <2>1, InCall, StopKeeps
<1> QED BY <1>2, <1>5, <1>6 DEF p

LEMMA RewriteBatchKeeps == ASSUME RAGInv, RewriteBatch PROVE RAGInv'
<1>1. Hold /\ pc = "rewrite" /\ plan.batches < Batches
  BY DEF RewriteBatch, Hold
<1>2. LoadBundle \in Releases \cup {ExternalRelease, Nil}
  BY BundleIsTyped DEF RAGInv
<1> DEFINE had == IF plan.gained = <<>> THEN {} ELSE plan.gained[1]
           fresh(o) == {e \in o.sel : RefOf(e) \notin Known}
<1>3. PICK o \in RetrievalOf(LoadBundle, "rewrite") :
        \/ StopWith(plan, used, "contract_failure", "execute_failure")
        \/ \E add \in SUBSET fresh(o) :
              /\ Cardinality(add) = Min({Cardinality(fresh(o)), MaxAdded - Cardinality(had)})
              /\ plan' = [plan EXCEPT !.batches = @ + 1, !.gained = <<had \cup add>>]
              /\ used' = [used EXCEPT !.rewrites = @ + o.calls, !.candidates = @ + o.seen]
              /\ UNCHANGED <<pc, out>>
  BY DEF RewriteBatch
<1>4. /\ o.sel \in SUBSET Evidence /\ IsFiniteSet(o.sel)
      /\ o.calls \in 0..1 /\ o.seen \in {0, MaxCandidates}
  BY <1>2, RetrievalIsTyped DEF Runs
<1>5. CASE StopWith(plan, used, "contract_failure", "execute_failure")
  <2>1. "contract_failure" \in Stops /\ "execute_failure" \in StopDetails
    BY DEF Stops, StopDetails
  <2> QED BY <1>1, <1>5, <2>1, InCall, StopKeeps
<1>6. ASSUME NEW add \in SUBSET fresh(o),
             Cardinality(add) = Min({Cardinality(fresh(o)), MaxAdded - Cardinality(had)}),
             plan' = [plan EXCEPT !.batches = @ + 1, !.gained = <<had \cup add>>],
             used' = [used EXCEPT !.rewrites = @ + o.calls, !.candidates = @ + o.seen],
             UNCHANGED <<pc, out>>
      PROVE  RAGInv'
  <2>1. Len(plan.gained) <= 1 /\ plan.gained \in Seq(SUBSET Evidence)
        /\ \A i \in DOMAIN plan.gained : Cardinality(plan.gained[i]) <= MaxAdded
    BY <1>1, InCall DEF BoundedOnTheWay, PlanRecord
  <2>2. had \in SUBSET Evidence /\ IsFiniteSet(had) /\ Cardinality(had) <= MaxAdded
    <3>1. CASE plan.gained = <<>>
      BY <3>1, FS_EmptySet, BudgetAssumption
    <3>2. CASE plan.gained # <<>>
      <4>1. 1 \in DOMAIN plan.gained /\ had = plan.gained[1]
        BY <2>1, <3>2
      <4> QED BY <2>1, <4>1, InCall DEF FiniteGains
    <3> QED BY <3>1, <3>2
  <2>3. add \in SUBSET Evidence /\ IsFiniteSet(add) /\ IsFiniteSet(fresh(o))
    <3>1. fresh(o) \subseteq o.sel
      OBVIOUS
    <3> QED BY <1>4, <3>1, FS_Subset
  <2> HIDE DEF had, fresh
  <2>4. Cardinality(had) \in Nat /\ Cardinality(add) \in Nat /\ Cardinality(fresh(o)) \in Nat
    BY <2>2, <2>3, FS_CardinalityType
  <2>5. Cardinality(add) <= MaxAdded - Cardinality(had)
    BY <1>6, <2>4, MinOfTwo, BudgetAssumption
  <2>6. IsFiniteSet(had \cup add) /\ Cardinality(had \cup add) <= Cardinality(had) + Cardinality(add)
    BY <2>2, <2>3, UnionIsSmall
  <2>7. Cardinality(had \cup add) <= MaxAdded
    <3>1. Cardinality(had \cup add) \in Nat
      BY <2>6, FS_CardinalityType
    <3> QED BY <2>4, <2>5, <2>6, <3>1, BudgetAssumption
  <2> DEFINE g == <<had \cup add>>
  <2>8. /\ g \in Seq(SUBSET Evidence) /\ Len(g) = 1
        /\ \A i \in DOMAIN g : g[i] = had \cup add
    BY <2>2, <2>3
  <2> HIDE DEF g
  <2>9. plan.batches + 1 <= MaxBatches
    <3>1. plan.gaps \in Nat /\ plan.batches \in Nat
      BY InCall DEF PlanRecord
    <3>2. Batches <= MaxBatches /\ Batches \in Int
      <4>1. plan.gaps \in Int /\ MaxBatches \in Int
        BY <3>1, BudgetAssumption
      <4>2. Batches \in {plan.gaps, MaxBatches} /\ Batches <= MaxBatches
        BY <4>1, MinOfTwo DEF Batches
      <4> QED BY <4>1, <4>2
    <3> QED BY <1>1, <3>1, <3>2, BudgetAssumption
  <2>10. /\ plan' \in PlanRecord /\ plan'.gained = g /\ plan'.batches = plan.batches + 1
         /\ plan'.previews = plan.previews
    <3>1. plan \in PlanRecord /\ plan.batches + 1 \in Nat
      BY InCall DEF PlanRecord
    <3>2. plan' = [plan EXCEPT !.batches = plan.batches + 1, !.gained = g]
      BY <1>6 DEF g
    <3> QED BY <2>8, <3>1, <3>2 DEF PlanRecord
  <2>11. /\ used' \in UsedRecord /\ used'.rewrites = used.rewrites + o.calls
         /\ used'.candidates = used.candidates + o.seen /\ used'.initial = used.initial
         /\ used'.scanned = used.scanned /\ used'.expanded = used.expanded
         /\ used'.merged = used.merged
    <3>1. used \in UsedRecord
      BY InCall
    <3>2. used.rewrites + o.calls \in Nat /\ used.candidates + o.seen \in Nat
      BY <1>4, <3>1, BudgetAssumption DEF UsedRecord
    <3>3. used' = [used EXCEPT !.rewrites = used.rewrites + o.calls,
                               !.candidates = used.candidates + o.seen]
      BY <1>6
    <3> QED BY <3>1, <3>2, <3>3 DEF UsedRecord
  <2>12. used'.candidates <= MaxCandidates + plan'.batches * MaxCandidates
    <3>1. used.candidates \in Nat /\ plan.batches \in Nat /\ MaxCandidates \in Nat
          /\ used.candidates <= MaxCandidates + plan.batches * MaxCandidates
      BY InCall, BudgetAssumption DEF UsedRecord, PlanRecord, Bounded
    <3>2. (plan.batches + 1) * MaxCandidates = plan.batches * MaxCandidates + MaxCandidates
      BY <3>1
    <3>3. o.seen <= MaxCandidates /\ o.seen \in Nat
      BY <1>4, <3>1
    <3>4. plan.batches * MaxCandidates \in Nat
      BY <3>1
    <3> DEFINE x == plan.batches * MaxCandidates
               y == (plan.batches + 1) * MaxCandidates
    <3>5. y = x + MaxCandidates /\ x \in Nat /\ used.candidates <= MaxCandidates + x
      BY <3>1, <3>2, <3>4
    <3>6. used'.candidates = used.candidates + o.seen /\ plan'.batches * MaxCandidates = y
      BY <2>10, <2>11
    <3> HIDE DEF x, y
    <3> QED BY <3>1, <3>3, <3>5, <3>6
  <2>13. Bounded(plan', used')
    <3>1. used'.rewrites <= plan'.batches
      <4>1. used.rewrites \in Nat /\ plan.batches \in Nat /\ used.rewrites <= plan.batches
        BY InCall DEF Bounded, UsedRecord, PlanRecord
      <4>2. used'.rewrites = used.rewrites + o.calls /\ plan'.batches = plan.batches + 1
        BY <2>10, <2>11
      <4> QED BY <1>4, <4>1, <4>2
    <3>2. /\ used'.initial <= 1 /\ used'.scanned <= MaxExpanded /\ used'.expanded <= MaxExpanded
          /\ used'.merged <= MaxMerged /\ plan'.previews <= MaxExpanded
          /\ plan'.batches <= MaxBatches
      BY <2>9, <2>10, <2>11, InCall DEF Bounded
    <3> QED BY <2>12, <3>1, <3>2 DEF Bounded
  <2>14. FiniteGains(plan')
    BY <2>6, <2>8, <2>10 DEF FiniteGains
  <2>15. BoundedOnTheWay' /\ GainedByMerge' /\ OnlyReadyCarriesEvidence'
    <3>1. pc' = "rewrite"
      BY <1>1, <1>6
    <3>2. used'.merged <= MaxSelected
      BY <1>1, <2>11, InCall DEF BoundedOnTheWay, Uncharged
    <3>3. pc' \notin Unplanned /\ pc' \notin Unasked
      BY <3>1 DEF Unplanned, Unasked
    <3>4. Len(plan'.gained) <= 1 /\ \A i \in DOMAIN plan'.gained : Cardinality(plan'.gained[i]) <= MaxAdded
      <4> DEFINE S == had \cup add
      <4>1. Cardinality(S) <= MaxAdded /\ Len(g) = 1 /\ \A i \in DOMAIN g : g[i] = S
        BY <2>7, <2>8
      <4> HIDE DEF S
      <4>2. Len(g) <= 1 /\ \A i \in DOMAIN g : Cardinality(g[i]) <= MaxAdded
        BY <4>1
      <4>3. plan'.gained = g
        BY <2>10
      <4> QED BY <4>2, <4>3
    <3>5. BoundedOnTheWay'
      BY <3>1, <3>2, <3>3, <3>4 DEF BoundedOnTheWay
    <3> QED BY <3>1, <3>5 DEF GainedByMerge, OnlyReadyCarriesEvidence
  <2>16. pc # "done" /\ pc' \in Locations \ {"compose", "done"}
    BY <1>1, <1>6 DEF Locations
  <2> QED BY <1>1, <1>6, <2>10, <2>11, <2>13, <2>14, <2>15, <2>16, InCall, HoldKeeps
<1> QED BY <1>3, <1>5, <1>6

(* What a recovery gained, over its attempts. *)
LEMMA GainsOfOne ==
  ASSUME NEW g \in Seq(SUBSET Evidence), Len(g) <= 1,
         \A i \in DOMAIN g : IsFiniteSet(g[i]) /\ Cardinality(g[i]) <= MaxAdded
  PROVE  IsFiniteSet(UNION Range(g)) /\ Cardinality(UNION Range(g)) <= MaxAdded
<1>1. Len(g) \in {0, 1} /\ DOMAIN g = 1..Len(g)
  <2>1. Len(g) \in Nat
    OBVIOUS
  <2>2. DOMAIN g = 1..Len(g)
    OBVIOUS
  <2> QED BY <2>1, <2>2
<1>2. CASE Len(g) = 0
  <2>1. UNION Range(g) = {}
    <3>1. DOMAIN g = {}
      BY <1>1, <1>2
    <3> QED BY <3>1 DEF Range
  <2>2. Cardinality({}) = 0 /\ IsFiniteSet({}) /\ 0 <= MaxAdded
    BY FS_EmptySet, BudgetAssumption
  <2> QED BY <2>1, <2>2
<1>3. CASE Len(g) = 1
  <2>1. DOMAIN g = {1}
    BY <1>1, <1>3
  <2>2. UNION Range(g) = g[1]
    BY <2>1 DEF Range
  <2> QED BY <2>1, <2>2
<1> QED BY <1>1, <1>2, <1>3

LEMMA GainsOfAppend ==
  ASSUME NEW g \in Seq(SUBSET Evidence), NEW S \in SUBSET Evidence
  PROVE  /\ Append(g, S) \in Seq(SUBSET Evidence)
         /\ UNION Range(Append(g, S)) = (UNION Range(g)) \cup S
<1> DEFINE h == Append(g, S)
<1>1. /\ h \in Seq(SUBSET Evidence) /\ DOMAIN h = (DOMAIN g) \cup {Len(g) + 1}
      /\ h[Len(g) + 1] = S /\ \A i \in DOMAIN g : h[i] = g[i]
  OBVIOUS
<1> HIDE DEF h
<1>2. Range(h) = Range(g) \cup {S}
  BY <1>1 DEF Range
<1>3. UNION Range(h) = (UNION Range(g)) \cup S
  <2>1. \A A : UNION (A \cup {S}) = (UNION A) \cup S
    BY Zenon
  <2> QED BY <1>2, <2>1, Zenon
<1> QED BY <1>1, <1>3 DEF h

(* The bounds inside the loop are the ledger's: nothing bounded overruns it. *)
LEMMA BoundedIsNoOverrun ==
  ASSUME NEW p \in PlanRecord, NEW u \in UsedRecord, Bounded(p, u)
  PROVE  ~Overrun(u)
<1>1. /\ u.candidates \in Nat /\ u.scanned \in Nat /\ u.rewrites \in Nat /\ p.batches \in Nat
  BY DEF PlanRecord, UsedRecord
<1>2. /\ u.initial <= 1 /\ u.rewrites <= p.batches /\ p.batches <= MaxBatches
      /\ u.scanned <= MaxExpanded /\ u.expanded <= MaxExpanded /\ u.merged <= MaxMerged
      /\ u.candidates <= MaxCandidates + p.batches * MaxCandidates
  BY DEF Bounded
<1>3. u.candidates <= MaxTotalCandidates
  <2>1. /\ MaxCandidates \in Nat /\ MaxBatches \in Nat /\ MaxTotalCandidates \in Nat
        /\ (1 + MaxBatches) * MaxCandidates <= MaxTotalCandidates
    BY BudgetAssumption
  <2>2. PICK d \in Nat : MaxBatches = p.batches + d
    <3>1. MaxBatches - p.batches \in Nat /\ MaxBatches = p.batches + (MaxBatches - p.batches)
      BY <1>1, <1>2, <2>1
    <3> QED BY <3>1
  <2> DEFINE x == p.batches * MaxCandidates
             y == d * MaxCandidates
             z == (1 + MaxBatches) * MaxCandidates
  <2>3. x \in Nat /\ y \in Nat
    BY <1>1, <2>1, <2>2
  <2>4. z = MaxCandidates + x + y
    BY <1>1, <2>1, <2>2
  <2>5. u.candidates <= MaxCandidates + x /\ z <= MaxTotalCandidates
    BY <1>2, <2>1
  <2> HIDE DEF x, y, z
  <2> QED BY <1>1, <2>1, <2>3, <2>4, <2>5
<1>4. /\ MaxBatches \in Nat /\ MaxExpanded \in Nat /\ MaxScanned \in Nat /\ MaxExpanded <= MaxScanned
      /\ MaxMerged \in Nat
  BY BudgetAssumption
<1>5. u.initial \in Nat /\ u.expanded \in Nat /\ u.merged \in Nat
  BY DEF UsedRecord
<1>6. ~(u.initial > 1) /\ ~(u.rewrites > MaxBatches) /\ ~(u.scanned > MaxScanned)
      /\ ~(u.expanded > MaxExpanded) /\ ~(u.merged > MaxMerged)
  BY <1>1, <1>2, <1>4, <1>5
<1>7. ~(u.candidates > MaxTotalCandidates)
  <2>1. MaxTotalCandidates \in Nat
    BY BudgetAssumption
  <2> QED BY <1>1, <1>3, <2>1
<1> QED BY <1>6, <1>7 DEF Overrun

LEMMA RewriteEndsKeeps == ASSUME RAGInv, RewriteEnds PROVE RAGInv'
<1> DEFINE p == [plan EXCEPT !.tried = Append(@, "rewrite")]
<1>1. Hold /\ pc = "rewrite"
  BY DEF RewriteEnds, Hold
<1>2. p \in PlanRecord /\ p.gained = plan.gained /\ p.batches = plan.batches
      /\ p.previews = plan.previews
  <2>1. plan \in PlanRecord
    BY InCall
  <2>2. Append(plan.tried, "rewrite") \in Seq({"rewrite", "expand"})
    BY <2>1 DEF PlanRecord
  <2> QED BY <2>1, <2>2 DEF PlanRecord
<1>3. \/ StopWith(p, used, "contract_failure", "evidence_run_mismatch")
      \/ \E n \in {plan.previews, 0, MaxExpanded} :
            /\ plan' = [p EXCEPT !.previews = n] /\ pc' \in {"charge", "expand"}
            /\ UNCHANGED <<out, used>>
  <2>1. p = [p EXCEPT !.previews = plan.previews]
    BY <1>2 DEF PlanRecord
  <2> QED BY <2>1 DEF RewriteEnds
<1> HIDE DEF p
<1>4. Bounded(p, used) /\ FiniteGains(p)
  BY <1>2, InCall DEF Bounded, FiniteGains
<1>5. CASE StopWith(p, used, "contract_failure", "evidence_run_mismatch")
  <2>1. "contract_failure" \in Stops /\ "evidence_run_mismatch" \in StopDetails
    BY DEF Stops, StopDetails
  <2> QED BY <1>1, <1>2, <1>4, <1>5, <2>1, InCall, StopKeeps
<1>6. ASSUME NEW n \in {plan.previews, 0, MaxExpanded}, plan' = [p EXCEPT !.previews = n],
             pc' \in {"charge", "expand"}, UNCHANGED <<out, used>>
      PROVE  RAGInv'
  <2>1. n \in Nat /\ n <= MaxExpanded
    <3>1. plan.previews \in Nat /\ plan.previews <= MaxExpanded
      BY InCall DEF Bounded, PlanRecord
    <3> QED BY <3>1, BudgetAssumption
  <2>2. /\ plan' \in PlanRecord /\ plan'.gained = plan.gained /\ plan'.batches = plan.batches
        /\ plan'.previews = n
    BY <1>2, <1>6, <2>1 DEF PlanRecord
  <2>3. Bounded(plan', used') /\ FiniteGains(plan')
    BY <1>6, <2>1, <2>2, InCall DEF Bounded, FiniteGains
  <2>4. /\ plan.gained \in Seq(SUBSET Evidence) /\ Len(plan.gained) <= 1
        /\ \A i \in DOMAIN plan.gained :
              IsFiniteSet(plan.gained[i]) /\ Cardinality(plan.gained[i]) <= MaxAdded
    BY <1>1, InCall DEF BoundedOnTheWay, PlanRecord, FiniteGains
  <2>5. /\ IsFiniteSet(UNION Range(plan.gained))
        /\ Cardinality(UNION Range(plan.gained)) <= MaxAdded + MaxExpanded
    <3>1. /\ IsFiniteSet(UNION Range(plan.gained))
          /\ Cardinality(UNION Range(plan.gained)) <= MaxAdded
      BY <2>4, GainsOfOne
    <3> QED BY <3>1, FS_CardinalityType, BudgetAssumption
  <2>6. used.merged <= MaxSelected
    BY <1>1, InCall DEF BoundedOnTheWay, Uncharged
  <2>7. BoundedOnTheWay'
    BY <1>6, <2>2, <2>4, <2>5, <2>6 DEF BoundedOnTheWay, Unplanned, Unasked
  <2>8. GainedByMerge' /\ OnlyReadyCarriesEvidence'
    BY <1>6 DEF GainedByMerge, OnlyReadyCarriesEvidence
  <2>9. pc # "done" /\ pc' \in Locations \ {"compose", "done"}
    BY <1>1, <1>6 DEF Locations
  <2> QED BY <1>1, <1>6, <2>2, <2>3, <2>7, <2>8, <2>9, InCall, HoldKeeps
<1> QED BY <1>3, <1>5, <1>6

LEMMA ExpandKeeps == ASSUME RAGInv, Expand PROVE RAGInv'
<1>1. Hold /\ pc = "expand" /\ pc' = "charge" /\ UNCHANGED out
  BY DEF Expand, Hold
<1> DEFINE rel == ExternalRelease
<1>2. PICK D \in SUBSET Authorized(rel) :
         LET made == EvidenceOf(rel, D, "expansion")
             add  == {e \in made : RefOf(e) \notin Known} IN
         /\ Cardinality(D) <= plan.previews
         /\ plan' = [plan EXCEPT !.tried = Append(@, "expand"), !.gained = Append(@, add)]
         /\ used' = [used EXCEPT !.scanned = plan.previews, !.expanded = Cardinality(add)]
  BY DEF Expand
<1> DEFINE made == EvidenceOf(rel, D, "expansion")
           add == {e \in made : RefOf(e) \notin Known}
<1>3. /\ IsFiniteSet(D) /\ made \subseteq Evidence /\ IsFiniteSet(made)
      /\ Cardinality(made) <= Cardinality(D)
  BY AuthorizedEvidence DEF Runs
<1>4. add \in SUBSET made
  OBVIOUS
<1>5. /\ plan' = [plan EXCEPT !.tried = Append(@, "expand"), !.gained = Append(@, add)]
      /\ used' = [used EXCEPT !.scanned = plan.previews, !.expanded = Cardinality(add)]
      /\ Cardinality(D) <= plan.previews
  BY <1>2
<1> HIDE DEF rel, made, add
<1>6. /\ add \in SUBSET Evidence /\ IsFiniteSet(add) /\ Cardinality(add) <= Cardinality(made)
      /\ Cardinality(add) \in Nat /\ Cardinality(made) \in Nat /\ Cardinality(D) \in Nat
  BY <1>3, <1>4, FS_Subset, FS_CardinalityType
<1>7. /\ plan \in PlanRecord /\ used \in UsedRecord /\ plan.previews \in Nat
      /\ plan.previews <= MaxExpanded /\ plan.gained \in Seq(SUBSET Evidence)
  BY InCall DEF Bounded, PlanRecord
<1>8. Cardinality(add) <= MaxExpanded
  <2>1. MaxExpanded \in Nat
    BY BudgetAssumption
  <2>2. Cardinality(made) <= Cardinality(D)
    BY <1>3
  <2>3. Cardinality(D) <= plan.previews
    BY <1>5
  <2>4. /\ Cardinality(add) <= Cardinality(made)
        /\ Cardinality(add) \in Nat /\ Cardinality(made) \in Nat /\ Cardinality(D) \in Nat
    BY <1>6
  <2>5. plan.previews \in Nat /\ plan.previews <= MaxExpanded
    BY <1>7
  <2> QED BY <2>1, <2>2, <2>3, <2>4, <2>5
<1> DEFINE h == Append(plan.gained, add)
<1>9. /\ h \in Seq(SUBSET Evidence)
      /\ UNION Range(h) = (UNION Range(plan.gained)) \cup add
  BY <1>6, <1>7, GainsOfAppend
<1>10. FiniteGains([gained |-> h])
  <2>1. \A i \in DOMAIN h : h[i] = add \/ (i \in DOMAIN plan.gained /\ h[i] = plan.gained[i])
    BY <1>7
  <2> HIDE DEF h
  <2> QED BY <1>6, <2>1, InCall DEF FiniteGains
<1> HIDE DEF h
<1>11. /\ plan' \in PlanRecord /\ plan'.gained = h /\ plan'.batches = plan.batches
       /\ plan'.previews = plan.previews
  <2>1. Append(plan.tried, "expand") \in Seq({"rewrite", "expand"})
    BY <1>7 DEF PlanRecord
  <2>2. plan' = [plan EXCEPT !.tried = Append(plan.tried, "expand"), !.gained = h]
    BY <1>5 DEF h
  <2> QED BY <1>7, <1>9, <2>1, <2>2 DEF PlanRecord
<1>12. /\ used' \in UsedRecord /\ used'.scanned = plan.previews
       /\ used'.expanded = Cardinality(add) /\ used'.initial = used.initial
       /\ used'.rewrites = used.rewrites /\ used'.candidates = used.candidates
       /\ used'.merged = used.merged
  BY <1>5, <1>6, <1>7 DEF UsedRecord
<1>13. Bounded(plan', used')
  BY <1>7, <1>8, <1>11, <1>12, InCall DEF Bounded
<1>14. FiniteGains(plan')
  BY <1>10, <1>11 DEF FiniteGains
<1>15. /\ IsFiniteSet(UNION Range(h))
       /\ Cardinality(UNION Range(h)) <= MaxAdded + MaxExpanded
  <2>1. /\ Len(plan.gained) <= 1
        /\ \A i \in DOMAIN plan.gained :
              IsFiniteSet(plan.gained[i]) /\ Cardinality(plan.gained[i]) <= MaxAdded
    BY <1>1, InCall DEF BoundedOnTheWay, FiniteGains
  <2> DEFINE G == UNION Range(plan.gained)
  <2>2. IsFiniteSet(G) /\ Cardinality(G) <= MaxAdded
    BY <1>7, <2>1, GainsOfOne
  <2> HIDE DEF G
  <2>3. /\ IsFiniteSet(G \cup add)
        /\ Cardinality(G \cup add) <= Cardinality(G) + Cardinality(add)
    BY <1>6, <2>2, UnionIsSmall
  <2>4. Cardinality(G \cup add) \in Nat /\ Cardinality(G) \in Nat
    BY <2>2, <2>3, FS_CardinalityType
  <2>5. Cardinality(G \cup add) <= MaxAdded + MaxExpanded
    BY <1>6, <1>8, <2>2, <2>3, <2>4, BudgetAssumption
  <2> QED BY <1>9, <2>3, <2>5 DEF G
<1>16. used'.merged <= MaxSelected
  BY <1>1, <1>12, InCall DEF BoundedOnTheWay, Uncharged
<1>17. BoundedOnTheWay'
  BY <1>1, <1>11, <1>15, <1>16 DEF BoundedOnTheWay, Unplanned, Unasked
<1>18. GainedByMerge' /\ OnlyReadyCarriesEvidence'
  BY <1>1 DEF GainedByMerge, OnlyReadyCarriesEvidence
<1>19. pc # "done" /\ pc' \in Locations \ {"compose", "done"}
  BY <1>1 DEF Locations
<1> QED BY <1>1, <1>11, <1>12, <1>13, <1>14, <1>17, <1>18, <1>19, InCall, HoldKeeps

LEMMA ChargeKeeps == ASSUME RAGInv, Charge PROVE RAGInv'
<1> DEFINE G == UNION Range(plan.gained)
           u == [used EXCEPT !.merged = @ + Cardinality(G)]
<1>1. Hold /\ pc = "charge"
  BY DEF Charge, Hold
<1>2. /\ IsFiniteSet(G) /\ Cardinality(G) <= MaxAdded + MaxExpanded
      /\ used.merged <= MaxSelected /\ used \in UsedRecord /\ used.merged \in Nat
  BY <1>1, InCall DEF BoundedOnTheWay, Uncharged, UsedRecord
<1>3. Cardinality(G) \in Nat
  BY <1>2, FS_CardinalityType
<1>4. \/ Overrun(u)
      \/ G = {} /\ StopWith(plan, u, "no_progress", "no_recovery_evidence_gain")
      \/ G # {} /\ pc' = "merge" /\ used' = u /\ UNCHANGED <<plan, out>>
  BY DEF Charge
<1> HIDE DEF G
<1>5. /\ u \in UsedRecord /\ u.merged = used.merged + Cardinality(G) /\ u.initial = used.initial
      /\ u.rewrites = used.rewrites /\ u.candidates = used.candidates
      /\ u.scanned = used.scanned /\ u.expanded = used.expanded
  BY <1>2, <1>3 DEF UsedRecord
<1> HIDE DEF u
<1>6. u.merged <= MaxMerged
  BY <1>2, <1>3, <1>5, BudgetAssumption
<1>7. Bounded(plan, u)
  BY <1>5, <1>6, InCall DEF Bounded
<1>8. ~Overrun(u)
  BY <1>5, <1>7, InCall, BoundedIsNoOverrun
<1>9. CASE StopWith(plan, u, "no_progress", "no_recovery_evidence_gain")
  <2>1. "no_progress" \in Stops /\ "no_recovery_evidence_gain" \in StopDetails
    BY DEF Stops, StopDetails
  <2> QED BY <1>1, <1>5, <1>7, <1>9, <2>1, InCall, StopKeeps
<1>10. CASE G # {} /\ pc' = "merge" /\ used' = u /\ UNCHANGED <<plan, out>>
  <2>1. BoundedOnTheWay' /\ GainedByMerge' /\ OnlyReadyCarriesEvidence'
    BY <1>10 DEF BoundedOnTheWay, GainedByMerge, OnlyReadyCarriesEvidence, Uncharged,
       Unplanned, Unasked, G
  <2>2. pc # "done" /\ pc' \in Locations \ {"compose", "done"}
    BY <1>1, <1>10 DEF Locations
  <2>3. Bounded(plan', used') /\ FiniteGains(plan')
    BY <1>7, <1>10, InCall DEF Bounded, FiniteGains
  <2> QED BY <1>1, <1>5, <1>10, <2>1, <2>2, <2>3, InCall, HoldKeeps
<1> QED BY <1>4, <1>8, <1>9, <1>10

(* The sources of a merge, latest gain first, are evidence and, after a gain,  *)
(* hold some.                                                                  *)
LEMMA SourcesInOrder ==
  ASSUME RAGInv
  PROVE  /\ DOMAIN Sources = 1..(Len(plan.gained) + 1)
         /\ \A j \in 1..Len(plan.gained) :
               Sources[j] = plan.gained[(Len(plan.gained) - j) + 1]
         /\ \A i \in DOMAIN Sources : Sources[i] \subseteq Evidence
<1> DEFINE g == plan.gained
           n == Len(plan.gained)
           r == Reverse(plan.gained)
<1>1. g \in Seq(SUBSET Evidence) /\ out.sel \in SUBSET Evidence
  BY InCall DEF PlanRecord, OutRecord
<1>2. n \in Nat /\ DOMAIN g = 1..n /\ \A i \in 1..n : g[i] \in SUBSET Evidence
  BY <1>1
<1>3. r = [i \in 1..n |-> g[(n - i) + 1]]
  BY DEF Reverse
<1> HIDE DEF g, r, n
<1>4. \A i \in 1..n : (n - i) + 1 \in 1..n /\ (n - ((n - i) + 1)) + 1 = i
  BY <1>2
<1>5. r \in Seq(SUBSET Evidence) /\ Len(r) = n
  BY <1>2, <1>3, <1>4
<1>6. Sources = r \o <<out.sel>>
  BY DEF Sources, r
<1>7. /\ DOMAIN Sources = 1..(n + 1)
      /\ \A j \in 1..n : Sources[j] = r[j]
      /\ Sources[n + 1] = out.sel
  BY <1>1, <1>2, <1>5, <1>6
<1>8. \A i \in DOMAIN Sources : Sources[i] \subseteq Evidence
  BY <1>1, <1>2, <1>3, <1>4, <1>7
<1>9. \A j \in 1..n : Sources[j] = g[(n - j) + 1]
  BY <1>3, <1>7
<1> QED BY <1>7, <1>8, <1>9 DEF g, n

LEMMA SourcesAreTyped ==
  ASSUME RAGInv
  PROVE  /\ \A i \in DOMAIN Sources : Sources[i] \subseteq Evidence
         /\ \A i \in DOMAIN plan.gained :
               \E j \in DOMAIN Sources : Sources[j] = plan.gained[i]
<1> DEFINE g == plan.gained
           n == Len(plan.gained)
<1>1. n \in Nat /\ DOMAIN g = 1..n
  <2>1. g \in Seq(SUBSET Evidence)
    BY InCall DEF PlanRecord
  <2> QED BY <2>1
<1>2. /\ DOMAIN Sources = 1..(n + 1) /\ \A j \in 1..n : Sources[j] = g[(n - j) + 1]
      /\ \A i \in DOMAIN Sources : Sources[i] \subseteq Evidence
  BY SourcesInOrder
<1> HIDE DEF g, n
<1>3. ASSUME NEW i \in DOMAIN g PROVE \E j \in DOMAIN Sources : Sources[j] = g[i]
  <2> DEFINE j == (n - i) + 1
  <2>1. j \in 1..n /\ (n - j) + 1 = i /\ j \in DOMAIN Sources
    BY <1>1, <1>2, <1>3
  <2> HIDE DEF j
  <2> QED BY <1>2, <2>1
<1> QED BY <1>2, <1>3 DEF g

LEMMA MergeKeeps == ASSUME RAGInv, Merge PROVE RAGInv'
<1> DEFINE rel == LoadBundle
           all == UNION {RefsOf(Sources[j]) : j \in DOMAIN Sources}
<1>1. Hold /\ pc = "merge"
  BY DEF Merge, Hold
<1>2. \/ \E ends \in {"contract_failure", "unsafe"} :
            \E why \in {"recovery_authority_unavailable", "recovery_identity_drift",
                       "recovery_reauthorization_denied", "recovery_context_unavailable"} :
               StopWith(plan, used, ends, why)
      \/ /\ rel # Nil
         /\ \E R \in SUBSET all :
               /\ Cardinality(R) = Min({MaxSelected, Cardinality(all)})
               /\ out' = [out EXCEPT !.reason = "evidence_retrieved",
                                     !.sel = HydratedFrom(rel, R, "parent")]
         /\ plan' = [plan EXCEPT !.ends = "answer_ready",
                                 !.detail = "recovery_evidence_merged"]
         /\ pc' = "gate" /\ UNCHANGED used
  BY DEF Merge, IsMerge
<1>3. all \in SUBSET Refs
  BY SourcesAreTyped DEF RefsOf, RefOf, Refs, Evidence
<1>4. all # {}
  <2>1. PICK i \in DOMAIN plan.gained : \E e : e \in plan.gained[i]
    BY <1>1 DEF RAGInv, CallInv, GainedByMerge, Range
  <2>2. PICK j \in DOMAIN Sources : Sources[j] = plan.gained[i]
    BY <2>1, SourcesAreTyped
  <2>3. PICK e : e \in Sources[j]
    BY <2>1, <2>2
  <2>4. RefOf(e) \in RefsOf(Sources[j])
    BY <2>3 DEF RefsOf
  <2> QED BY <2>2, <2>4
<1>5. rel \in Releases \cup {ExternalRelease, Nil}
  BY BundleIsTyped DEF RAGInv
<1> HIDE DEF rel, all
<1>6. IsFiniteSet(all) /\ Cardinality(all) \in Nat /\ Cardinality(all) # 0
  BY <1>3, <1>4, RefsAreFinite, FS_Subset, FS_CardinalityType, FS_EmptySet
<1>7. ASSUME NEW ends \in {"contract_failure", "unsafe"},
             NEW why \in {"recovery_authority_unavailable", "recovery_identity_drift",
                          "recovery_reauthorization_denied", "recovery_context_unavailable"},
             StopWith(plan, used, ends, why)
      PROVE  RAGInv'
  <2>1. ends \in Stops /\ why \in StopDetails
    BY DEF Stops, StopDetails
  <2> QED BY <1>1, <1>7, <2>1, InCall, StopKeeps
<1>8. ASSUME rel # Nil, NEW R \in SUBSET all,
             Cardinality(R) = Min({MaxSelected, Cardinality(all)}),
             out' = [out EXCEPT !.reason = "evidence_retrieved",
                                !.sel = HydratedFrom(rel, R, "parent")],
             plan' = [plan EXCEPT !.ends = "answer_ready",
                                  !.detail = "recovery_evidence_merged"],
             pc' = "gate", UNCHANGED used
      PROVE  RAGInv'
  <2> DEFINE S == HydratedFrom(rel, R, "parent")
  <2>1. /\ S \subseteq Evidence /\ IsFiniteSet(S) /\ Cardinality(S) <= Cardinality(R)
        /\ IsFiniteSet(R)
    <3>1. rel \in Releases \cup {ExternalRelease} /\ R \in SUBSET Refs
      BY <1>3, <1>5, <1>8
    <3> QED BY <3>1, HydratedEvidence
  <2>2. Cardinality(R) \in Nat /\ Cardinality(S) \in Nat
    BY <2>1, FS_CardinalityType
  <2>3. /\ MaxSelected \in Nat /\ MaxSelected # 0
    BY BudgetAssumption
  <2>4. Cardinality(R) <= MaxSelected /\ Cardinality(R) # 0
    BY <1>6, <1>8, <2>3, MinOfTwo
  <2>5. R # {}
    BY <2>4, FS_EmptySet
  <2>6. S # {}
    BY <2>5 DEF HydratedFrom
  <2> HIDE DEF S
  <2>7. Cardinality(S) <= MaxSelected
    BY <2>1, <2>2, <2>3, <2>4
  <2>8. out' \in OutRecord /\ out'.sel = S
    <3>1. out' = [out EXCEPT !.reason = "evidence_retrieved", !.sel = S]
      BY <1>8 DEF S
    <3> QED BY <2>1, <3>1, InCall DEF OutRecord, OutReasons
  <2>9. /\ plan' \in PlanRecord /\ plan'.gained = plan.gained /\ plan'.batches = plan.batches
        /\ plan'.previews = plan.previews /\ plan'.ends = "answer_ready"
    BY <1>8, InCall DEF PlanRecord
  <2>10. Bounded(plan', used') /\ FiniteGains(plan')
    BY <1>8, <2>9, InCall DEF Bounded, FiniteGains
  <2>11. BoundedOnTheWay' /\ GainedByMerge'
    BY <1>8 DEF BoundedOnTheWay, GainedByMerge, Uncharged, Unplanned, Unasked
  <2>12. OnlyReadyCarriesEvidence'
    BY <2>6, <2>8, <2>9 DEF OnlyReadyCarriesEvidence
  <2>13. pc # "done" /\ pc' \in Locations \ {"compose", "done"}
    BY <1>1, <1>8 DEF Locations
  <2> QED BY <1>1, <1>8, <2>1, <2>7, <2>8, <2>9, <2>10, <2>11, <2>12, <2>13, InCall, HoldKeeps
<1> QED BY <1>2, <1>7, <1>8

-----------------------------------------------------------------------------
(* The gate and the composer. *)

Settled == UNCHANGED <<ask, out, used, plan, storeVars>>

(* What the call holds is kept by a step that only judges or answers. *)
LEMMA SettledKeeps ==
  ASSUME RAGInv, Settled, pc' \in {"compose", "raised", "done"},
         visible' \subseteq Evidence, result'.cited \subseteq visible',
         GateHolds', NothingCitedBefore', OnlyReadyCarriesEvidence', AnswerFromOneRelease'
  PROVE  RAGInv'
<1>1. StoreInv'
  BY StoreStepInv DEF RAGInv, Settled
<1>2. CallTypes'
  BY DEF RAGInv, CallInv, CallTypes, Settled, FiniteGains, Locations
<1>3. Bounded(plan, used)'
  BY DEF RAGInv, CallInv, Bounded, Settled
<1>4. BoundedOnTheWay' /\ GainedByMerge'
  BY DEF BoundedOnTheWay, GainedByMerge, Uncharged, Unplanned, Unasked
<1> QED BY <1>1, <1>2, <1>3, <1>4 DEF RAGInv, CallInv

(* An answer that cites nothing promises nothing. *)
LEMMA UncitedKeeps ==
  ASSUME RAGInv, Settled, pc' \in {"raised", "done"}, visible' \subseteq Evidence,
         result'.cited = {}
  PROVE  RAGInv'
<1>1. GateHolds' /\ NothingCitedBefore' /\ OnlyReadyCarriesEvidence' /\ AnswerFromOneRelease'
  BY DEF GateHolds, NothingCitedBefore, OnlyReadyCarriesEvidence, AnswerFromOneRelease
<1> QED BY <1>1, SettledKeeps

LEMMA GateKeeps == ASSUME RAGInv, Gate PROVE RAGInv'
<1> DEFINE rel == LoadBundle
<1>1. Settled /\ pc = "gate" /\ visible \subseteq Evidence
  BY DEF Gate, Settled, RAGInv, CallInv, CallTypes
<1>2. out.sel \in SUBSET Evidence
  BY InCall DEF OutRecord
<1>3. ASSUME NEW why, Answer(why, {}), visible' \in {visible} \cup SUBSET out.sel
      PROVE  RAGInv'
  <2>1. pc' = "done" /\ result'.cited = {} /\ visible' \subseteq Evidence
    BY <1>1, <1>2, <1>3 DEF Answer
  <2> QED BY <1>1, <2>1, UncitedKeeps
<1>4. ASSUME rel # Nil, gate' = rel, "answer_allowed" \in GateReasons(rel),
             visible' \in SUBSET out.sel, pc' = "compose", UNCHANGED result
      PROVE  RAGInv'
  <2>1. /\ \A e \in out.sel : ~Stale(e, rel) /\ MayRead(e.text) /\ e.text \notin Unsafe
        /\ ask.need \subseteq {e.doc : e \in out.sel}
    BY <1>4 DEF GateReasons
  <2> HIDE DEF rel
  <2>2. GateHolds'
    BY <1>1, <1>4, <2>1 DEF GateHolds, Stale, MayRead, Settled
  <2>3. result'.cited = {}
    BY <1>1, <1>4 DEF RAGInv, CallInv, NothingCitedBefore
  <2>4. NothingCitedBefore' /\ AnswerFromOneRelease'
    BY <2>3 DEF NothingCitedBefore, AnswerFromOneRelease
  <2>5. OnlyReadyCarriesEvidence'
    BY <1>1 DEF RAGInv, CallInv, OnlyReadyCarriesEvidence, Settled
  <2> QED BY <1>1, <1>2, <1>4, <2>2, <2>3, <2>4, <2>5, SettledKeeps
<1> QED BY <1>3, <1>4 DEF Gate, kSubset

LEMMA ComposeKeeps == ASSUME RAGInv, Compose PROVE RAGInv'
<1>1. Settled /\ pc = "compose" /\ UNCHANGED <<gate, visible>> /\ visible \subseteq Evidence
  BY DEF Compose, Settled, RAGInv, CallInv, CallTypes
<1>2. result.cited = {}
  BY <1>1 DEF RAGInv, CallInv, NothingCitedBefore
<1>3. ASSUME NEW C \in SUBSET visible, Answer("answer_completed", C)
      PROVE  RAGInv'
  <2>1. pc' = "done" /\ result'.cited = C
    BY <1>3 DEF Answer
  <2>2. \A e \in C : ~Stale(e, gate) /\ MayRead(e.text) /\ e.text \notin Unsafe
    BY <1>1 DEF RAGInv, CallInv, GateHolds
  <2>3. ask.need \subseteq {e.doc : e \in out.sel}
    BY <1>1 DEF RAGInv, CallInv, GateHolds
  <2>4. AnswerFromOneRelease'
    BY <1>1, <2>1, <2>2, <2>3 DEF AnswerFromOneRelease, Stale, MayRead, Settled
  <2>5. GateHolds' /\ NothingCitedBefore' /\ OnlyReadyCarriesEvidence'
    BY <2>1 DEF GateHolds, NothingCitedBefore, OnlyReadyCarriesEvidence
  <2> QED BY <1>1, <2>1, <2>4, <2>5, SettledKeeps
<1>4. \/ pc' = "done" /\ result'.cited = {}
      \/ pc' = "raised" /\ UNCHANGED result
      \/ \E C \in SUBSET visible : Answer("answer_completed", C)
  BY DEF Compose, Answer
<1> QED BY <1>1, <1>2, <1>3, <1>4, UncitedKeeps

LEMMA CallerSeesErrorKeeps == ASSUME RAGInv, CallerSeesError PROVE RAGInv'
<1>1. /\ Settled /\ pc' = "done" /\ result'.cited = {} /\ visible' \subseteq Evidence
  BY DEF CallerSeesError, Answer, Settled, RAGInv, CallInv, CallTypes
<1> QED BY <1>1, UncitedKeeps

-----------------------------------------------------------------------------
LEMMA AskKeeps == ASSUME RAGInv, Ask PROVE RAGInv'
<1>1. /\ Hold /\ UNCHANGED <<out, used, plan>> /\ pc = "idle" /\ pc' = "acquire"
  BY DEF Ask, Hold
<1>2. used = NoneUsed /\ used.merged <= MaxSelected /\ plan = NoPlan
  BY <1>1, InCall DEF BoundedOnTheWay, Unasked, Unplanned, Uncharged
<1>3. BoundedOnTheWay' /\ GainedByMerge' /\ OnlyReadyCarriesEvidence'
  BY <1>1, <1>2 DEF BoundedOnTheWay, GainedByMerge, OnlyReadyCarriesEvidence
<1>4. Bounded(plan', used') /\ FiniteGains(plan')
  BY <1>1, InCall DEF Bounded, FiniteGains
<1> QED BY <1>1, <1>3, <1>4, InCall, HoldKeeps DEF Locations

LEMMA WorldKeeps ==
  ASSUME RAGInv, [StoreNext]_storeVars, UNCHANGED ragVars
  PROVE  RAGInv'
<1>1. StoreInv'
  BY StoreStepInv DEF RAGInv
<1>2. UNCHANGED <<ask, pc, out, used, plan, gate, visible, result>>
  BY DEF ragVars
<1>3. CallTypes' /\ Bounded(plan, used)' /\ BoundedOnTheWay' /\ GainedByMerge'
  BY <1>2 DEF RAGInv, CallInv, CallTypes, FiniteGains, Bounded, BoundedOnTheWay, GainedByMerge
<1>4. GateHolds' /\ NothingCitedBefore'
  BY <1>2 DEF RAGInv, CallInv, GateHolds, NothingCitedBefore, Stale, MayRead
<1>5. OnlyReadyCarriesEvidence' /\ AnswerFromOneRelease'
  BY <1>2 DEF RAGInv, CallInv, OnlyReadyCarriesEvidence, AnswerFromOneRelease, MayRead
<1> QED BY <1>1, <1>3, <1>4, <1>5 DEF RAGInv, CallInv

LEMMA RAGInitInv == Init => RAGInv
<1> SUFFICES ASSUME Init PROVE RAGInv
  OBVIOUS
<1>1. StoreInv
  BY StoreInitInv DEF Init
<1>2. /\ ask \in Asks /\ pc = "idle" /\ out = NoOutcome /\ used = NoneUsed /\ plan = NoPlan
      /\ gate = Nil /\ visible = {} /\ result = NoAnswer
  BY DEF Init, RAGInit
<1>3. /\ NoOutcome \in OutRecord /\ NoneUsed \in UsedRecord
  BY DEF NoOutcome, NoneUsed, OutRecord, OutReasons, UsedRecord
<1>4. NoPlan \in PlanRecord
  BY DEF NoPlan, PlanRecord, Forms, Stops, StopDetails
<1>5. IsFiniteSet({}) /\ Cardinality({}) = 0 /\ MaxSelected \in Nat
  BY FS_EmptySet, BudgetAssumption
<1>6. out.sel = {} /\ FiniteGains(plan) /\ result.cited = {}
  BY <1>2 DEF NoOutcome, NoPlan, NoAnswer, FiniteGains
<1>7. CallTypes
  BY <1>2, <1>3, <1>4, <1>5, <1>6 DEF CallTypes, Locations
<1>8. Bounded(plan, used)
  BY <1>2, BudgetAssumption DEF Bounded, NoPlan, NoneUsed
<1>9. BoundedOnTheWay
  <2>1. used.merged <= MaxSelected
    BY <1>2, <1>5 DEF NoneUsed
  <2> QED BY <1>2, <2>1 DEF BoundedOnTheWay
<1>10. GainedByMerge /\ GateHolds /\ NothingCitedBefore /\ OnlyReadyCarriesEvidence
       /\ AnswerFromOneRelease
  BY <1>2, <1>6 DEF GainedByMerge, GateHolds, NothingCitedBefore, OnlyReadyCarriesEvidence,
     AnswerFromOneRelease
<1> QED BY <1>1, <1>7, <1>8, <1>9, <1>10 DEF RAGInv, CallInv

LEMMA RAGStepInv == RAGInv /\ [Next]_vars => RAGInv'
<1> SUFFICES ASSUME RAGInv, [Next]_vars PROVE RAGInv'
  OBVIOUS
<1>1. CASE Ask
  BY <1>1, AskKeeps
<1>2. CASE RAGStep
  BY <1>2, RehydrateKeeps, RetrieveInitialKeeps, ResolveKeeps, ObserveKeeps, RewriteBatchKeeps,
     RewriteEndsKeeps, ExpandKeeps, ChargeKeeps, MergeKeeps, GateKeeps, ComposeKeeps,
     CallerSeesErrorKeeps DEF RAGStep
<1>3. CASE StoreNext /\ UNCHANGED ragVars
  BY <1>3, WorldKeeps
<1>4. CASE UNCHANGED vars
  <2>1. UNCHANGED storeVars /\ UNCHANGED ragVars
    BY <1>4 DEF vars
  <2> QED BY <2>1, WorldKeeps
<1> QED BY <1>1, <1>2, <1>3, <1>4 DEF Next

-----------------------------------------------------------------------------
(* The store, the question in hand and all it holds keep their types, for any  *)
(* operators, catalogs, questions and budgets.                                 *)
THEOREM RAGTypesAreRight == Spec => []TypeOK
<1>1. RAGInv => TypeOK
  <2> SUFFICES ASSUME RAGInv PROVE TypeOK
    OBVIOUS
  <2>1. StoreTypeOK /\ CallTypes
    BY DEF RAGInv, StoreInv, CallInv
  <2>2. out.sel \subseteq Evidence /\ out.rel \in Releases \cup {ExternalRelease, Nil}
    BY <2>1 DEF CallTypes, OutRecord
  <2>3. \A f \in DOMAIN used : used[f] \in Nat
    BY <2>1 DEF CallTypes, UsedRecord
  <2>4. \A i \in DOMAIN plan.gained : plan.gained[i] \subseteq Evidence
    BY <2>1 DEF CallTypes, PlanRecord
  <2> QED BY <2>1, <2>2, <2>3, <2>4 DEF TypeOK, CallTypes
<1> QED BY RAGInitInv, RAGStepInv, <1>1, PTL DEF Spec

(* Whatever is published, rolled back or damaged meanwhile, all that an answer *)
(* cites is of the one release the gate judged, says there what it is quoted   *)
(* for, and may be shown to the caller (RAGAnswerFlow._gate).                  *)
THEOREM AnswersRestOnOneRelease == Spec => []AnswerFromOneRelease
<1>1. RAGInv => AnswerFromOneRelease
  BY DEF RAGInv, CallInv
<1> QED BY RAGInitInv, RAGStepInv, <1>1, PTL DEF Spec

(* A recovery hands evidence to the gate exactly when it ends answer_ready     *)
(* (rag_subgraph._stopped_outcome).                                            *)
THEOREM OnlyReadyRecoveriesCarry == Spec => []OnlyReadyCarriesEvidence
<1>1. RAGInv => OnlyReadyCarriesEvidence
  BY DEF RAGInv, CallInv
<1> QED BY RAGInitInv, RAGStepInv, <1>1, PTL DEF Spec

(* Under budgets that leave room for one retrieval and every batch, and for    *)
(* all three sources, no recovery is ever found to have overrun its ledger     *)
(* (rag_subgraph.ChildLedger).                                                 *)
THEOREM NoRecoveryOverruns == Spec => []RecoveryNeverOverruns
<1>1. RAGInv => RecoveryNeverOverruns
  <2> SUFFICES ASSUME RAGInv PROVE RecoveryNeverOverruns
    OBVIOUS
  <2>1. ~Overrun(used)
    BY InCall, BoundedIsNoOverrun
  <2>2. plan.detail # "recovery_budget_overrun"
    BY InCall DEF PlanRecord, StopDetails, OutReasons
  <2> QED BY <2>1, <2>2 DEF RecoveryNeverOverruns
<1> QED BY RAGInitInv, RAGStepInv, <1>1, PTL DEF Spec

(* While questions are answered the active pointer keeps naming a release that *)
(* was completely written (activate_release, rollback_active_release).         *)
THEOREM PointerStaysSoundUnderQuestions == Spec => []PointerIsSound
<1>1. RAGInv => PointerIsSound
  BY DEF RAGInv, StoreInv
<1> QED BY RAGInitInv, RAGStepInv, <1>1, PTL DEF Spec

-----------------------------------------------------------------------------
(* What a recovery found last. *)

(* At most one rewrite and one expansion have gained anything. *)
FewGains == pc \in {"charge", "merge"} => Len(plan.gained) <= 2

SurvivorInv == RAGInv /\ FewGains /\ RecoveredEvidenceSurvives

Latest(i) == plan.gained[i] # {} /\ \A j \in DOMAIN plan.gained : j > i => plan.gained[j] = {}

(* A step that stops short of the gate, or stops the recovery there. *)
LEMMA StopSurvives ==
  ASSUME NEW p \in PlanRecord, NEW u, NEW ends \in Stops, NEW why, StopWith(p, u, ends, why)
  PROVE  FewGains' /\ RecoveredEvidenceSurvives'
<1>1. plan'.ends = ends /\ pc' = "gate" /\ ends # "answer_ready"
  BY DEF StopWith, PlanRecord, Stops
<1> QED BY <1>1 DEF FewGains, RecoveredEvidenceSurvives

(* A merge that has something to merge keeps some of what was gained last: the *)
(* places are filled source by source, the latest gain first.                  *)
LEMMA MergeKeepsTheLatest ==
  ASSUME RAGInv, FewGains, pc = "merge", NEW R, IsMerge(R),
         R \subseteq UNION {RefsOf(Sources[j]) : j \in DOMAIN Sources}
  PROVE  \E i \in DOMAIN plan.gained : Latest(i) /\ RefsOf(plan.gained[i]) \cap R # {}
<1> DEFINE g == plan.gained
           n == Len(g)
           S == Sources
           all == UNION {RefsOf(S[j]) : j \in DOMAIN S}
           before(k) == UNION {RefsOf(S[j]) : j \in 1..(k - 1)}
<1>1. g \in Seq(SUBSET Evidence) /\ n \in 0..2 /\ DOMAIN g = 1..n
  <2>1. g \in Seq(SUBSET Evidence)
    BY InCall DEF PlanRecord
  <2>2. n \in Nat /\ DOMAIN g = 1..n
    BY <2>1
  <2>3. n <= 2
    BY DEF FewGains
  <2> HIDE DEF g, n
  <2> QED BY <2>1, <2>2, <2>3
<1>2. PICK i \in DOMAIN g : Latest(i)
  <2>1. PICK k \in DOMAIN g : g[k] # {}
    BY DEF RAGInv, CallInv, GainedByMerge, Range
  <2>2. CASE n = 2 /\ g[2] # {}
    BY <1>1, <2>2 DEF Latest
  <2>3. CASE n = 2 /\ g[2] = {}
    BY <1>1, <2>1, <2>3 DEF Latest
  <2>4. CASE n = 1
    BY <1>1, <2>1, <2>4 DEF Latest
  <2> QED BY <1>1, <2>1, <2>2, <2>3, <2>4
<1>3. /\ DOMAIN S = 1..(n + 1) /\ \A j \in 1..n : S[j] = g[(n - j) + 1]
      /\ \A j \in DOMAIN S : S[j] \subseteq Evidence
  BY SourcesInOrder, SourcesAreTyped
<1> DEFINE k == (n - i) + 1
<1>4. k \in DOMAIN S /\ S[k] = g[i] /\ \A j \in DOMAIN S : j < k => S[j] = {}
  <2>1. k \in 1..n /\ (n - k) + 1 = i
    BY <1>1, <1>2
  <2>2. ASSUME NEW j \in DOMAIN S, j < k PROVE S[j] = {}
    <3>1. j \in 1..(n + 1) /\ i \in 1..n /\ DOMAIN g = 1..n /\ n \in 0..2
      BY <1>1, <1>2, <1>3, <2>2
    <3>2. j \in 1..n /\ (n - j) + 1 \in DOMAIN g /\ (n - j) + 1 > i
      <4> HIDE DEF g, n, S
      <4> QED BY <3>1, <2>2
    <3> QED BY <1>2, <1>3, <3>2 DEF Latest
  <2>3. S[k] = g[i]
    BY <1>3, <2>1
  <2>4. k \in DOMAIN S
    BY <1>1, <1>3, <2>1
  <2> QED BY <2>2, <2>3, <2>4
<1> HIDE DEF k, S, all, before
<1>5. RefsOf(S[k]) # {} /\ RefsOf(S[k]) \subseteq all /\ all \subseteq Refs
  <2>1. PICK e : e \in S[k]
    BY <1>2, <1>4 DEF Latest
  <2>2. RefsOf(S[k]) # {}
    BY <2>1 DEF RefsOf
  <2>3. RefsOf(S[k]) \subseteq all
    BY <1>4 DEF all
  <2>4. all \subseteq Refs
    BY <1>3 DEF all, RefsOf, RefOf, Refs, Evidence
  <2> QED BY <2>2, <2>3, <2>4
<1>6. R # {}
  <2>1. Cardinality(R) = Min({MaxSelected, Cardinality(all)})
    BY DEF IsMerge, all, S
  <2>2. IsFiniteSet(all) /\ Cardinality(all) \in Nat /\ Cardinality(all) # 0
    BY <1>5, RefsAreFinite, FS_Subset, FS_CardinalityType, FS_EmptySet
  <2>3. MaxSelected \in Nat /\ MaxSelected # 0
    BY BudgetAssumption
  <2>4. Cardinality(R) # 0
    <3> DEFINE m == Min({MaxSelected, Cardinality(all)})
    <3>1. m \in {MaxSelected, Cardinality(all)}
      <4>1. MaxSelected \in Int /\ Cardinality(all) \in Int
        BY <2>2, <2>3
      <4> QED BY <4>1, MinOfTwo, Zenon
    <3> HIDE DEF m
    <3> QED BY <2>1, <2>2, <2>3, <3>1 DEF m
  <2> QED BY <2>4, FS_EmptySet
<1>7. \A j \in DOMAIN S : (R \ before(j)) \cap RefsOf(S[j]) # {} => before(j) \subseteq R
  BY DEF IsMerge, S, before
<1>8. RefsOf(S[k]) \cap R # {}
  <2> SUFFICES ASSUME RefsOf(S[k]) \cap R = {} PROVE FALSE
    OBVIOUS
  <2>1. ASSUME NEW x \in R, NEW j \in DOMAIN S, x \in RefsOf(S[j]), x \notin before(j)
        PROVE  FALSE
    <3>1. before(j) \subseteq R
      BY <1>7, <2>1
    <3>2. j > k
      <4>1. j # k
        BY <2>1
      <4>2. ~(j < k)
        <5>1. j < k => S[j] = {}
          BY <1>4
        <5> QED BY <2>1, <5>1 DEF RefsOf
      <4> QED BY <1>1, <1>3, <1>4, <4>1, <4>2
    <3>3. k \in 1..(j - 1)
      BY <1>1, <1>3, <1>4, <3>2
    <3>4. RefsOf(S[k]) \subseteq before(j)
      BY <3>3 DEF before
    <3> QED BY <1>5, <3>1, <3>4
  <2>2. PICK x \in R : TRUE
    BY <1>6
  <2>3. PICK j \in DOMAIN S : x \in RefsOf(S[j])
    BY DEF all, S
  <2>4. x \notin before(1)
    BY DEF before
  <2>5. CASE x \in before(2)
    <3>1. x \in RefsOf(S[1]) /\ 1 \in DOMAIN S
      BY <1>1, <1>3, <2>5 DEF before
    <3> QED BY <2>1, <2>4, <3>1
  <2>6. CASE x \notin before(2) /\ x \in before(3)
    <3>1. PICK m \in 1..2 : x \in RefsOf(S[m])
      BY <2>6 DEF before
    <3>2. m = 2
      <4>1. m = 1 => x \in before(2)
        BY <3>1 DEF before
      <4> QED BY <2>6, <3>1, <4>1
    <3>3. CASE 2 \in DOMAIN S
      BY <2>1, <2>6, <3>1, <3>2, <3>3
    <3>4. CASE 2 \notin DOMAIN S
      <4>1. j = 1
        BY <1>1, <1>3, <3>4
      <4> QED BY <2>1, <2>3, <2>4, <4>1
    <3> QED BY <3>3, <3>4
  <2>7. CASE x \notin before(2) /\ x \notin before(3)
    <3>1. j \in 1..(n + 1) /\ n \in 0..2
      BY <1>1, <1>3, <2>3
    <3>2. j \in 1..3
      <4> HIDE DEF n
      <4> QED BY <3>1
    <3> QED BY <2>1, <2>3, <2>4, <2>7, <3>2
  <2> QED BY <2>5, <2>6, <2>7
<1> QED BY <1>2, <1>4, <1>8

LEMMA RefsOfHydrated ==
  ASSUME NEW rel, NEW R \in SUBSET Refs
  PROVE  RefsOf(HydratedFrom(rel, R, "parent")) = R
<1> DEFINE H == HydratedFrom(rel, R, "parent")
<1>1. ASSUME NEW x \in RefsOf(H) PROVE x \in R
  <2>1. PICK e \in H : x = RefOf(e)
    BY DEF RefsOf
  <2>2. PICK y \in R : e = [doc |-> y.doc, text |-> y.text, rel |-> rel, run |-> "parent"]
    BY DEF HydratedFrom
  <2>3. x = [doc |-> y.doc, text |-> y.text]
    BY <2>1, <2>2 DEF RefOf
  <2>4. y = [doc |-> y.doc, text |-> y.text]
    BY DEF Refs
  <2> QED BY <2>3, <2>4
<1>2. ASSUME NEW y \in R PROVE y \in RefsOf(H)
  <2> DEFINE e == [doc |-> y.doc, text |-> y.text, rel |-> rel, run |-> "parent"]
  <2>1. e \in H
    BY DEF HydratedFrom
  <2>2. RefOf(e) = [doc |-> y.doc, text |-> y.text]
    BY DEF RefOf
  <2>3. y = [doc |-> y.doc, text |-> y.text]
    BY DEF Refs
  <2>4. RefOf(e) \in RefsOf(H)
    <3> HIDE DEF e, H
    <3> QED BY <2>1 DEF RefsOf
  <2> QED BY <2>2, <2>3, <2>4
<1> QED BY <1>1, <1>2

LEMMA SurvivorStepInv == SurvivorInv /\ [Next]_vars => SurvivorInv'
<1> SUFFICES ASSUME RAGInv, FewGains, RecoveredEvidenceSurvives, [Next]_vars
             PROVE  FewGains' /\ RecoveredEvidenceSurvives'
  BY RAGStepInv DEF SurvivorInv
<1>0. plan \in PlanRecord /\ used \in UsedRecord /\ plan.gained \in Seq(SUBSET Evidence)
  BY InCall DEF PlanRecord
<1>1. ASSUME pc' \notin {"charge", "merge", "gate"}
      PROVE  FewGains' /\ RecoveredEvidenceSurvives'
  BY <1>1 DEF FewGains, RecoveredEvidenceSurvives
<1>2. ASSUME NEW p \in PlanRecord, NEW u, NEW ends \in Stops, NEW why,
             StopWith(p, u, ends, why)
      PROVE  FewGains' /\ RecoveredEvidenceSurvives'
  BY <1>2, StopSurvives
<1>s. {"contract_failure", "unsafe", "budget_exhausted", "no_progress",
       "insufficient_coverage", "external_unavailable"} \subseteq Stops
  BY DEF Stops
<1>3. CASE Ask
  BY <1>1, <1>3 DEF Ask
<1>4. CASE Rehydrate \/ RetrieveInitial
  <2>1. plan = NoPlan /\ UNCHANGED plan /\ pc' \notin {"charge", "merge"}
    BY <1>4, InCall
    DEF Rehydrate, RetrieveInitial, Acquired, FallBack, BoundedOnTheWay, Unplanned, Unasked
  <2> QED BY <2>1 DEF FewGains, RecoveredEvidenceSurvives, NoPlan
<1>5. CASE Resolve
  <2>1. \/ pc' = "observe"
        \/ \E ends \in Stops, why \in StopDetails \cup {out.reason} :
              StopWith(plan, used, ends, why)
    BY <1>5, <1>s DEF Resolve, StopDetails
  <2> QED BY <1>0, <1>1, <1>2, <2>1
<1>6. CASE Observe
  <2>1. PICK n \in {0, MaxExpanded} :
          \/ pc' \in {"expand", "rewrite"}
          \/ StopWith([plan EXCEPT !.previews = n], used, "insufficient_coverage",
                      "no_recovery_evidence_gain")
    BY <1>6 DEF Observe
  <2>2. [plan EXCEPT !.previews = n] \in PlanRecord
    <3>1. n \in Nat
      BY BudgetAssumption
    <3> QED BY <1>0, <3>1 DEF PlanRecord
  <2> QED BY <1>1, <1>2, <1>s, <2>1, <2>2
<1>7. CASE RewriteBatch
  <2>1. \/ pc' = "rewrite"
        \/ StopWith(plan, used, "contract_failure", "execute_failure")
    BY <1>7 DEF RewriteBatch
  <2> QED BY <1>0, <1>1, <1>2, <1>s, <2>1
<1>8. CASE RewriteEnds
  <2> DEFINE p == [plan EXCEPT !.tried = Append(@, "rewrite")]
  <2>1. p \in PlanRecord
    <3>1. Append(plan.tried, "rewrite") \in Seq({"rewrite", "expand"})
      BY <1>0 DEF PlanRecord
    <3> QED BY <1>0, <3>1 DEF PlanRecord
  <2>2. \/ pc' \in {"charge", "expand"} /\ (plan' = p \/ \E n : plan' = [p EXCEPT !.previews = n])
        \/ StopWith(p, used, "contract_failure", "evidence_run_mismatch")
    BY <1>8 DEF RewriteEnds
  <2>3. p.gained = plan.gained /\ \A n : [p EXCEPT !.previews = n].gained = plan.gained
    BY <1>0 DEF PlanRecord
  <2>4. Len(plan.gained) <= 1 /\ Len(plan.gained) \in Nat
    BY <1>0, <1>8, InCall DEF BoundedOnTheWay, RewriteEnds
  <2>5. ASSUME pc' = "charge", plan'.gained = plan.gained
        PROVE  FewGains' /\ RecoveredEvidenceSurvives'
    BY <2>4, <2>5 DEF FewGains, RecoveredEvidenceSurvives
  <2> HIDE DEF p
  <2> QED BY <1>1, <1>2, <1>s, <2>1, <2>2, <2>3, <2>5
<1>9. CASE Expand
  <2>1. PICK add : plan' = [plan EXCEPT !.tried = Append(@, "expand"), !.gained = Append(@, add)]
    BY <1>9 DEF Expand
  <2>2. plan'.gained = Append(plan.gained, add)
    BY <1>0, <2>1 DEF PlanRecord
  <2>3. Len(plan.gained) <= 1 /\ Len(plan.gained) \in Nat
    BY <1>0, <1>9, InCall DEF BoundedOnTheWay, Expand
  <2>4. Len(plan'.gained) <= 2 /\ pc' = "charge"
    BY <1>0, <1>9, <2>2, <2>3 DEF Expand
  <2> QED BY <2>4 DEF FewGains, RecoveredEvidenceSurvives
<1>10. CASE Charge
  <2> DEFINE w == [used EXCEPT !.merged = @ + Cardinality(UNION Range(plan.gained))]
  <2>1. \/ StopWith(plan, used, "budget_exhausted", "recovery_budget_overrun")
        \/ StopWith(plan, w, "no_progress", "no_recovery_evidence_gain")
        \/ pc' = "merge" /\ plan' = plan /\ pc = "charge"
    BY <1>10 DEF Charge
  <2>2. CASE pc' = "merge" /\ plan' = plan /\ pc = "charge"
    BY <2>2 DEF FewGains, RecoveredEvidenceSurvives
  <2> HIDE DEF w
  <2> QED BY <1>0, <1>2, <1>s, <2>1, <2>2
<1>11. CASE Merge
  <2> DEFINE all == UNION {RefsOf(Sources[j]) : j \in DOMAIN Sources}
  <2>1. \/ \E ends \in {"contract_failure", "unsafe"} : \E why : StopWith(plan, used, ends, why)
        \/ /\ pc = "merge" /\ pc' = "gate"
           /\ \E R \in SUBSET all :
                 /\ IsMerge(R)
                 /\ out' = [out EXCEPT !.reason = "evidence_retrieved",
                                       !.sel = HydratedFrom(LoadBundle, R, "parent")]
           /\ plan' = [plan EXCEPT !.ends = "answer_ready",
                                   !.detail = "recovery_evidence_merged"]
    BY <1>11 DEF Merge
  <2>2. ASSUME pc = "merge", pc' = "gate", NEW R \in SUBSET all, IsMerge(R),
               out' = [out EXCEPT !.reason = "evidence_retrieved",
                                  !.sel = HydratedFrom(LoadBundle, R, "parent")],
               plan' = [plan EXCEPT !.ends = "answer_ready",
                                    !.detail = "recovery_evidence_merged"]
        PROVE  FewGains' /\ RecoveredEvidenceSurvives'
    <3>1. plan'.gained = plan.gained
      BY <1>0, <2>2 DEF PlanRecord
    <3>2. out'.sel = HydratedFrom(LoadBundle, R, "parent")
      BY <2>2, InCall DEF OutRecord
    <3>3. all \subseteq Refs
      BY SourcesAreTyped DEF RefsOf, RefOf, Refs, Evidence
    <3>4. RefsOf(out'.sel) = R
      BY <3>2, <3>3, RefsOfHydrated
    <3>5. PICK i \in DOMAIN plan.gained : Latest(i) /\ RefsOf(plan.gained[i]) \cap R # {}
      BY <2>2, MergeKeepsTheLatest
    <3> QED BY <2>2, <3>1, <3>4, <3>5 DEF FewGains, RecoveredEvidenceSurvives, Latest, RefsOf
  <2> QED BY <1>0, <1>2, <1>s, <2>1, <2>2
<1>12. CASE Gate \/ Compose \/ CallerSeesError
  BY <1>1, <1>12 DEF Gate, Compose, CallerSeesError, Answer
<1>13. CASE UNCHANGED ragVars
  BY <1>13 DEF ragVars, FewGains, RecoveredEvidenceSurvives, RefsOf, RefOf
<1>14. UNCHANGED vars => UNCHANGED ragVars
  BY DEF vars
<1> QED
  BY <1>3, <1>4, <1>5, <1>6, <1>7, <1>8, <1>9, <1>10, <1>11, <1>12, <1>13, <1>14 DEF Next, RAGStep

(* A recovery that ends answer_ready brings some of what it recovered last to  *)
(* the gate, whatever the budgets: the initial evidence never crowds it out of *)
(* the MaxSelected places (_recovery_first_sources).                           *)
THEOREM RecoveredEvidenceIsKept == Spec => []RecoveredEvidenceSurvives
<1>1. Init => SurvivorInv
  BY RAGInitInv DEF SurvivorInv, FewGains, RecoveredEvidenceSurvives, Init, RAGInit
<1>2. SurvivorInv => RecoveredEvidenceSurvives
  BY DEF SurvivorInv
<1> QED BY SurvivorStepInv, <1>1, <1>2, PTL DEF Spec
=============================================================================
