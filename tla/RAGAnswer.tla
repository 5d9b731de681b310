----------------------------- MODULE RAGAnswer -----------------------------
(***************************************************************************)
(* One knowledge question from acquisition to answer, asked while the      *)
(* release store of KnowledgeRelease changes underneath it:                *)
(*   engine/rag/evidence_acquisition.py   the pipeline acquirer            *)
(*   engine/rag/knowledge_tool.py         one retrieval                    *)
(*   engine/phase4b/rag_subgraph.py,                                       *)
(*   rag_diagnostics.py                   the bounded recovery subgraph    *)
(*   engine/rag/answer_flow.py            gate, composer, citations        *)
(* A follow-up brings the evidence an earlier answer cited, from whatever  *)
(* release was active then.                                                *)
(*                                                                         *)
(*   ask      the question                                                 *)
(*   pc       where its call is                                            *)
(*   out      the RetrievalOutcome the call holds                          *)
(*   used     the child ledger's consumption                               *)
(*   plan     the recovery subgraph's state                                *)
(*   gate     the release the gate loaded, visible what it let through     *)
(*   result   the answer                                                   *)
(***************************************************************************)
EXTENDS KnowledgeRelease, Sequences, FiniteSetsExt, SequencesExt

CONSTANTS
    Docs, Texts,      \* documents; texts stand for a revision and its content
    Absent,           \* a catalog's value for a document it does not hold
    Restricted,       \* the texts a guest may not read
    Unsafe,           \* the texts that match an instruction pattern
    Profile,          \* the catalog of the external profile, which never changes
    T4Docs,           \* the business requirement the subgraph has slots for
    Asks,             \* the questions considered: records of AskSet
    MaxCandidates, MaxSelected,                   \* RetrievalBudget
    MaxClaims,                                    \* AnswerEvidenceRequirement.max_claims
    MaxBatches, MaxAdded, MaxExpanded, MaxScanned, \* RecoveryBudget
    MaxTotalCandidates, MaxMerged                 \* child_budget of b4_contracts.json

\* The stable coordinates of a piece of evidence (its evidence key).
Refs == [doc : Docs, text : Texts]

AskSet == [scope : {"business", "external"}, strategy : {"pipeline", "subgraph"},
           mode : {"run", "prepare"}, caller : {"guest", "staff"},
           need : SUBSET Docs, equivalent : BOOLEAN, prior : SUBSET Refs]

ASSUME BudgetAssumption ==
    /\ MaxSelected \in Nat \ {0} /\ MaxCandidates \in Nat /\ MaxSelected <= MaxCandidates
    /\ MaxClaims \in Nat \ {0} /\ MaxBatches \in Nat /\ MaxAdded \in Nat /\ MaxExpanded \in Nat
    /\ MaxScanned \in Nat /\ MaxTotalCandidates \in Nat /\ MaxMerged \in Nat
    /\ MaxExpanded <= MaxScanned
    /\ (1 + MaxBatches) * MaxCandidates <= MaxTotalCandidates
    /\ MaxSelected + MaxAdded + MaxExpanded <= MaxMerged
\* An earlier answer cited what had been selected for it, so no more than that.
ASSUME AsksAssumption ==
    /\ Asks \subseteq AskSet
    /\ \A a \in Asks : /\ a.equivalent => a.prior # {}
                       /\ Cardinality(a.prior) <= MaxSelected
ASSUME CatalogAssumption ==
    /\ IsFiniteSet(Docs) /\ IsFiniteSet(Texts)
    /\ Contents \cup {Profile} \subseteq [Docs -> Texts \cup {Absent}]

VARIABLES ask, pc, out, used, plan, gate, visible, result

ragVars == <<ask, pc, out, used, plan, gate, visible, result>>
vars == <<storeVars, ragVars>>

ExternalRelease == [content |-> Profile, policy |-> "external_profile"]

\* The bundle a scope's active_loader returns.
LoadBundle == IF ask.scope = "external" THEN ExternalRelease ELSE ActiveRelease

\* authorize_document depends on the caller and the entry alone.
MayRead(text) == text # Absent /\ (ask.caller = "guest" => text \notin Restricted)

Authorized(rel) == {d \in Docs : MayRead(rel.content[d])}

\* The evidence a call with run identity run builds from a release.
RefOf(e) == [doc |-> e.doc, text |-> e.text]
RefsOf(S) == {RefOf(e) : e \in S}
EvidenceOf(rel, D, run) ==
    {[doc |-> d, text |-> rel.content[d], rel |-> rel, run |-> run] : d \in D}
HydratedFrom(rel, R, run) ==
    {[doc |-> x.doc, text |-> x.text, rel |-> rel, run |-> run] : x \in R}

NoOutcome == [reason |-> "none", sel |-> {}, rel |-> Nil]
NoneUsed  == [initial |-> 0, rewrites |-> 0, candidates |-> 0, scanned |-> 0,
              expanded |-> 0, merged |-> 0]
NoPlan    == [gaps |-> 0, formed |-> "none", previews |-> 0, batches |-> 0, tried |-> <<>>,
              gained |-> <<>>, ends |-> "none", detail |-> "none"]
NoAnswer  == [reason |-> "none", cited |-> {}]

RAGInit ==
    /\ ask \in Asks /\ pc = "idle"
    /\ out = NoOutcome /\ used = NoneUsed /\ plan = NoPlan
    /\ gate = Nil /\ visible = {} /\ result = NoAnswer

-----------------------------------------------------------------------------
(* KnowledgeTool.retrieve: the outcomes one retrieval over a bundle may     *)
(* have.  Only authorized entries reach the adapter, the adapter may fail,  *)
(* find nothing or rank up to MaxCandidates, and at most MaxSelected of     *)
(* them are selected and authorized again.                                  *)

RetrievalOf(rel, run) ==
    LET fails(why, calls) == [reason |-> why, sel |-> {}, calls |-> calls, seen |-> 0] IN
    IF rel = Nil THEN {fails("active_release_unavailable", 0)}
    ELSE {fails("retrieval_unavailable", 1), fails("contract_error", 1),
          fails(IF Authorized(rel) = {} THEN "no_authorized_evidence"
                                        ELSE "no_candidate", 1)}
         \cup {[reason |-> "evidence_retrieved", sel |-> EvidenceOf(rel, D, run),
                calls |-> 1, seen |-> n] :
                   D \in {X \in SUBSET Authorized(rel) :
                             Cardinality(X) \in 1..MaxSelected},
                   n \in {MaxCandidates}}

-----------------------------------------------------------------------------
(* Asking, and the pipeline acquirer. *)

\* The RAGAnswerRequest arrives, at any time in the life of the store.
Ask ==
    /\ pc = "idle"
    /\ pc' = "acquire"
    /\ UNCHANGED <<ask, out, used, plan, gate, visible, result, storeVars>>

Acquired(o, rel, calls, seen) ==
    /\ out' = [reason |-> o.reason, sel |-> o.sel, rel |-> rel]
    /\ used' = [used EXCEPT !.initial = calls, !.candidates = seen,
                            !.merged = Cardinality(o.sel)]
    /\ pc' = CASE o.reason = "contract_error" -> "raised"
               [] ask.strategy = "subgraph"   -> "resolve"
               [] OTHER                       -> "gate"

MayRehydrate == ask.equivalent /\ ask.scope = "business"

FallBackToRehydration == "acquire"

\* Evidence that changed since is not rehydrated but retrieved again, once.
FallBack == "reacquire"

\* The narrow path of an equivalent business follow-up: the prior evidence is
\* located in the release active now and authorized again.
Rehydrate ==
    LET rel == ActiveRelease
        none(why) == [reason |-> why, sel |-> {}] IN
    /\ pc = "acquire" /\ MayRehydrate
    /\ \/ /\ rel = Nil
          /\ Acquired(none("active_release_unavailable"), Nil, 0, 0)
       \/ /\ rel # Nil
          /\ \E x \in ask.prior : rel.content[x.doc] # x.text
          /\ pc' = FallBack                   \* document_identity_changed
          /\ UNCHANGED <<out, used>>
       \/ /\ rel # Nil
          /\ \A x \in ask.prior : rel.content[x.doc] = x.text
          /\ IF \A x \in ask.prior : MayRead(x.text)
             THEN Acquired([reason |-> "evidence_retrieved",
                            sel |-> HydratedFrom(rel, ask.prior, "parent")],
                           rel, 0, Cardinality(ask.prior))
             ELSE Acquired(none("no_authorized_evidence"), rel, 0, 0)
    /\ UNCHANGED <<ask, plan, gate, visible, result, storeVars>>

\* One retrieval in every other case, over the release active when it runs.
RetrieveInitial ==
    /\ \/ pc = "acquire" /\ ~MayRehydrate
       \/ pc = "reacquire"
    /\ \E o \in RetrievalOf(LoadBundle, "parent") :
          Acquired(o, LoadBundle, o.calls, o.seen)
    /\ UNCHANGED <<ask, plan, gate, visible, result, storeVars>>

-----------------------------------------------------------------------------
(* The recovery subgraph.  It ends in one of the terminations of            *)
(* b4_contracts.json; unless that is answer_ready the initial evidence does *)
(* not go on to the gate.                                                   *)

StoppedReason(ends) ==
    CASE ends = "unsafe" -> "no_authorized_evidence"
      [] ends \in {"insufficient_coverage", "no_progress", "budget_exhausted"}
                         -> "no_candidate"
      [] OTHER           -> "retrieval_unavailable"

StopKeepsEvidence(p, u, ends, why) ==
    /\ plan' = [p EXCEPT !.ends = ends, !.detail = why]
    /\ used' = u
    /\ out' = [out EXCEPT !.reason = StoppedReason(ends)]
    /\ pc' = "gate"

\* The termination ends, with plan p and consumption u as the ledger has them.
StopWith(p, u, ends, why) ==
    /\ plan' = [p EXCEPT !.ends = ends, !.detail = why]
    /\ used' = u
    /\ out' = [out EXCEPT !.reason = StoppedReason(ends), !.sel = {}]
    /\ pc' = "gate"

Overrun(u) ==
    \/ u.initial > 1
    \/ u.rewrites > MaxBatches
    \/ u.candidates > MaxTotalCandidates
    \/ u.scanned > MaxScanned
    \/ u.expanded > MaxExpanded
    \/ u.merged > MaxMerged

\* The slot provider: what must be covered and is not.  A business question
\* has slots only for the T4 requirement; an external one gets them from its
\* procedure words or from a proposal, which may fail, cost too much or leave
\* nothing uncovered.
Resolutions ==
    IF ask.scope = "business"
    THEN IF ask.need = T4Docs THEN {"t4"} ELSE {"no_slots"}
    ELSE {"procedure", "obligations", "proposal_failed", "proposal_overrun"}

\* How many of the slots may be uncovered: the T4 requirement has three, a
\* formation at most two.
Gaps(formed) ==
    CASE formed = "t4" -> 0..3 [] formed = "procedure" -> 0..1 [] OTHER -> 0..2

Resolve ==
    /\ pc = "resolve"
    /\ IF Overrun(used)
       THEN StopWith(plan, used, "budget_exhausted", "initial_budget_overrun")
       ELSE IF out.reason # "evidence_retrieved"
       THEN StopWith(plan, used,
                     IF out.reason \in {"active_release_unavailable", "retrieval_unavailable"}
                     THEN "external_unavailable" ELSE "insufficient_coverage",
                     out.reason)
       ELSE \E s \in Resolutions :
              CASE s = "no_slots" ->
                     StopWith(plan, used, "insufficient_coverage", "slot_provider_no_action")
                [] s = "proposal_failed" ->
                     StopWith(plan, used, "contract_failure", "formation_failed")
                [] s = "proposal_overrun" ->
                     StopWith(plan, used, "budget_exhausted", "proposal_budget_overrun")
                [] OTHER ->
                     \E g \in Gaps(s) :
                        /\ plan' = [plan EXCEPT !.formed = s, !.gaps = g]
                        /\ pc' = "observe"
                        /\ UNCHANGED <<out, used>>
    /\ UNCHANGED <<ask, gate, visible, result, storeVars>>

\* observe_existing: what may be done about the gaps.  Only an external
\* question has neighbouring units to preview, for its gaps or, when a
\* procedure looks covered, for the units that follow.
MayPreview ==
    /\ ask.scope = "external"
    /\ plan.gaps > 0 \/ plan.formed = "procedure"

Observe ==
    /\ pc = "observe"
    /\ \E n \in (IF MayPreview THEN {0, MaxExpanded} ELSE {0}) :
         LET p == [plan EXCEPT !.previews = n] IN
         CASE n > 0 ->
                /\ plan' = p /\ pc' = "expand" /\ UNCHANGED <<out, used>>
           [] n = 0 /\ plan.gaps > 0 /\ plan.formed # "procedure" ->
                /\ plan' = p /\ pc' = "rewrite" /\ UNCHANGED <<out, used>>
           [] OTHER ->
                StopWith(p, used, "insufficient_coverage", "no_recovery_evidence_gain")
    /\ UNCHANGED <<ask, gate, visible, result, storeVars>>

\* What the sources of the recovery hold so far, by evidence key.
Known == RefsOf(out.sel) \cup RefsOf(UNION Range(plan.gained))

\* A rewrite retrieves for one uncovered slot after the other, at most
\* MaxBatches of them.
EverySlot == plan.gaps
Batches == Min({plan.gaps, MaxBatches})

\* _execute_rewrite, one focused retrieval: it carries a run identity of its
\* own, and what it selects is added up to MaxAdded in all.
RewriteBatch ==
    /\ pc = "rewrite" /\ plan.batches < Batches
    /\ \E o \in RetrievalOf(LoadBundle, "rewrite") :
         IF o.reason = "contract_error"
         THEN StopWith(plan, used, "contract_failure", "execute_failure")
         ELSE LET fresh == {e \in o.sel : RefOf(e) \notin Known}
                  had   == IF plan.gained = <<>> THEN {} ELSE plan.gained[1] IN
              \E add \in SUBSET fresh :
                 /\ Cardinality(add) = Min({Cardinality(fresh), MaxAdded - Cardinality(had)})
                 /\ plan' = [plan EXCEPT !.batches = @ + 1, !.gained = <<had \cup add>>]
                 /\ used' = [used EXCEPT !.rewrites = @ + o.calls, !.candidates = @ + o.seen]
                 /\ UNCHANGED <<pc, out>>
    /\ UNCHANGED <<ask, gate, visible, result, storeVars>>

\* After a rewrite that gained evidence an external question is observed again.
\* observe_after_rewrite rebuilds a ledger of the parent's run from the initial
\* and the gained evidence, and a ledger refuses evidence of another run.
ObservedAgain ==
    LET combined == out.sel \cup plan.gained[1] IN
    IF \A e \in combined : e.run = "parent" THEN "expand" ELSE "evidence_run_mismatch"

RewriteEnds ==
    LET gain  == plan.gained # <<>> /\ plan.gained[1] # {}
        again == gain /\ ask.scope = "external"
        p     == [plan EXCEPT !.tried = Append(@, "rewrite")] IN
    /\ pc = "rewrite" /\ plan.batches = Batches
    /\ CASE ~again ->
              plan' = p /\ pc' = "charge" /\ UNCHANGED <<out, used>>
         [] again /\ ObservedAgain = "evidence_run_mismatch" ->
              StopWith(p, used, "contract_failure", "evidence_run_mismatch")
         [] OTHER ->
              \E n \in {0, MaxExpanded} :
                 /\ plan' = [p EXCEPT !.previews = n]
                 /\ pc' = IF n = 0 THEN "charge" ELSE "expand"
                 /\ UNCHANGED <<out, used>>
    /\ UNCHANGED <<ask, gate, visible, result, storeVars>>

\* _execute_expansion: the previewed units, authorized and built again.
Expand ==
    /\ pc = "expand"
    /\ \E D \in SUBSET Authorized(ExternalRelease) :
         LET made == EvidenceOf(ExternalRelease, D, "expansion")
             add  == {e \in made : RefOf(e) \notin Known} IN
         /\ Cardinality(D) <= plan.previews
         /\ plan' = [plan EXCEPT !.tried = Append(@, "expand"), !.gained = Append(@, add)]
         /\ used' = [used EXCEPT !.scanned = plan.previews, !.expanded = Cardinality(add)]
    /\ pc' = "charge"
    /\ UNCHANGED <<ask, out, gate, visible, result, storeVars>>

\* The attempts are charged to the child ledger, which is validated only now;
\* without any gain the subgraph stops.
Charge ==
    LET gained == UNION Range(plan.gained)
        u == [used EXCEPT !.merged = @ + Cardinality(gained)] IN
    /\ pc = "charge"
    /\ IF Overrun(u)
       THEN StopWith(plan, used, "budget_exhausted", "recovery_budget_overrun")
       ELSE IF gained = {}
       THEN StopWith(plan, u, "no_progress", "no_recovery_evidence_gain")
       ELSE pc' = "merge" /\ used' = u /\ UNCHANGED <<plan, out>>
    /\ UNCHANGED <<ask, gate, visible, result, storeVars>>

InitialFirstSources == <<out.sel>> \o plan.gained

\* _recovery_first_sources: the latest gain first, the initial evidence last.
Sources == Reverse(plan.gained) \o <<out.sel>>

IsMergeOfAll(R) == R = UNION {RefsOf(Sources[j]) : j \in DOMAIN Sources}

\* The first MaxSelected distinct keys of the sources, in their order.
IsMerge(R) ==
    LET before(i) == UNION {RefsOf(Sources[j]) : j \in 1..(i-1)}
        all == UNION {RefsOf(Sources[j]) : j \in DOMAIN Sources} IN
    /\ Cardinality(R) = Min({MaxSelected, Cardinality(all)})
    /\ \A i \in DOMAIN Sources :
          (R \ before(i)) \cap RefsOf(Sources[i]) # {} => before(i) \subseteq R

\* _reauthorize_and_merge against the release active now.  The outcome keeps
\* the initial retrieval's release identity in its diagnostics.
Merge ==
    LET rel == LoadBundle
        all == UNION {RefsOf(Sources[j]) : j \in DOMAIN Sources}
        drifted == rel # Nil /\ \E x \in all : rel.content[x.doc] # x.text
        denied  == \E x \in all : ~MayRead(x.text) IN
    /\ pc = "merge"
    /\ \/ /\ rel = Nil
          /\ StopWith(plan, used, "contract_failure", "recovery_authority_unavailable")
       \/ /\ drifted
          /\ StopWith(plan, used, "contract_failure", "recovery_identity_drift")
       \/ /\ rel # Nil /\ denied
          /\ StopWith(plan, used, "unsafe", "recovery_reauthorization_denied")
       \/ /\ ask.scope = "external"             \* the context loader fails
          /\ StopWith(plan, used, "contract_failure", "recovery_context_unavailable")
       \/ /\ rel # Nil /\ ~drifted /\ ~denied
          /\ \E R \in SUBSET all :
               /\ IsMerge(R)
               /\ out' = [out EXCEPT !.reason = "evidence_retrieved",
                                     !.sel = HydratedFrom(rel, R, "parent")]
          /\ plan' = [plan EXCEPT !.ends = "answer_ready",
                                  !.detail = "recovery_evidence_merged"]
          /\ pc' = "gate"
          /\ UNCHANGED used
    /\ UNCHANGED <<ask, gate, visible, result, storeVars>>

-----------------------------------------------------------------------------
(* RAGAnswerFlow.run and prepare_for_hybrid from the gate on. *)

Answer(why, cited) ==
    /\ result' = [reason |-> why, cited |-> cited]
    /\ pc' = "done"

\* _from_retrieval_failure
FailureReason(reason) ==
    CASE reason = "no_candidate"           -> "evidence_no_candidate"
      [] reason = "no_authorized_evidence" -> "document_acl_denied"
      [] reason = "active_release_unavailable" -> "active_release_unavailable"
      [] OTHER -> "retrieval_unavailable"

StaleByText(e, rel) == rel.content[e.doc] # e.text

\* _gate: why the evidence may not reach the composer, judged on the release
\* loaded again after acquisition.
Stale(e, rel) ==
    \/ rel.content[e.doc] # e.text
    \/ rel # e.rel
    \/ rel # out.rel

GateReasons(rel) ==
    LET denied == {IF Stale(e, rel) THEN "document_revision_inactive"
                   ELSE IF ~MayRead(e.text) THEN "document_acl_denied"
                   ELSE "document_instruction_blocked" :
                   e \in {x \in out.sel : \/ Stale(x, rel) \/ ~MayRead(x.text)
                                          \/ x.text \in Unsafe}} IN
    IF denied # {} THEN denied
    ELSE IF ask.need \subseteq {e.doc : e \in out.sel} THEN {"answer_allowed"}
    ELSE {"evidence_insufficient"}

Gate ==
    /\ pc = "gate"
    /\ IF out.reason # "evidence_retrieved"
       THEN /\ Answer(FailureReason(out.reason), {})
            /\ UNCHANGED <<gate, visible>>
       ELSE IF LoadBundle = Nil
       THEN /\ Answer("active_release_unavailable", {})
            /\ UNCHANGED <<gate, visible>>
       ELSE /\ gate' = LoadBundle
            /\ \E why \in GateReasons(LoadBundle) :
                 IF why # "answer_allowed"
                 THEN Answer(why, {}) /\ UNCHANGED visible
                 ELSE /\ visible' \in kSubset(Min({MaxClaims, Cardinality(out.sel)}), out.sel)
                      /\ IF ask.mode = "prepare" THEN Answer("prepared", {})
                         ELSE pc' = "compose" /\ UNCHANGED result
    /\ UNCHANGED <<ask, out, used, plan, storeVars>>

\* The composer: unavailable, a draft that breaks the claim contract, or claims
\* each bound to one visible piece of evidence.  A broken draft is an answer
\* only under the subgraph; the pipeline raises.
Compose ==
    /\ pc = "compose"
    /\ \/ Answer("composer_unavailable", {})
       \/ IF ask.strategy = "subgraph" THEN Answer("composer_output_invalid", {})
          ELSE pc' = "raised" /\ UNCHANGED result
       \/ \E C \in (SUBSET visible) \ {{}} :
            \* validate_citations, against the entries the gate loaded
            IF \A e \in C : gate.content[e.doc] = e.text /\ MayRead(e.text)
            THEN Answer("answer_completed", C)
            ELSE Answer("citation_invalid", {})
    /\ UNCHANGED <<ask, out, used, plan, gate, visible, storeVars>>

\* An exception of the call reaches its caller (the API).
CallerSeesError ==
    /\ pc = "raised"
    /\ Answer("raised", {})
    /\ UNCHANGED <<ask, out, used, plan, gate, visible, storeVars>>

RAGStep ==
    \/ Rehydrate \/ RetrieveInitial \/ Resolve \/ Observe \/ RewriteBatch
    \/ RewriteEnds \/ Expand \/ Charge \/ Merge \/ Gate \/ Compose \/ CallerSeesError

Init == StoreInit /\ RAGInit
\* Bound: the store is not followed after the answer, nor for an external
\* question, which never reads it.
Watched == pc # "done" /\ ask.scope = "business"
Next == Ask \/ RAGStep \/ (Watched /\ StoreNext /\ UNCHANGED ragVars)

\* Every step of a call is local or a bounded wait on a provider that answers
\* or times out, so a call that can go on does.
Spec == Init /\ [][Next]_vars /\ WF_vars(RAGStep)

-----------------------------------------------------------------------------
(* Properties. *)

Evidence == [doc : Docs, text : Texts, rel : Releases \cup {ExternalRelease},
             run : {"parent", "rewrite", "expansion"}]
Locations == {"idle", "acquire", "reacquire", "resolve", "observe", "rewrite",
              "expand", "charge", "merge", "gate", "compose", "raised", "done"}

\* The store and the question in hand keep their types.
TypeOK ==
    /\ StoreTypeOK
    /\ ask \in Asks /\ pc \in Locations
    /\ out.sel \subseteq Evidence /\ Cardinality(out.sel) <= MaxSelected
    /\ out.rel \in Releases \cup {ExternalRelease, Nil}
    /\ \A f \in DOMAIN used : used[f] \in Nat
    /\ \A i \in DOMAIN plan.gained : plan.gained[i] \subseteq Evidence
    /\ visible \subseteq Evidence /\ result.cited \subseteq visible

\* Whatever is published, rolled back or damaged while a question is answered,
\* and however its evidence was found (retrieved, carried over from an earlier
\* answer, recovered), all that an answer cites is of one release, says there
\* what it is quoted for, and may be shown to this caller (RAGAnswerFlow._gate,
\* validate_citations).
AnswerFromOneRelease ==
    \A e \in result.cited :
       /\ e.rel = gate /\ out.rel = gate
       /\ gate.content[e.doc] = e.text
       /\ MayRead(e.text) /\ e.text \notin Unsafe
       /\ ask.need \subseteq {x.doc : x \in out.sel}

\* Evidence leaves the recovery subgraph with the termination answer_ready and
\* with no other: a stopped recovery never answers from what it started with
\* (rag_subgraph._stopped_outcome).
OnlyReadyCarriesEvidence ==
    pc \in {"gate", "compose"} /\ ask.strategy = "subgraph" =>
        (out.sel # {} <=> plan.ends = "answer_ready")

\* A recovery that ends answer_ready keeps some of what it recovered last: the
\* initial evidence may not crowd it out of the MaxSelected places
\* (_recovery_first_sources, _reauthorize_and_merge).
RecoveredEvidenceSurvives ==
    pc = "gate" /\ plan.ends = "answer_ready" =>
        \E i \in DOMAIN plan.gained :
           /\ RefsOf(plan.gained[i]) \cap RefsOf(out.sel) # {}
           /\ \A j \in DOMAIN plan.gained : j > i => plan.gained[j] = {}

\* The child ledger is validated only once the retrievals have run; still the
\* bounds inside the loop keep it from ever finding an overrun, which would
\* throw away all they found (rag_subgraph.ChildLedger, plan_rewrites).
RecoveryNeverOverruns ==
    plan.detail # "recovery_budget_overrun" /\ ~Overrun(used)

\* Every question is answered, refused or raised, through any number of
\* releases published meanwhile.
QuestionSettles == pc # "idle" ~> pc = "done"

\* The two-step recovery of an external question keeps what the rewrite found:
\* the second observation accepts it (rag_diagnostics.observe_after_rewrite).
TwoStepChainSurvives == plan.detail # "evidence_run_mismatch"
=============================================================================
