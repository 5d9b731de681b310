------------------------------ MODULE SqlTool ------------------------------
(***************************************************************************)
(* What one SQL action of the agent can come to (engine/nl2sql/pipeline.py,  *)
(* engine/nl2sql/llm_call.py, engine/nl2sql/sql_repair.py,                   *)
(* engine/tools/sql_tool.py), as engine/harness/adapters.py tells the loop:  *)
(* an outcome, the calls the model really got and the calls the trace of the *)
(* pipeline lets the loop charge. The pipeline is one sequential call, so it *)
(* is the set of its ends, each stage taking the counts so far and adding    *)
(* the ends that stop there to those of the stages after it. What the model  *)
(* writes, the schema retrieved and the rows are whatever makes a stage end  *)
(* one way or the other.                                                     *)
(*                                                                           *)
(*   up, flat      rows, which do or do not show quality refunds growing     *)
(*   dialect       the database has no DATE_TRUNC: the one repairable end    *)
(*   failed        any other technical failure                               *)
(*   blocked       the guard, the request's semantics or the columns refuse  *)
(*   unavailable   the model gave no SQL                                     *)
(***************************************************************************)
EXTENDS Integers

CONSTANTS
    Retries,        \* LLM_MAX_RETRIES: further attempts after a transient failure
    Strategies      \* repair strategies the server may be assembled with

RepairStrategies == {"llm_minimal", "deterministic_ast", "llm_enriched"}

ASSUME SqlToolAssumption ==
    /\ Retries \in Nat
    /\ Strategies \subseteq RepairStrategies
    /\ Strategies # {}

SqlOutcomes == {"up", "flat", "dialect", "failed", "blocked", "unavailable"}

(* Model calls: made, and visible in the trace's llm_call metadata. *)
Calls == [made: Nat, charged: Nat]

NoCalls == [made |-> 0, charged |-> 0]

End(outcome, calls) ==
    {[outcome |-> outcome, made |-> calls.made, charged |-> calls.charged]}

(* An exception leaves the adapter without its trace: the loop sees a        *)
(* failure that cost nothing.                                                *)
Raised(calls) == End("failed", [calls EXCEPT !.charged = 0])

-----------------------------------------------------------------------------
(* A logical call is one attempt and at most Retries more, each after a      *)
(* transient failure; whether it ends in text or in an error, the evidence   *)
(* of its attempts goes with the result or with the exception.               *)
Attempts == 1..(Retries + 1)

Charged(calls, n) == [made |-> calls.made + n, charged |-> calls.charged + n]

(* Text the parser refuses: the exception comes from the parser and has no   *)
(* evidence of the call that succeeded.                                      *)
Unparsed(calls, n) == [calls EXCEPT !.made = @ + n]

-----------------------------------------------------------------------------
(* The SQL tool and what follows it. The guard is asked again; only a        *)
(* candidate that names DATE_TRUNC can fail for it; the columns the driver   *)
(* returns must be those of the plan, in order.                              *)
Executed(truncates, calls) ==
    Raised(calls)
    \cup UNION {End(o, calls) : o \in {"blocked", "failed", "up", "flat"}
                                     \cup (IF truncates THEN {"dialect"} ELSE {})}

(* Guard before contract: what the guard refuses is not compared with the    *)
(* plan. A wrong projection is a refusal, any other infidelity a failure.    *)
Checked(truncates, calls) ==
    End("blocked", calls) \cup End("failed", calls) \cup Executed(truncates, calls)

(* SQL written by the model, for the plan or to repair a candidate. *)
WrittenUncharged(calls) ==
    UNION {End("unavailable", Charged(calls, n))
           \cup End("unavailable", Unparsed(calls, n))
           \cup UNION {Checked(t, Unparsed(calls, n)) : t \in BOOLEAN} : n \in Attempts}

Written(calls) ==
    UNION {End("unavailable", Charged(calls, n))
           \cup End("unavailable", Unparsed(calls, n))
           \cup UNION {Checked(t, Charged(calls, n)) : t \in BOOLEAN} : n \in Attempts}

(* The deterministic repair translates the month DATE_TRUNCs of one SELECT,  *)
(* all of them or none; what it cannot translate ends as a generation error. *)
Translated(calls) == End("unavailable", calls) \cup Checked(FALSE, calls)

(* The plan, fresh or kept from the failure under repair, must stay within    *)
(* the schema retrieved and the role's fields: a failure, never a refusal.   *)
Generated(repair, calls) ==
    End("failed", calls)
    \cup (IF ~repair THEN Written(calls)
          ELSE UNION {IF s = "deterministic_ast" THEN Translated(calls)
                      ELSE Written(calls) : s \in Strategies})

Planned ==
    UNION {End("unavailable", Charged(NoCalls, n))
           \cup End("failed", Unparsed(NoCalls, n))
           \cup Generated(FALSE, Charged(NoCalls, n)) : n \in Attempts}

(* Before the plan: the raw question refused or its semantics unsupported,    *)
(* no schema context, no client.                                             *)
Unplanned == End("blocked", NoCalls) \cup End("failed", NoCalls)

(* A run of the pipeline, and a run that repairs the candidate of another.    *)
CollectEnds == Unplanned \cup Planned
RepairEnds == Unplanned \cup Generated(TRUE, NoCalls)

SqlEnd == [outcome: SqlOutcomes, made: Nat, charged: Nat]
=============================================================================
