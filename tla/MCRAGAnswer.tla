---------------------------- MODULE MCRAGAnswer ----------------------------
(***************************************************************************)
(* One operator, two business catalogs under one policy, three documents,  *)
(* two places for evidence.                                                *)
(***************************************************************************)
EXTENDS RAGAnswer

MCDocs == {"policy", "review", "notice"}

\* "p1" and "p2" are two revisions of the policy; the review is for staff
\* only; the notice carries an instruction.
MCTexts == {"p1", "p2", "r1", "n1"}
First  == [policy |-> "p1", review |-> "r1", notice |-> "absent"]
Second == [policy |-> "p2", review |-> "r1", notice |-> "n1"]
MCContents == {First, Second}
MCReleases ==
    {[content |-> First, policy |-> "deployed"], [content |-> Second, policy |-> "deployed"]}
MCProfile == [policy |-> "p1", review |-> "r1", notice |-> "p2"]

Question(scope, strategy, caller, need) ==
    [scope |-> scope, strategy |-> strategy, mode |-> "run", caller |-> caller,
     need |-> need, equivalent |-> FALSE, prior |-> {}]

\* The follow-ups bring the policy as an answer from the first catalog cited it.
MCAsks ==
    {Question("business", "pipeline", "staff", {"review"}),
     Question("business", "subgraph", "staff", {"policy", "review"}),
     Question("external", "subgraph", "staff", {"policy"}),
     [Question("business", "pipeline", "guest", {"policy"}) EXCEPT
          !.equivalent = TRUE, !.prior = {[doc |-> "policy", text |-> "p1"]}],
     [Question("business", "pipeline", "guest", {"policy"}) EXCEPT
          !.equivalent = TRUE, !.mode = "prepare",
          !.prior = {[doc |-> "review", text |-> "r1"]}]}
=============================================================================
