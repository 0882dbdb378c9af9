---------------------------- MODULE MCCoordinator ----------------------------
(***************************************************************************)
(* Small instances of Coordinator: two oracles that may answer anything,   *)
(* and plans of one to four steps that meet every branch of the gate.      *)
(***************************************************************************)
EXTENDS Coordinator

Read      == [tool |-> "http_request", target |-> "literal", marked |-> FALSE, mutates |-> FALSE]
Post      == [Read EXCEPT !.mutates = TRUE]
Marked    == [Read EXCEPT !.marked = TRUE]
ByName    == [Read EXCEPT !.target = "localhost"]
Outside   == [Read EXCEPT !.target = "outside"]
Forbidden == [Read EXCEPT !.tool = "forbidden"]
NoAdapter == [Read EXCEPT !.tool = "missing"]

\* The metadata say which of the answers below the oracles may give to the plan.
PlanOf(s, ids, answers) ==
  [steps |-> s, destructive |-> FALSE, oracle_ids |-> ids, metadata |-> answers]

MCAnswerSet ==
  {[verdict |-> v, fingerprint |-> NoFingerprint] :
     v \in {"PASS", "INCONCLUSIVE", "raises", "mismatched", "VULNERABLE"}}
  \cup [verdict : {"FAIL"}, fingerprint : Fingerprints]

FewAnswers ==
  {answer \in AnswerSet : answer.verdict \in {"PASS", "FAIL"}}

\* One oracle may answer anything, and another one passes, breaks, or fails with
\* always the same evidence; or every oracle passes or fails.
MCAnswers(o, plan, obs) ==
  LET print == CHOOSE f \in Fingerprints : TRUE IN
  CASE plan.metadata = "few" -> FewAnswers
    [] o = "status"          -> AnswerSet
    [] OTHER ->
         {answer \in AnswerSet :
            \/ answer.verdict \in {"PASS", "raises"}
            \/ answer = [verdict |-> "FAIL", fingerprint |-> print]}

\* A plan that may be promoted, and plans that may be refused between two
\* confirmations: the name localhost may stop resolving, an adapter be missing.
OnePlan == {PlanOf(<<Read>>, {"status", "effect"}, "any")}
NamedPlans == {PlanOf(s, {"status"}, "any") : s \in {<<Read, ByName>>, <<Read, NoAdapter>>}}

\* Targets are literal addresses and every allowlisted tool has an adapter; one
\* plan is longer than a session's budget, one longer than a plan may be.
LiteralPlans ==
  {PlanOf(s, {"status"}, "few") :
     s \in {<<Read>>, <<Read, Read, Read>>, <<Read, Post>>, <<Marked>>, <<Read, Outside>>,
            <<Read, Forbidden>>, <<Read, Read, Read, Read>>}}
  \cup {[PlanOf(<<Read>>, {"status"}, "few") EXCEPT !.destructive = TRUE],
        PlanOf(<<Read>>, {"status", "unregistered"}, "few")}

AllPlans == OnePlan \cup NamedPlans \cup LiteralPlans

\* Every plan by itself, one that may be promoted before each of the literal ones,
\* and too many.
First == PlanOf(<<Read>>, {"status"}, "few")
Single == {<<plan>> : plan \in Plans}
Pairs == {First} \X LiteralPlans
MCProposals == {<<>>, <<First, First, First>>} \cup Single \cup Pairs
=============================================================================
