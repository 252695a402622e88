------------------------------ MODULE MCHarness ------------------------------
(***************************************************************************)
(* A small world for Harness: plans of up to three cards that tie, cross   *)
(* the veto's cap, lie between two hundredths or lack a field, wellness    *)
(* replies of every verdict, and briefs that are empty, pass, lack a        *)
(* citation, or cite an item that is only there when the wellness reasons  *)
(* are numbered too.  Confidences are in thousandths (Unit = 10).          *)
(***************************************************************************)
EXTENDS Harness

MCCard(id, opportunity, rank, confidence, evidence) ==
  [id |-> id, opportunity |-> opportunity, urgency_rank |-> rank,
   confidence |-> confidence, evidence |-> evidence]

Home == MCCard(1, "home_purchase", 2, 850, 1)
Renewal == MCCard(2, "renewal_refi", 1, 600, 0)
Attrition == MCCard(3, "attrition", 2, 900, 1)
Unsure == MCCard(4, "liquidity", Missing, 200, 1)
JustBelow == MCCard(8, "liquidity", 2, 347, 1)   \* the cap is the nearest hundredth
Faint == MCCard(9, "attrition", 2, 8, 1)        \* 0.0056 when downgraded
NoConfidence == MCCard(5, "liquidity", Missing, Missing, 1)
NullConfidence == MCCard(6, "renewal_refi", 1, Null, 1)
NoEvidence == MCCard(7, "attrition", 1, 700, Missing)

SomePlans == {[cards |-> cs] : cs \in
  {Missing, Null, << >>, <<Unsure, Home>>, <<Faint, JustBelow>>, <<NoConfidence, Unsure>>, <<NullConfidence>>,
   <<NoEvidence, Renewal>>, <<Home, Renewal, Attrition>>}}

SomeRisks ==
  {[verdict |-> v, advisor_note |-> "text", reasons |-> 1] : v \in Verdicts} \cup
  {[verdict |-> "veto", advisor_note |-> Null, reasons |-> Missing],
   [verdict |-> "downgrade", advisor_note |-> Missing, reasons |-> Missing],
   [verdict |-> "proceed", advisor_note |-> "text", reasons |-> Null]}

\* No text at all, which the check passes; "Fact [E1]."; "Fact.";
\* "Fact [E2]. Suggested words."
SomeBriefs == {<< >>, <<Word, Cite(1), Stop>>, <<Word, Stop>>,
               <<Word, Cite(2), Stop, Space, Suggest, Word>>}

\* assess_savings is to the harness what get_signals is: a tool that loads the
\* record.
TwoTools == {"get_signals", "check_qualification"}

\* The client qualifies in the first version of the record only.
FirstVersion == {0}
=============================================================================
