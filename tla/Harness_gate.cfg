\* Does a failed qualification bind the planner?
SPECIFICATION Spec
CONSTANTS
  Missing = Missing
  Null = Null
  Plans <- SomePlans
  Risks <- SomeRisks
  Briefs <- SomeBriefs
  Tools <- TwoTools
  Unit = 10
  Retries = 1
  Qualifying <- FirstVersion
  LastRecord = 1
CHECK_DEADLOCK FALSE
INVARIANT QualificationBinds
