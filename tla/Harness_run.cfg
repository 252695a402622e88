\* One run of the harness; it stops when it has returned or failed.
SPECIFICATION FairSpec
CONSTANTS
  Missing = Missing
  Null = Null
  Plans <- SomePlans
  Risks <- SomeRisks
  Briefs <- SomeBriefs
  Tools <- TwoTools
  Unit = 10
  Retries = 1
  Qualifying <- FirstVersion
  LastRecord = 1
CHECK_DEADLOCK FALSE
INVARIANTS
  TypeOK
  NoOrphans
  NoCardsWithoutVerdict
  VerdictBinds
  RankedAfterVerdict
  BriefsAreHonest
PROPERTY RunEnds
