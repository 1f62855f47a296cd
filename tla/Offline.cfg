SPECIFICATION CollectionSpec
CONSTANTS
    MaxScripts = 3
    QueriesOf <- MCQueriesOf
    ReadsCustomer <- MCReadsCustomer
    VariantNames <- MCVariantNames
    Attempts <- MCAttempts
    Slow <- MCSlow
    LabelRuns = {3}
    Analyzed <- MCAnalyzed
    BaseOf <- MCBaseOf
    Tolerance = 20
    Datasets <- MCDatasets
    Raw = {0, 1, 3}
    Floor = 1
    Ceiling = 2
    Folds = 5
    Tenth = 2
    MaxRegret = 1
    Penalty = 1000
INVARIANTS RowsTellTheKnobs TrustedOffersChoice TrustedIsUsable PlanTimeBlind MigrationRestores GateFollowsChoices
CHECK_DEADLOCK FALSE
