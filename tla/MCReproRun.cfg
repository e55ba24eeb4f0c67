SPECIFICATION Spec
CONSTANTS
    t1 = t1
    t2 = t2
    t3 = t3
    TestId <- MCTestId
    Configs <- MCConfigs
INVARIANTS
    TypeOK
    EvidenceCollected
    TriggeredCommandsSent
    PlanFollowed
    EveryListedTestRuns
    MailHoldsWholeRun
    CleanShutdown
    ClosingMessageTrue
PROPERTIES
    StopsAtFirstTrigger
    KeepsPromise
