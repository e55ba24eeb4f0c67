SPECIFICATION Spec
CONSTANTS
    Plans <- MCPlans
    Locations <- MCLocations
    Slotted <- MCSlotted
    SlotName <- MCSlotName
    MaxRefused = 1
INVARIANTS
    TypeOK
    LogTellsSession
    EveryCardServed
    ResultsAreAnswers
    FailureIsClean
PROPERTIES
    RunEnds
