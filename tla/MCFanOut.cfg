SPECIFICATION Spec
CONSTANTS
    MaxCount = 3
INVARIANTS
    TypeOK
    SendNeverBlocks
    ExitAfterAll
    ExitStatusTruthful
PROPERTIES
    StopMeansStop
    MainExits
