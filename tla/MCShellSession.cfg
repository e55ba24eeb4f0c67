SPECIFICATION Spec
CONSTANTS
    Commands = 3
    Setup = 1
    Word <- MCWord
    Bodies <- MCBodies
INVARIANTS
    TypeOK
    ResultExact
    OwnOutputOnly
    OneReader
PROPERTIES
    SessionEnds
