SPECIFICATION Spec
CONSTANTS
    Commands = 3
    Setup = 1
    Word <- MCWord
    Bodies <- MCEscapes
INVARIANT TextKept
