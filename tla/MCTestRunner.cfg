SPECIFICATION Spec
CONSTANTS
    r1 = r1
    r2 = r2
    Chars = {"nl", "sep", "pad", "a", "b"}
    Routers <- OneRouter
    Plans <- MCPlans
INVARIANTS
    TypeOK
    VerdictIsMeaning
    FieldOfMatchedLine
