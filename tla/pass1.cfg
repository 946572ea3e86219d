SPECIFICATION Spec
CONSTANTS
    x = x
    y = y
    v1 = v1
    v2 = v2
    v3 = v3
    NoInit = NoInit
    Junk = Junk
    Outside = Outside
    Name = {x, y}
    Value = {v1, v2, v3}
    Functions <- MCFunctions
INVARIANTS HoistInv Pass1TypeOK CompilesUnless MeaningKept
CHECK_DEADLOCK FALSE
