SPECIFICATION Motion
CONSTANTS
    Particle = {1, 2}
    First = 1
    Size = 10
    RC = 10
    Speeds <- Initial
    Acc <- Kicks
INVARIANTS
    InBox
PROPERTIES
    ShortSteps
