SPECIFICATION Spec
CONSTANTS
    NProc = 2
    NFrames = 2
    NPFrame = 2
    Policies = {"procassini"}
    Record = FALSE
    Times = {1, 3}
    LBTimes = {1, 2}
    Files = {}
    FirstCost = 1
    FirstEff <- MCFirstEff
    Garbage = {0, 20}
INVARIANT
    EstimatedFromBatch
