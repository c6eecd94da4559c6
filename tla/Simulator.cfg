SPECIFICATION Spec
CONSTANTS
    NProc = 2
    NFrames = 2
    NPFrame = 2
    Policies = {"menon", "procassini", "marquez", "file", "random"}
    Files <- MCFiles
    Record = TRUE
    Times = {1, 4}
    LBTimes = {1, 2}
    FirstCost = 1
    FirstEff <- MCFirstEff
    Garbage = {0}
INVARIANTS
    SameCourse
    ImbalanceSinceLB
    SamplesPerLB
    DecidedPerFrame
    HistoriesComplete
