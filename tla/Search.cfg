SPECIFICATION Spec
CONSTANTS
    NFrames = 4
    NPFrame = 2
    NbBestPath = 1
    Record = TRUE
    LastTimes = {1, 5}
    LBTimes = {2}
    BatchTimes <- MCBatchTimes
INVARIANTS
    EveryPlanAccounted
    FirstYesIsBest
    SnapshotOfFrame
    QueueOrdered
    HistoryOfSolution
