SPECIFICATION FairSpec
CONSTANTS
    NPart = 4
    Confs = {1, 2, 3, 4, 5, 6}
    MaxTrial = 2
    Pos <- Places
    Size = 100
    RC = 50
    MinR2 = 25
INVARIANTS
    Apart
    AsManyAsAsked
PROPERTIES
    Ends
