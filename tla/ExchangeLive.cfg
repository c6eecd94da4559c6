SPECIFICATION FairSpec
CONSTANTS
    a = a
    b = b
    c = c
    NProc = 3
    Particle = {a, b}
    Pos <- Cell
    Cuts <- MCCuts
    Owner <- MCOwner
    Near <- MCNear
    MaxIter = 1
    SendBuffer = 1
PROPERTY Termination
