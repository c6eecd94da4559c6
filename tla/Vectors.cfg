SPECIFICATION FairSpec
CONSTANTS
    Rank = {1, 2}
    Root = 1
    Particle = {p1, p2, p3}
    Marked = Marked
    MaxIter = 2
INVARIANTS
    OncePerParticle
    LocalIdsValid
    OnlyItsOwn
PROPERTIES
    ImplementsRedistribution
    EveryCallReturns
