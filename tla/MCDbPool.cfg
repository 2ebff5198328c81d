CONSTANTS
    h1 = h1
    h2 = h2
    start = start
    p1 = p1
    p2 = p2
    NoPool = NoPool
    NoAgent = NoAgent
    Handlers <- TwoHandlers
    Routes <- RoutesOfTwo
    Starter = start
    Pools <- TwoPools
    MaxConn = 1
SYMMETRY AnyPool
SPECIFICATION Spec
INVARIANTS
    OnlyKnownLosses
    ReasonKnown
    OnePoolServesAll
