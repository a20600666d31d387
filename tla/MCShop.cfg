\* Two customers need more than two stalls hold at the start.
SPECIFICATION ShopFairSpec
CONSTANTS
    Stalls = {s1, s2}
    Customers = {c1, c2}
    StartStock = {1, 2}
    Needs = {2}
    LOADER_ADD = 2
    StockBound = 3
    NoOne = NoOne
INVARIANTS Conservation DestroyedUnused
PROPERTIES ProgramEnds
