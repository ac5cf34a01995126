SPECIFICATION HeapSpec
CONSTANTS
    Nodes = {0, 1, 2, 3, 4, 5, 6}
    outRanks <- soonerRanksHigher
    None = None
INVARIANT checkTree
PROPERTY ImplementsRankedSet
