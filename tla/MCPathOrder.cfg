CONSTANTS
    Segments = {1, 2, 3}
    Rank <- MCRank
    NoFirst = NoFirst
    NoArchive = NoArchive
    PairDepth = 3
    FileDepth = 2
    MaxFiles = 4
SPECIFICATION Spec
INVARIANT ComparatorMatchesPackOrder
INVARIANT IndexNeverOvershoots
