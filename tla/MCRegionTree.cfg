SPECIFICATION Spec
CONSTANTS
    FirstPage = 1
    LastPage = 9
    Sizes = {1, 2}
    Aligns = {1, 2}
    Reserved <- MCReserved
INVARIANTS
    RankRule
    RegionsFound
    SubtreesExact
    SpotsAreFree
CHECK_DEADLOCK FALSE
