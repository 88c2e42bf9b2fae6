SPECIFICATION Spec
CONSTANTS
    Clients = {c1, c2, c3, c4, c5}
    Word = 32
INVARIANTS
    WordTellsHolders
    Exclusion
PROPERTIES
    ImplementsRwLockSpec
