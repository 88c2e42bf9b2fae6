SPECIFICATION SpecAll
CONSTANTS
    Clients = {c1, c2, c3}
    Word = 16
INVARIANTS
    Exclusion
