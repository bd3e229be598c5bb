CONSTANTS
    Calls = {c1, c2}
    MaxTokens = 4
SPECIFICATION SessionSpec
SYMMETRY CallSymmetry
INVARIANTS
    SessionKept
    NoOrphanToken
    LogoutEnds
