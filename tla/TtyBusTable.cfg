SPECIFICATION Spec
CONSTANTS
    NADDR = 3
    B = 2
    Values = {v1, v2}
    Junk = Junk
    RDTBL = 2
    MAXD = 1
    WRTBL = 2
    READBLOCK = 1
    READAHEAD = 1
    Lens = {1}
    Incs = {0, 1}
    MaxDown = 0
    MaxUp = 0
    Calls = {"read", "write"}
    ErrAddrs = {}
    Retries = TRUE
SYMMETRY ValueSymmetry
INVARIANTS ReadsRight
