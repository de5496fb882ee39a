SPECIFICATION LinkSpec
CONSTANTS
    NADDR = 4
    B = 2
    Values = {v1, v2}
    Junk = Junk
    RDTBL = 2
    MAXD = 1
    WRTBL = 2
    READBLOCK = 2
    READAHEAD = 0
    Lens = {1, 2, 3}
    Incs = {0, 1}
    MaxDown = 0
    MaxUp = 2
    Calls = {"read", "write"}
    ErrAddrs = {2}
    Retries = FALSE
SYMMETRY ValueSymmetry
INVARIANTS
    ReadersReadRight
    WritesRight
    NeverExits
