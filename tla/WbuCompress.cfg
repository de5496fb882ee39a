SPECIFICATION Spec
CONSTANTS
    Values = {0, 2}
    Addrs = {2}
    IncValues = {2}
    TBL = 6
    NSHORT = 1
    NLONG = 2
    B = 2
INVARIANTS DecodesToWhatWentIn TablesAgree
