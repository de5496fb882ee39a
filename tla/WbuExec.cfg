SPECIFICATION ClockSpec
CONSTANTS
    NADDR = 2
    FLEN = 1
    ACKS = 1024
    WDT = 3
    Lens = {1, 3}
    MaxOut = 2
    WriteErrors = TRUE
INVARIANTS ExecInv IssuedAsCommanded
PROPERTIES NoAbandonedRequest BusReleased
