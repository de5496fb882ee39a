SPECIFICATION ClockSpec
CONSTANTS
    NM = 1
    NS = 2
    LGMAXBURST = 3
    OPT_TIMEOUT = 3
    TIMEOUT_WIDTH = 2
    OPT_STARVATION_TIMEOUT = 1
    MaxOut = 7
    Asks = {0, 1, 2}
INVARIANTS
    BurstInv

    
