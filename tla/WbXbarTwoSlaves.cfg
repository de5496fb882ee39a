SPECIFICATION Spec
CONSTANTS
    NM = 2
    NS = 2
    LGMAXBURST = 3
    OPT_TIMEOUT = 0
    TIMEOUT_WIDTH = 0
    OPT_STARVATION_TIMEOUT = 0
    MaxOut = 2
    Asks = {0, 1}
INVARIANTS
    ArbiterInv
    RequestInv
