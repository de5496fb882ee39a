SPECIFICATION SimSpec
CONSTANTS
    NBANKS = 2
    DROWS = {0}
    DBURST = 2
    DVALS = {1}
    ckCL = 4
    ckRP = 2
    ckRFC = 3
    ckREFI = 10
    NTIMESLOTS = 8
    MINCOUNT = 1
    INCREMENT <- HalfPeriods
    MDELAYS = {2, 3}
    MADDRS = {0}
    MVALS = {0, 1}
    SDBLOCKS = 2
    SDBYTES = 2
    SDDATA = {0, 1}
    RSPLEN = 2
    BLKDLY = 1
    UBITS = 3
    UWORD = 7
    UBUFLEN = 3
    USETUPS <- Setups
    UCmdText <- CmdText
    UConText <- ConText
    UNewline = 3
    UMAXCUTS = 1
    OLED_WIDTH = 3
    OLED_HEIGHT = 2
    EREGS = {0, 14}
    EWORDS = {32642, 21044}
    BOMBCOUNT = 500
    EMAXOPS = 3
INVARIANTS
    
    NoEdgeSkipped
    SimAnswersRight
    
    UartEchoes
    
    MdioRight
PROPERTIES
    SimGoesOn
