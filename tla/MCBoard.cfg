SPECIFICATION BoardSpec
CONSTANTS
    NARP = 1
    PINGIP = "host"
    ARPEV = {"meant", "none"}
    NREQUESTS = 1
    BMem <- Words
    BLayouts <- Layouts
    BMaxResets = 2
    KTyped <- TypedTexts
    KFifoLen = 2
    KPipe = 2
    KMaxCalls = 2
    KYears = {1999, 2000, 2001}
    MLg = 2
INVARIANTS
    PingRight
    
    ConsoleRight
    ArithmeticRight
    ChecksumsRight
    ConversionsRight
PROPERTIES
    DayAfterDay
    BoardGoesOn
CHECK_DEADLOCK FALSE
