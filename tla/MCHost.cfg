SPECIFICATION HostSpec
CONSTANTS
    ZPROGRAMS <- Programs
    ZW = 2
    BKRAM <- BlockRam
    FLASH <- Flash
    SDRAM <- SdRam
    RESET_ADDRESS = 10
    ZREGS = {"R0", "sPC"}
    NTexts <- ClientTexts
    NBoard <- BoardText
    NTop = 4
    NSockLen = 2
    NBufLen = 2
    NMaxCuts = 1
    DRegs <- Registers
    DMAXERR = 2
    DMaxIns = 2
    DMaxEdits = 1
    SHIGHBIT = 64
    SLGMEMS = {2, 3}
    SStreams <- Streams
    SBuffers <- Buffers
    SHOLDOFFS = {0, 2, 9}
    STraces <- TraceSet
    SMaxRuns = 3
    CDigits = {0, 9, 10, 35, 36, 61, 62, 63}
    CReadLens = {1, 8, 9, 72, 73, 512, 519}
    b0 = b0
    BITS = {b0}
    PGLEN = 2
    SECTOR = 4
    CELLS = 8
    Values = {{b0}, {}}
    Starts = {3}
    Lens = {3}
    DEVIDS = {"SPANSION", "MICRON"}
    Verify = {TRUE, FALSE}
    MaxCalls = 2
    Kills = TRUE
INVARIANTS
    
    DebuggerRight
    
    WordsCross
    
PROPERTIES
    ChannelsKept
    ToolsComeBack
CHECK_DEADLOCK FALSE
