SPECIFICATION ClockSpec
CONSTANTS
    NADDR = 1
    FLEN = 1
    ACKS = 1024
    WDT = 3
    Lens = {1}
    MaxOut = 1
    WriteErrors = TRUE
PROPERTY CommandsTaken
