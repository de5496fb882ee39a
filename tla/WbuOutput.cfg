SPECIFICATION Spec
CONSTANTS
    LONG = 3
    MAX_LINE_LENGTH = 5
    IDLE = 1
INVARIANTS DigitsInOrder LinesFit
